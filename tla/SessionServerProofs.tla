------------------------- MODULE SessionServerProofs -------------------------
(***************************************************************************)
(* Theorems about SessionServer, for any number of runs, watchers and any   *)
(* limits, and their proofs.  The connection's operators come first, then   *)
(* one inductive invariant for every run's record.  What browsers and       *)
(* operators are told follows: the status always tells the current run's    *)
(* stage, a run's final usage is what the service reported, and the status  *)
(* alone shows one reservation being taken, held and freed.                 *)
(***************************************************************************)
EXTENDS SessionServer, FiniteSetTheorems, TLAPS

(* The connection *)

\* How the attach promise and the socket go together.
ConnInv(c) ==
    /\ c.socket = "handshaking" => c.attach = "pending"
    /\ c.socket = "open" => c.attach \in {"pending", "done"}
    /\ c.transport <=> c.attach = "done"
    /\ c.closeCall # "none" => c.transport
    /\ c.closeCall \in Outcomes => c.socket = "closed"

\* No socket, or one that its own continuation will close.
Gone(c) ==
    c.socket \in {"handshaking", "open"}
      => c.socket = "open" /\ c.attach = "pending" /\ c.aborted

\* Gone, or about to be: a close() waits for the service or for its time limit.
Ending(c) == Gone(c) \/ (c.transport /\ c.closeCall # "none")

ConnOK(c) == c \in Connection /\ ConnInv(c)

LEMMA CreatedOK == ConnOK(Created) /\ Created.socket = "none" /\ ~Created.transport
  BY DEF Created, ConnOK, ConnInv, Connection, AttachStates, SocketStates, Reports,
         CloseCalls, Outcomes

LEMMA SettledType ==
    ASSUME NEW c \in Connection
    PROVE  /\ Settled(c) \in CloseCalls /\ Reported(c) \in Outcomes
           /\ Settled(c) = "none" <=> c.closeCall = "none"
           /\ Settled(c) # "pending"
  BY DEF Settled, Reported, Connection, CloseCalls, Outcomes, Reports

LEMMA TerminatedOK ==
    ASSUME NEW c \in Connection, c.transport <=> c.attach = "done",
           c.closeCall # "none" => c.transport
    PROVE  /\ ConnOK(Terminated(c)) /\ Terminated(c).socket = "closed"
           /\ Terminated(c).transport = c.transport /\ Terminated(c).attach = c.attach
           /\ Terminated(c).closeCall = "none" <=> c.closeCall = "none"
<1>1. /\ Terminated(c) \in Connection /\ Terminated(c).socket = "closed"
      /\ Terminated(c).attach = c.attach /\ Terminated(c).transport = c.transport
      /\ Terminated(c).closeCall = Settled(c)
  BY SettledType DEF Terminated, Connection, SocketStates
<1> QED
  BY <1>1, SettledType DEF ConnOK, ConnInv

LEMMA AttachBegunOK ==
    ASSUME NEW c, ConnOK(c) PROVE ConnOK(AttachBegun(c))
<1>1. CASE c.attach = "none"
  <2>1. /\ AttachBegun(c) \in Connection
        /\ AttachBegun(c).attach = "pending" /\ AttachBegun(c).socket = "handshaking"
        /\ AttachBegun(c).transport = c.transport /\ AttachBegun(c).closeCall = c.closeCall
    BY <1>1 DEF AttachBegun, ConnOK, Connection, AttachStates, SocketStates
  <2> QED
    BY <1>1, <2>1 DEF ConnOK, ConnInv, Outcomes
<1>2. CASE c.attach # "none"
  BY <1>2 DEF AttachBegun
<1> QED
  BY <1>1, <1>2

LEMMA HandshakeFailedOK ==
    ASSUME NEW c, ConnOK(c), ~c.transport
    PROVE  /\ ConnOK(HandshakeFailed(c)) /\ HandshakeFailed(c).socket = "closed"
           /\ HandshakeFailed(c).transport = c.transport
<1> DEFINE t == Terminated(c)
<1>1. /\ ConnOK(t) /\ t.socket = "closed" /\ t.transport = c.transport
  BY TerminatedOK DEF ConnOK, ConnInv
<1>2. HandshakeFailed(c) = [t EXCEPT !.attach = "failed"]
  BY DEF HandshakeFailed
<1> HIDE DEF t
<1>3. /\ HandshakeFailed(c) \in Connection /\ HandshakeFailed(c).socket = t.socket
      /\ HandshakeFailed(c).transport = t.transport /\ HandshakeFailed(c).attach = "failed"
      /\ HandshakeFailed(c).closeCall = t.closeCall
  BY <1>1, <1>2 DEF ConnOK, Connection, AttachStates
<1> QED
  BY <1>1, <1>3 DEF ConnOK, ConnInv

LEMMA HandshakeOpenedOK ==
    ASSUME NEW c, ConnOK(c), c.socket = "handshaking" PROVE ConnOK(HandshakeOpened(c))
<1>1. /\ HandshakeOpened(c) \in Connection /\ HandshakeOpened(c).socket = "open"
      /\ HandshakeOpened(c).attach = c.attach /\ HandshakeOpened(c).transport = c.transport
      /\ HandshakeOpened(c).closeCall = c.closeCall
  BY DEF HandshakeOpened, ConnOK, Connection, SocketStates
<1> QED
  BY <1>1 DEF ConnOK, ConnInv, Outcomes

\* An attach whose abort came too late for the handshake still ends its socket.
LEMMA AttachSettledOK ==
    ASSUME NEW c, ConnOK(c), c.attach = "pending", c.socket \in {"open", "closed"}
    PROVE  ConnOK(AttachSettled(c)) /\ (Gone(c) => Gone(AttachSettled(c)))
<1>0. ~c.transport
  BY DEF ConnOK, ConnInv
<1>1. CASE c.aborted
  <2>1. AttachSettled(c) = HandshakeFailed(c)
    BY <1>1 DEF AttachSettled, HandshakeFailed
  <2> QED
    BY <1>0, <2>1, HandshakeFailedOK DEF Gone
<1>2. CASE ~c.aborted
  <2>1. /\ AttachSettled(c) \in Connection /\ AttachSettled(c).socket = c.socket
        /\ AttachSettled(c).attach = "done" /\ AttachSettled(c).transport
        /\ AttachSettled(c).closeCall = c.closeCall
    BY <1>2 DEF AttachSettled, ConnOK, Connection, AttachStates
  <2> QED
    BY <1>0, <1>2, <2>1 DEF ConnOK, ConnInv, Gone, Outcomes
<1> QED
  BY <1>1, <1>2 DEF ConnOK, Connection

\* Aborting leaves no attachment that nobody will end.
LEMMA AbortedOK ==
    ASSUME NEW c, ConnOK(c)
    PROVE  /\ ConnOK(Aborted(c)) /\ Aborted(c).transport = c.transport
           /\ ~c.transport => Gone(Aborted(c))
           /\ Gone(c) => Gone(Aborted(c))
           /\ c.socket = "none" => Aborted(c).socket = "none"
<1> DEFINE a == [c EXCEPT !.aborted = TRUE]
<1>1. /\ a \in Connection /\ a.aborted /\ a.transport = c.transport /\ a.socket = c.socket
      /\ a.attach = c.attach /\ a.closeCall = c.closeCall
  BY DEF ConnOK, Connection
<1>2. ConnOK(a)
  BY <1>1 DEF ConnOK, ConnInv
<1>3. Aborted(c) = IF c.socket = "handshaking" THEN HandshakeFailed(a) ELSE a
  BY DEF Aborted
<1> HIDE DEF a
<1>4. CASE c.socket = "handshaking"
  <2>1. ~a.transport
    BY <1>1, <1>4 DEF ConnOK, ConnInv
  <2>2. /\ ConnOK(HandshakeFailed(a)) /\ HandshakeFailed(a).socket = "closed"
        /\ HandshakeFailed(a).transport = a.transport
    BY <1>2, <2>1, HandshakeFailedOK
  <2> QED
    BY <1>1, <1>3, <1>4, <2>2 DEF Gone
<1>5. CASE c.socket # "handshaking"
  BY <1>1, <1>2, <1>3, <1>5 DEF Gone, ConnOK, ConnInv, Connection, AttachStates
<1> QED
  BY <1>4, <1>5

\* close() ends a connection at once, or waits.
LEMMA CloseBegunOK ==
    ASSUME NEW c, ConnOK(c)
    PROVE  /\ ConnOK(CloseBegun(c)) /\ Ending(CloseBegun(c))
           /\ Gone(c) => Gone(CloseBegun(c))
           /\ CloseBegun(c).transport = c.transport
           /\ c.socket = "none" /\ ~c.transport => CloseBegun(c).socket = "none"
<1>1. CASE ~c.transport
  BY <1>1, AbortedOK DEF CloseBegun, Ending
<1>2. CASE c.transport /\ c.closeCall # "none"
  BY <1>2 DEF CloseBegun, Ending
<1>3. CASE c.transport /\ c.closeCall = "none" /\ (c.report # "none" \/ c.socket # "open")
  <2> DEFINE d == [c EXCEPT !.closeCall = Reported(c)]
  <2>1. d \in Connection /\ d.attach = c.attach /\ d.transport = c.transport
    BY SettledType DEF ConnOK, Connection, CloseCalls
  <2>2. CloseBegun(c) = Terminated(d)
    BY <1>3 DEF CloseBegun
  <2> HIDE DEF d
  <2>3. d.transport /\ d.attach = "done"
    BY <1>3, <2>1 DEF ConnOK, ConnInv
  <2>4. ConnOK(Terminated(d)) /\ Terminated(d).socket = "closed"
        /\ Terminated(d).transport = d.transport
    BY <2>1, <2>3, TerminatedOK
  <2> QED
    BY <1>3, <2>1, <2>2, <2>4 DEF Gone, Ending
<1>4. CASE c.transport /\ c.closeCall = "none" /\ ~(c.report # "none" \/ c.socket # "open")
  <2> DEFINE d == [c EXCEPT !.closing = TRUE, !.closeCall = "pending"]
  <2>1. d \in Connection /\ d.socket = c.socket /\ d.attach = c.attach
        /\ d.transport = c.transport /\ d.closeCall = "pending" /\ d.aborted = c.aborted
    BY DEF ConnOK, Connection, CloseCalls
  <2>2. CloseBegun(c) = d
    BY <1>4 DEF CloseBegun
  <2> HIDE DEF d
  <2> QED
    BY <1>4, <2>1, <2>2 DEF ConnOK, ConnInv, Gone, Ending, Outcomes
<1> QED
  BY <1>1, <1>2, <1>3, <1>4

LEMMA DeferredTerminatedOK ==
    ASSUME NEW c, ConnOK(c)
    PROVE  ConnOK(DeferredTerminated(c)) /\ Gone(DeferredTerminated(c))
           /\ DeferredTerminated(c).transport = c.transport
<1>1. CASE c.transport
  <2>1. ConnOK(Aborted(c)) /\ Aborted(c).transport = c.transport
    BY AbortedOK
  <2>2. /\ ConnOK(Terminated(Aborted(c))) /\ Terminated(Aborted(c)).socket = "closed"
        /\ Terminated(Aborted(c)).transport = Aborted(c).transport
    BY <2>1, TerminatedOK DEF ConnOK, ConnInv
  <2> QED
    BY <1>1, <2>1, <2>2 DEF DeferredTerminated, Gone
<1>2. CASE ~c.transport
  BY <1>2, AbortedOK DEF DeferredTerminated
<1> QED
  BY <1>1, <1>2

LEMMA ClosedReceivedOK ==
    ASSUME NEW c, ConnOK(c), NEW report \in Reports
    PROVE  /\ ConnOK(ClosedReceived(c, report))
           /\ Gone(c) => Gone(ClosedReceived(c, report))
           /\ Ending(c) => Ending(ClosedReceived(c, report))
           /\ ClosedReceived(c, report).transport = c.transport
<1> DEFINE d == [c EXCEPT !.report = report]
<1>1. /\ d \in Connection /\ d.socket = c.socket /\ d.attach = c.attach
      /\ d.transport = c.transport /\ d.aborted = c.aborted /\ d.closeCall = c.closeCall
  BY DEF ConnOK, Connection
<1>2. ConnOK(d)
  BY <1>1 DEF ConnOK, ConnInv
<1>3. ClosedReceived(c, report) = IF c.closeCall = "pending" THEN Terminated(d) ELSE d
  BY DEF ClosedReceived
<1> HIDE DEF d
<1>4. /\ ConnOK(Terminated(d)) /\ Terminated(d).socket = "closed"
      /\ Terminated(d).transport = d.transport
  BY <1>2, TerminatedOK DEF ConnOK, ConnInv
<1> QED
  BY <1>1, <1>2, <1>3, <1>4 DEF Gone, Ending

LEMMA LostOK ==
    ASSUME NEW c, ConnOK(c)
    PROVE  ConnOK(Lost(c)) /\ Lost(c).socket = "closed" /\ Lost(c).transport = c.transport
<1>0. (c.disconnected \/ ReportsLoss(c)) \in BOOLEAN
  BY DEF ReportsLoss, ConnOK, Connection
<1>1. /\ Lost(c) \in Connection /\ Lost(c).socket = "closed"
      /\ Lost(c).attach = c.attach /\ Lost(c).transport = c.transport
      /\ Lost(c).closeCall = Settled(c)
  BY <1>0, SettledType DEF Lost, ConnOK, Connection, SocketStates
<1> QED
  BY <1>1, SettledType DEF ConnOK, ConnInv
-----------------------------------------------------------------------------
(* One run's record *)

\* What every run's record satisfies: a run that is not linked to its connection has
\* no socket, and one whose closer has run has a creation that is aborted and a
\* connection that is ending.
Good(c) ==
    /\ c \in Run /\ Len(c.buffer) <= BufferLimit
    /\ ConnInv(c.conn)
    /\ c.phase = "closing" <=> c.closer # "none"
    /\ c.opening \in {"token", "fetch", "resolved"} => c.kind = "live" /\ ~c.linked
    /\ ~c.linked => c.conn.socket = "none" /\ ~c.conn.transport
    /\ c.kind = "none" => c.closer = "none" /\ ~c.linked
    /\ c.closer \in {"waiting", "done"} =>
         /\ c.opening \in {"token", "fetch"} => c.aborted
         /\ Ending(c.conn)
         /\ c.closer = "done" \/ c.lost => Gone(c.conn)

\* What a step that leaves the reservation alone may do to a record.
Evolves(c, d) ==
    /\ d.kind = c.kind
    /\ d.closer = "done" <=> c.closer = "done"
    /\ c.phase = "closing" => d.phase = "closing" /\ d.lost = c.lost

\* The inductive invariant: every record is good, the reservation is held by the
\* one run that has begun and has not closed, runs begin in order, and an operator
\* told "idle" still sees the gate closed and the reservation free.
Reserved ==
    /\ \A r \in Runs : runs[r].kind # "none" => (run = r <=> runs[r].closer # "done")
    /\ run # NoRun => runs[run].kind # "none"

Inv ==
    /\ TypeOK
    /\ \A r \in Runs : Good(runs[r])
    /\ Reserved
    /\ idleSeen => draining /\ run = NoRun
    /\ \E n \in 0..MaxRuns : Begun = 1..n

\* ClosingIsFinal, of one step.
Final ==
    \A r \in Runs :
      runs[r].phase = "closing" => runs'[r].phase = "closing" /\ runs'[r].lost = runs[r].lost

\* The variables beside the records, after a step that keeps the reservation.
OthersKept ==
    /\ run' = run /\ closedRun' = closedRun /\ idleSeen' = idleSeen
    /\ draining' \in BOOLEAN /\ (draining => draining')
    /\ watchers' \in 0..MaxWatchers /\ shutdown' \in BOOLEAN
    /\ status' \in {"disconnected", "connecting", "connected", "closing", "error"}

LEMMA RecordKept ==
    ASSUME Inv, NEW r \in Runs, NEW rec, Good(rec), Evolves(runs[r], rec),
           runs' = [runs EXCEPT ![r] = rec], OthersKept
    PROVE  Inv' /\ Final
<1>1. /\ runs \in [Runs -> Run] /\ rec \in Run /\ Len(rec.buffer) <= BufferLimit
      /\ runs'[r] = rec /\ \A q \in Runs \ {r} : runs'[q] = runs[q]
  BY DEF Inv, TypeOK, Good
<1>2. \A q \in Runs : /\ Good(runs'[q]) /\ runs'[q].kind = runs[q].kind
                      /\ runs'[q].closer = "done" <=> runs[q].closer = "done"
  BY <1>1 DEF Inv, Evolves
<1>3. TypeOK'
  BY <1>1 DEF Inv, TypeOK, OthersKept
<1>4. Reserved'
  BY <1>2 DEF Inv, TypeOK, Reserved, OthersKept
<1>5. Begun' = Begun
  BY <1>2 DEF Begun
<1>6. (idleSeen => draining /\ run = NoRun)'
  BY DEF Inv, OthersKept
<1>7. Final
  BY <1>1 DEF Final, Evolves
<1> QED
  BY <1>2, <1>3, <1>4, <1>5, <1>6, <1>7 DEF Inv

\* Whatever else a step did to the record, closing the run keeps it good.
LEMMA ClosingGood ==
    ASSUME NEW c, Good(c), c.closer = "none", c.kind # "none", NEW lost \in BOOLEAN
    PROVE  Good(Closing(c, lost)) /\ Evolves(c, Closing(c, lost))
<1> DEFINE d == Closing(c, lost)
<1>1. c \in Run /\ 0 \in 0..SessionLimit /\ 0 \in 0..IdleLimit /\ <<>> \in Seq(EventClasses)
  BY LimitsAssumption DEF Good
<1>2. /\ d \in Run /\ d.kind = c.kind /\ d.phase = "closing" /\ d.closer = "scheduled"
      /\ d.opening = c.opening /\ d.linked = c.linked /\ d.conn = c.conn /\ d.buffer = <<>>
  BY <1>1 DEF Closing, Run, Phases
<1>3. Len(d.buffer) <= BufferLimit
  BY <1>2, LimitsAssumption
<1> QED
  BY <1>2, <1>3 DEF Good, Evolves

LEMMA ClosedRunKept ==
    ASSUME Inv, NEW r \in Runs, NEW rec, Good(rec), Evolves(runs[r], rec),
           NEW lost \in BOOLEAN, CloseRun(r, rec, lost),
           status' = status \/ status' = "closing" => OthersKept
    PROVE  Inv' /\ Final
<1>0. OthersKept
  BY DEF CloseRun
<1>1. CASE run = r /\ rec.closer = "none"
  <2>1. runs' = [runs EXCEPT ![r] = Closing(rec, lost)]
    BY <1>1 DEF CloseRun
  <2>2. rec.kind # "none"
    BY <1>1 DEF Inv, Reserved, Evolves, NoRun, Runs
  <2>3. Good(Closing(rec, lost)) /\ Evolves(rec, Closing(rec, lost))
    BY <1>1, <2>2, ClosingGood
  <2>4. runs[r].phase # "closing"
    BY <1>1 DEF Evolves, Good
  <2>5. Evolves(runs[r], Closing(rec, lost))
    BY <2>3, <2>4 DEF Evolves
  <2> QED
    BY <1>0, <2>1, <2>3, <2>5, RecordKept
<1>2. CASE ~(run = r /\ rec.closer = "none")
  <2>1. runs' = [runs EXCEPT ![r] = rec]
    BY <1>2 DEF CloseRun
  <2> QED
    BY <1>0, <2>1, RecordKept
<1> QED
  BY <1>1, <1>2

\* The same two, for the steps of a run, which leave every other variable alone.
OthersSame == UNCHANGED <<run, closedRun, draining, idleSeen, watchers, shutdown>>

LEMMA UpdateKept ==
    ASSUME Inv, NEW r \in Runs, NEW rec, Good(rec), Evolves(runs[r], rec),
           Update(r, rec), OthersSame
    PROVE  Inv' /\ Final
<1>1. OthersKept
  BY DEF Inv, TypeOK, OthersSame, OthersKept, Update
<1> QED
  BY <1>1, RecordKept DEF Update

LEMMA CloseRunKept ==
    ASSUME Inv, NEW r \in Runs, NEW rec, Good(rec), Evolves(runs[r], rec),
           NEW lost \in BOOLEAN, CloseRun(r, rec, lost), OthersSame
    PROVE  Inv' /\ Final
<1>1. status' = status \/ status' = "closing" => OthersKept
  BY DEF Inv, TypeOK, OthersSame, OthersKept
<1> QED
  BY <1>1, ClosedRunKept
-----------------------------------------------------------------------------
(* The steps of the creation and readiness handlers *)

\* A record whose handlers moved on, with the connection left in a state that is no
\* less ended than before.
Moved(c, d) ==
    /\ d \in Run /\ Len(d.buffer) <= BufferLimit
    /\ d.kind = c.kind /\ d.linked = c.linked /\ d.aborted = c.aborted
    /\ d.phase = c.phase /\ d.closer = c.closer /\ d.lost = c.lost

LEMMA MovedGood ==
    ASSUME NEW c, Good(c), NEW d, Moved(c, d), ConnInv(d.conn),
           d.opening = c.opening \/ d.opening \in {"settling", "returned"},
           ~c.linked => d.conn.socket = "none" /\ ~d.conn.transport,
           Ending(c.conn) => Ending(d.conn), Gone(c.conn) => Gone(d.conn)
    PROVE  Good(d) /\ Evolves(c, d)
  BY DEF Good, Moved, Evolves

\* A change of the connection alone.
LEMMA ConnMoved ==
    ASSUME NEW c, Good(c), NEW conn, ConnOK(conn),
           ~c.linked => conn.socket = "none" /\ ~conn.transport,
           Ending(c.conn) => Ending(conn), Gone(c.conn) => Gone(conn)
    PROVE  LET d == [c EXCEPT !.conn = conn] IN Good(d) /\ Evolves(c, d)
<1> DEFINE d == [c EXCEPT !.conn = conn]
<1>1. /\ Moved(c, d) /\ d.conn = conn /\ d.opening = c.opening
  BY DEF Good, ConnOK, Run, Moved
<1> QED
  BY <1>1, MovedGood DEF ConnOK

\* A creation handler that stops creating; the connection is left as it is.
LEMMA OpeningMoved ==
    ASSUME NEW c, Good(c), NEW o \in {"settling", "returned"}
    PROVE  LET d == [c EXCEPT !.opening = o] IN Good(d) /\ Evolves(c, d)
<1> DEFINE d == [c EXCEPT !.opening = o]
<1>1. Moved(c, d) /\ d.opening = o /\ d.conn = c.conn
  BY DEF Good, Run, Moved
<1> QED
  BY <1>1, MovedGood DEF Good

LEMMA ReadyingMoved ==
    ASSUME NEW c, Good(c), NEW o \in {"late", "settling", "returned"}
    PROVE  LET d == [c EXCEPT !.readying = o] IN Good(d) /\ Evolves(c, d)
<1> DEFINE d == [c EXCEPT !.readying = o]
<1>1. Moved(c, d) /\ d.opening = c.opening /\ d.conn = c.conn
  BY DEF Good, Run, Moved
<1> QED
  BY <1>1, MovedGood DEF Good

LEMMA OpenFailsKept ==
    ASSUME Inv, NEW r \in Runs, OpenFails(r) PROVE Inv' /\ Final
<1> DEFINE d == [runs[r] EXCEPT !.opening = Awaiting(r)]
<1>1. Good(d) /\ Evolves(runs[r], d)
  BY OpeningMoved DEF Awaiting, Inv
<1>2. CloseRun(r, d, TRUE) /\ OthersSame
  BY DEF OpenFails, OthersSame
<1> QED
  BY <1>1, <1>2, CloseRunKept

\* An aborted creation does not go on: that is what OpenFails is for.
LEMMA TokenArrivesKept ==
    ASSUME Inv, NEW r \in Runs, TokenArrives(r) PROVE Inv' /\ Final
<1> DEFINE c == runs[r]
           d == [c EXCEPT !.opening = "fetch"]
<1>1. Good(c) /\ c.opening = "token" /\ ~c.aborted
  BY DEF Inv, TokenArrives
<1>2. Moved(c, d) /\ d.opening = "fetch" /\ d.conn = c.conn
  BY <1>1 DEF Good, Run, Moved
<1>3. Good(d) /\ Evolves(c, d)
  BY <1>1, <1>2 DEF Good, Moved, Evolves
<1>4. Update(r, d) /\ OthersSame
  BY DEF TokenArrives, OthersSame
<1> QED
  BY <1>3, <1>4, UpdateKept

LEMMA SessionCreatedKept ==
    ASSUME Inv, NEW r \in Runs, SessionCreated(r) PROVE Inv' /\ Final
<1> DEFINE c == runs[r]
           d == [c EXCEPT !.opening = "resolved"]
<1>1. Good(c) /\ c.opening = "fetch" /\ ~c.aborted
  BY DEF Inv, SessionCreated
<1>2. Moved(c, d) /\ d.opening = "resolved" /\ d.conn = c.conn
  BY <1>1 DEF Good, Run, Moved
<1>3. Good(d) /\ Evolves(c, d)
  BY <1>1, <1>2 DEF Good, Moved, Evolves
<1>4. Update(r, d) /\ OthersSame
  BY DEF SessionCreated, OthersSame
<1> QED
  BY <1>3, <1>4, UpdateKept

\* The connection is linked to a run that still wants it, or ended.
LEMMA OpenResumesKept ==
    ASSUME Inv, NEW r \in Runs, OpenResumes(r) PROVE Inv' /\ Final
<1> DEFINE c == runs[r]
<1>1. Good(c) /\ c.opening = "resolved" /\ OthersSame
  BY DEF Inv, OpenResumes, OthersSame
<1>2. CASE OpenStillWanted(r)
  <2> DEFINE d == [c EXCEPT !.linked = TRUE, !.phase = "negotiating", !.opening = "returned"]
             e == [c EXCEPT !.linked = TRUE, !.opening = "settling"]
  <2>1. c.closer = "none" /\ c.phase = "connecting"
    BY <1>1, <1>2 DEF Good, OpenStillWanted
  <2>2. /\ d \in Run /\ d.linked /\ d.phase = "negotiating" /\ d.opening = "returned"
        /\ d.conn = c.conn /\ d.kind = c.kind /\ d.closer = c.closer /\ d.buffer = c.buffer
    BY <1>1 DEF Good, Run, Phases
  <2>3. /\ e \in Run /\ e.linked /\ e.phase = c.phase /\ e.opening = "settling"
        /\ e.conn = c.conn /\ e.kind = c.kind /\ e.closer = c.closer /\ e.buffer = c.buffer
    BY <1>1 DEF Good, Run
  <2>4. Good(d) /\ Evolves(c, d)
    BY <1>1, <2>1, <2>2 DEF Good, Evolves
  <2>5. Good(e) /\ Evolves(c, e)
    BY <1>1, <2>1, <2>3 DEF Good, Evolves
  <2>6. Update(r, d) \/ CloseRun(r, e, TRUE)
    BY <1>2 DEF OpenResumes
  <2> QED
    BY <1>1, <2>4, <2>5, <2>6, UpdateKept, CloseRunKept
<1>3. CASE ~OpenStillWanted(r)
  <2> DEFINE d == [c EXCEPT !.conn = CloseBegun(@), !.opening = Awaiting(r)]
  <2>1. ConnOK(c.conn)
    BY <1>1 DEF Good, ConnOK, Run
  <2>2. /\ ConnOK(CloseBegun(c.conn)) /\ Ending(CloseBegun(c.conn))
        /\ Gone(c.conn) => Gone(CloseBegun(c.conn))
        /\ CloseBegun(c.conn).transport = c.conn.transport
        /\ c.conn.socket = "none" /\ ~c.conn.transport => CloseBegun(c.conn).socket = "none"
    BY <2>1, CloseBegunOK
  <2>3. /\ Moved(c, d) /\ d.conn = CloseBegun(c.conn)
        /\ d.opening \in {"settling", "returned"}
    BY <1>1, <2>2 DEF Good, Run, Moved, Awaiting, ConnOK
  <2>4. Good(d) /\ Evolves(c, d)
    BY <1>1, <2>2, <2>3, MovedGood DEF Good, ConnOK
  <2>5. CloseRun(r, d, TRUE)
    BY <1>3 DEF OpenResumes
  <2> QED
    BY <1>1, <2>4, <2>5, CloseRunKept
<1> QED
  BY <1>2, <1>3

LEMMA ReadyKept ==
    ASSUME Inv, NEW r \in Runs, Ready(r) PROVE Inv' /\ Final
<1> DEFINE c == runs[r]
           d == [c EXCEPT !.phase = "attaching", !.readying = "attaching",
                          !.conn = AttachBegun(@)]
<1>1. Good(c) /\ c.closer = "none" /\ c.phase = "negotiating" /\ c.linked
  BY DEF Inv, Ready, Good
<1>2. ConnOK(AttachBegun(c.conn))
  BY <1>1, AttachBegunOK DEF Good, ConnOK, Run
<1>3. /\ d \in Run /\ d.linked /\ d.phase = "attaching" /\ d.opening = c.opening
      /\ d.conn = AttachBegun(c.conn) /\ d.kind = c.kind /\ d.closer = c.closer
      /\ d.buffer = c.buffer
  BY <1>1, <1>2 DEF Good, Run, Phases, ConnOK
<1>4. Good(d) /\ Evolves(c, d)
  BY <1>1, <1>2, <1>3 DEF Good, Evolves, ConnOK
<1>5. Update(r, d) /\ OthersSame
  BY DEF Ready, OthersSame
<1> QED
  BY <1>4, <1>5, UpdateKept

\* No run that is closed still has a handshake: it would not be Gone.
LEMMA HandshakeEndsKept ==
    ASSUME Inv, NEW r \in Runs, HandshakeEnds(r) PROVE Inv' /\ Final
<1> DEFINE c == runs[r]
<1>1. Good(c) /\ ConnOK(c.conn) /\ c.conn.socket = "handshaking" /\ OthersSame
  BY DEF Inv, HandshakeEnds, OthersSame, Good, ConnOK, Run
<1>2. c.linked /\ ~c.conn.transport /\ ~Ending(c.conn) /\ ~Gone(c.conn)
  BY <1>1 DEF Good, ConnOK, ConnInv, Ending, Gone
<1>3. PICK conn \in {HandshakeOpened(c.conn), HandshakeFailed(c.conn)} :
        Update(r, [c EXCEPT !.conn = conn])
  BY DEF HandshakeEnds
<1>4. ConnOK(conn)
  BY <1>1, <1>2, HandshakeOpenedOK, HandshakeFailedOK
<1>5. Good([c EXCEPT !.conn = conn]) /\ Evolves(c, [c EXCEPT !.conn = conn])
  BY <1>1, <1>2, <1>4, ConnMoved
<1> QED
  BY <1>1, <1>3, <1>5, UpdateKept

LEMMA AttachContinuesKept ==
    ASSUME Inv, NEW r \in Runs, AttachContinues(r) PROVE Inv' /\ Final
<1> DEFINE c == runs[r]
           conn == AttachSettled(c.conn)
           d == [c EXCEPT !.conn = conn]
<1>1. /\ Good(c) /\ ConnOK(c.conn)
      /\ c.conn.attach = "pending" /\ c.conn.socket \in {"open", "closed"}
  BY DEF Inv, AttachContinues, Good, ConnOK, Run
<1>2. c.linked /\ (Ending(c.conn) => Gone(c.conn))
  BY <1>1 DEF Good, ConnOK, ConnInv, Ending
<1>3. ConnOK(conn) /\ (Gone(c.conn) => Gone(conn))
  BY <1>1, AttachSettledOK
<1>4. Good(d) /\ Evolves(c, d)
  BY <1>1, <1>2, <1>3, ConnMoved DEF Ending
<1>5. d = [c EXCEPT !.conn = AttachSettled(@)]
  OBVIOUS
<1>6. Update(r, d) /\ OthersSame
  BY <1>5 DEF AttachContinues, OthersSame
<1> QED
  BY <1>4, <1>6, UpdateKept

\* An answer that nobody waits for any more still ends its connection.
LEMMA ReadyResumesKept ==
    ASSUME Inv, NEW r \in Runs, ReadyResumes(r) PROVE Inv' /\ Final
<1> DEFINE c == runs[r]
<1>1. /\ Good(c) /\ ConnOK(c.conn) /\ c.conn.transport /\ c.linked
      /\ c.readying = "attaching" /\ OthersSame
  BY DEF Inv, ReadyResumes, OthersSame, Good, ConnOK, ConnInv, Run
<1>2. CASE ~AttachStillWanted(r)
  <2> DEFINE d == [c EXCEPT !.conn = CloseBegun(@), !.readying = "late"]
  <2>1. /\ ConnOK(CloseBegun(c.conn)) /\ Ending(CloseBegun(c.conn))
        /\ Gone(c.conn) => Gone(CloseBegun(c.conn))
    BY <1>1, CloseBegunOK
  <2>2. Moved(c, d) /\ d.conn = CloseBegun(c.conn) /\ d.opening = c.opening
    BY <1>1, <2>1 DEF Good, Run, Moved, ConnOK
  <2>3. Good(d) /\ Evolves(c, d)
    BY <1>1, <2>1, <2>2, MovedGood DEF ConnOK
  <2>4. Update(r, d)
    BY <1>2 DEF ReadyResumes
  <2> QED
    BY <1>1, <2>3, <2>4, UpdateKept
<1>3. CASE AttachStillWanted(r) /\ (c.conn.socket # "open" \/ c.conn.closing)
  <2> DEFINE d == [c EXCEPT !.readying = "settling"]
  <2>1. Good(d) /\ Evolves(c, d)
    BY <1>1, ReadyingMoved
  <2>2. CloseRun(r, d, TRUE)
    BY <1>3 DEF ReadyResumes
  <2> QED
    BY <1>1, <2>1, <2>2, CloseRunKept
<1>4. CASE AttachStillWanted(r) /\ ~(c.conn.socket # "open" \/ c.conn.closing)
  <2> DEFINE e == ConnectedRun(c)
             d == [e EXCEPT !.readying = "settling"]
  <2>1. c.closer = "none" /\ run = r /\ <<>> \in Seq(EventClasses) /\ 0 \in 0..IdleLimit
        /\ c.phase = "attaching"
    BY <1>1, <1>4, LimitsAssumption DEF Good, AttachStillWanted
  <2>2. /\ e \in Run /\ e.linked /\ e.phase = "connected" /\ e.opening = c.opening
        /\ e.conn = c.conn /\ e.kind = c.kind /\ e.closer = "none" /\ e.buffer = <<>>
    BY <1>1, <2>1 DEF ConnectedRun, Good, Run, Phases
  <2>3. Good(e) /\ Evolves(c, e)
    BY <1>1, <2>1, <2>2, LimitsAssumption DEF Good, Evolves
  <2> HIDE DEF e
  <2>4. CASE BufferedFatal(c)
    <3>1. Good(d) /\ Evolves(e, d)
      BY <2>3, ReadyingMoved
    <3>2. Evolves(c, d)
      BY <2>1, <2>2, <2>3, <3>1 DEF Evolves
    <3>3. CloseRun(r, d, FALSE)
      BY <1>4, <2>4 DEF ReadyResumes, e
    <3> QED
      BY <1>1, <3>1, <3>2, <3>3, CloseRunKept
  <2>5. CASE ~BufferedFatal(c)
    <3>1. runs' = [runs EXCEPT ![r] = e] /\ status' = "connected"
      BY <1>4, <2>5 DEF ReadyResumes, e
    <3>2. OthersKept
      BY <1>1, <3>1 DEF OthersSame, OthersKept, Inv, TypeOK
    <3> QED
      BY <2>3, <3>1, <3>2, RecordKept
  <2> QED
    BY <2>4, <2>5
<1> QED
  BY <1>2, <1>3, <1>4

LEMMA AttachRejectedKept ==
    ASSUME Inv, NEW r \in Runs, AttachRejected(r) PROVE Inv' /\ Final
<1> DEFINE d == [runs[r] EXCEPT !.readying = Awaiting(r)]
<1>1. Good(d) /\ Evolves(runs[r], d)
  BY ReadyingMoved DEF Awaiting, Inv
<1>2. CloseRun(r, d, TRUE) /\ OthersSame
  BY DEF AttachRejected, OthersSame
<1> QED
  BY <1>1, <1>2, CloseRunKept

LEMMA LateCloseReturnsKept ==
    ASSUME Inv, NEW r \in Runs, LateCloseReturns(r) PROVE Inv' /\ Final
<1> DEFINE d == [runs[r] EXCEPT !.readying = Awaiting(r)]
<1>1. Good(d) /\ Evolves(runs[r], d)
  BY ReadyingMoved DEF Awaiting, Inv
<1>2. CloseRun(r, d, TRUE) /\ OthersSame
  BY DEF LateCloseReturns, OthersSame
<1> QED
  BY <1>1, <1>2, CloseRunKept

LEMMA HandlerReturnsKept ==
    ASSUME Inv, NEW r \in Runs, HandlerReturns(r) PROVE Inv' /\ Final
<1>1. Good(runs[r]) /\ OthersSame
  BY DEF Inv, HandlerReturns, OthersSame
<1>2. CASE Update(r, [runs[r] EXCEPT !.opening = "returned"])
  BY <1>1, <1>2, OpeningMoved, UpdateKept
<1>3. CASE Update(r, [runs[r] EXCEPT !.readying = "returned"])
  BY <1>1, <1>3, ReadyingMoved, UpdateKept
<1> QED
  BY <1>2, <1>3 DEF HandlerReturns
-----------------------------------------------------------------------------
(* The service, the timer and the browser *)

LEMMA ServiceClosesKept ==
    ASSUME Inv, NEW r \in Runs, ServiceCloses(r) PROVE Inv' /\ Final
<1> DEFINE c == runs[r]
<1>1. Good(c) /\ ConnOK(c.conn) /\ c.linked /\ OthersSame
  BY DEF Inv, ServiceCloses, OthersSame, Good, ConnOK, Run
<1>2. PICK report \in {"usage", "nousage"} :
        CloseRun(r, [c EXCEPT !.conn = ClosedReceived(@, report)], FALSE)
  BY DEF ServiceCloses
<1> DEFINE conn == ClosedReceived(c.conn, report)
           d == [c EXCEPT !.conn = conn]
<1>3. /\ ConnOK(conn) /\ (Gone(c.conn) => Gone(conn)) /\ (Ending(c.conn) => Ending(conn))
  BY <1>1, ClosedReceivedOK DEF Reports
<1>4. Good(d) /\ Evolves(c, d)
  BY <1>1, <1>3, ConnMoved
<1>5. CloseRun(r, d, FALSE)
  BY <1>2
<1> QED
  BY <1>1, <1>4, <1>5, CloseRunKept

LEMMA BufferEventKept ==
    ASSUME Inv, NEW r \in Runs, NEW class \in EventClasses, BufferEvent(r, class)
    PROVE  Inv' /\ Final
<1> DEFINE c == runs[r]
<1>1. Good(c) /\ Evolves(c, c) /\ OthersSame
  BY DEF Inv, BufferEvent, OthersSame, Evolves
<1>2. CASE BufferFull(c)
  <2>1. CloseRun(r, c, TRUE)
    BY <1>2 DEF BufferEvent
  <2> QED
    BY <1>1, <2>1, CloseRunKept
<1>3. CASE ~BufferFull(c)
  <2> DEFINE d == [c EXCEPT !.buffer = Append(@, class)]
  <2>1. /\ c.buffer \in Seq(EventClasses) /\ Len(c.buffer) < BufferLimit
        /\ Append(c.buffer, class) \in Seq(EventClasses)
        /\ Len(Append(c.buffer, class)) <= BufferLimit
    BY <1>1, <1>3, LimitsAssumption DEF Good, Run, BufferFull
  <2>2. Moved(c, d) /\ d.opening = c.opening /\ d.conn = c.conn
    BY <1>1, <2>1 DEF Good, Run, Moved
  <2>3. Good(d) /\ Evolves(c, d)
    BY <1>1, <2>2, MovedGood DEF Good
  <2>4. Update(r, d)
    BY <1>3 DEF BufferEvent
  <2> QED
    BY <1>1, <2>3, <2>4, UpdateKept
<1> QED
  BY <1>2, <1>3

\* Only the clocks and the work change.
LEMMA WorkMoved ==
    ASSUME NEW c, Good(c), NEW b \in BOOLEAN
    PROVE  LET d == [c EXCEPT !.idle = 0, !.busy = b] IN Good(d) /\ Evolves(c, d)
<1> DEFINE d == [c EXCEPT !.idle = 0, !.busy = b]
<1>1. 0 \in 0..IdleLimit
  BY LimitsAssumption
<1>2. Moved(c, d) /\ d.opening = c.opening /\ d.conn = c.conn
  BY <1>1 DEF Good, Run, Moved
<1> QED
  BY <1>2, MovedGood DEF Good

LEMMA HandleEventKept ==
    ASSUME Inv, NEW r \in Runs, NEW class \in EventClasses, HandleEvent(r, class)
    PROVE  Inv' /\ Final
<1> DEFINE c == runs[r]
<1>1. Good(c) /\ Evolves(c, c) /\ OthersSame
  BY DEF Inv, HandleEvent, OthersSame, Evolves
<1>2. CASE class = "fatal"
  <2>1. PICK lost \in BOOLEAN : CloseRun(r, c, lost)
    BY <1>2 DEF HandleEvent
  <2> QED
    BY <1>1, <2>1, CloseRunKept
<1>3. CASE class # "fatal"
  <2> DEFINE b == (class = "work")
             d == [c EXCEPT !.idle = 0, !.busy = b]
  <2>1. b \in BOOLEAN
    OBVIOUS
  <2>2. Good(d) /\ Evolves(c, d)
    BY <1>1, <2>1, WorkMoved
  <2>3. Update(r, d)
    BY <1>3 DEF HandleEvent
  <2> QED
    BY <1>1, <2>2, <2>3, UpdateKept
<1> QED
  BY <1>2, <1>3

LEMMA SocketLostKept ==
    ASSUME Inv, NEW r \in Runs, SocketLost(r) PROVE Inv' /\ Final
<1> DEFINE c == runs[r]
           conn == Lost(c.conn)
           d == [c EXCEPT !.conn = conn]
<1>1. Good(c) /\ ConnOK(c.conn) /\ c.linked /\ OthersSame
  BY DEF Inv, SocketLost, OthersSame, Good, ConnOK, Run
<1>2. ConnOK(conn) /\ Gone(conn)
  BY <1>1, LostOK DEF Gone
<1>3. Good(d) /\ Evolves(c, d)
  BY <1>1, <1>2, ConnMoved DEF Ending
<1>4. CASE ReportsLoss(c.conn)
  <2>1. CloseRun(r, d, TRUE)
    BY <1>4 DEF SocketLost
  <2> QED
    BY <1>1, <1>3, <2>1, CloseRunKept
<1>5. CASE ~ReportsLoss(c.conn)
  <2>1. Update(r, d)
    BY <1>5 DEF SocketLost
  <2> QED
    BY <1>1, <1>3, <2>1, UpdateKept
<1> QED
  BY <1>4, <1>5

LEMMA CloseTimesOutKept ==
    ASSUME Inv, NEW r \in Runs, CloseTimesOut(r) PROVE Inv' /\ Final
<1> DEFINE c == runs[r]
           conn == Terminated(c.conn)
           d == [c EXCEPT !.conn = conn]
<1>1. Good(c) /\ ConnOK(c.conn) /\ c.linked
  BY DEF Inv, CloseTimesOut, Good, ConnOK, ConnInv, Run
<1>2. ConnOK(conn) /\ Gone(conn)
  BY <1>1, TerminatedOK DEF Gone, ConnOK, ConnInv
<1>3. Good(d) /\ Evolves(c, d)
  BY <1>1, <1>2, ConnMoved DEF Ending
<1>4. Update(r, d) /\ OthersSame
  BY DEF CloseTimesOut, OthersSame
<1> QED
  BY <1>3, <1>4, UpdateKept

LEMMA ActivityKept ==
    ASSUME Inv, NEW r \in Runs, Activity(r) PROVE Inv' /\ Final
<1> DEFINE c == runs[r]
           b == c.busy \/ c.kind = "simulation"
           d == [c EXCEPT !.idle = 0, !.busy = b]
<1>1. Good(c) /\ b \in BOOLEAN
  BY DEF Inv, Good, Run
<1>2. Good(d) /\ Evolves(c, d)
  BY <1>1, WorkMoved
<1>3. Update(r, d) /\ OthersSame
  BY DEF Activity, OthersSame
<1> QED
  BY <1>2, <1>3, UpdateKept

LEMMA TimerTickKept ==
    ASSUME Inv, NEW r \in Runs, TimerTick(r) PROVE Inv' /\ Final
<1> DEFINE o == runs[r]
           t == [o EXCEPT !.idle = 0]
           c == IF o.phase = "connected" /\ o.busy THEN t ELSE o
<1>1. Good(o) /\ OthersSame
  BY DEF Inv, TimerTick, OthersSame
<1>2. Good(t) /\ Evolves(o, t)
  <2>1. 0 \in 0..IdleLimit
    BY LimitsAssumption
  <2>2. Moved(o, t) /\ t.opening = o.opening /\ t.conn = o.conn
    BY <1>1, <2>1 DEF Good, Run, Moved
  <2> QED
    BY <1>1, <2>2, MovedGood DEF Good
<1>3. Good(c) /\ Evolves(o, c)
  BY <1>1, <1>2 DEF Evolves
<1>4. IF TimeIsUp(c) THEN CloseRun(r, c, FALSE)
      ELSE \E busy \in {c.busy, FALSE} : Update(r, [c EXCEPT !.busy = busy])
  BY DEF TimerTick
<1> HIDE DEF c
<1>5. CASE TimeIsUp(c)
  BY <1>1, <1>3, <1>4, <1>5, CloseRunKept
<1>6. CASE ~TimeIsUp(c)
  <2>1. PICK busy \in {c.busy, FALSE} : Update(r, [c EXCEPT !.busy = busy])
    BY <1>4, <1>6
  <2> DEFINE d == [c EXCEPT !.busy = busy]
  <2>2. busy \in BOOLEAN
    BY <1>3 DEF Good, Run
  <2>3. Moved(c, d) /\ d.opening = c.opening /\ d.conn = c.conn
    BY <1>3, <2>2 DEF Good, Run, Moved
  <2>4. Good(d) /\ Evolves(c, d)
    BY <1>3, <2>3, MovedGood DEF Good
  <2>5. Evolves(o, d)
    BY <1>3, <2>4 DEF Evolves
  <2> QED
    BY <1>1, <2>1, <2>4, <2>5, UpdateKept
<1> QED
  BY <1>5, <1>6

LEMMA AdvanceClockKept ==
    ASSUME Inv, NEW r \in Runs, AdvanceClock(r) PROVE Inv' /\ Final
<1> DEFINE c == runs[r]
           age == IF c.age < SessionLimit THEN c.age + 1 ELSE c.age
           idle == IF c.idle < IdleLimit THEN c.idle + 1 ELSE c.idle
           d == [c EXCEPT !.age = age, !.idle = idle]
<1>1. Good(c)
  BY DEF Inv
<1>2. age \in 0..SessionLimit /\ idle \in 0..IdleLimit
  BY <1>1, LimitsAssumption DEF Good, Run
<1>3. Update(r, d) /\ OthersSame
  BY DEF AdvanceClock, OthersSame
<1> HIDE DEF age, idle
<1>4. Moved(c, d) /\ d.opening = c.opening /\ d.conn = c.conn
  BY <1>1, <1>2 DEF Good, Run, Moved
<1>5. Good(d) /\ Evolves(c, d)
  BY <1>1, <1>4, MovedGood DEF Good
<1> QED
  BY <1>3, <1>5, UpdateKept

LEMMA StopRequestedKept ==
    ASSUME Inv, NEW r \in Runs, StopRequested(r) PROVE Inv' /\ Final
<1>1. Good(runs[r]) /\ Evolves(runs[r], runs[r])
  BY DEF Inv, Evolves
<1>2. CloseRun(r, runs[r], FALSE) /\ OthersSame
  BY DEF StopRequested, OthersSame
<1> QED
  BY <1>1, <1>2, CloseRunKept
-----------------------------------------------------------------------------
(* The closer *)

LEMMA CloserRunsKept ==
    ASSUME Inv, NEW r \in Runs, CloserRuns(r) PROVE Inv' /\ Final
<1> DEFINE c == runs[r]
           a == c.aborted \/ AbortsCreation(c)
           conn == IF ~c.linked THEN c.conn
                   ELSE IF c.lost THEN DeferredTerminated(c.conn) ELSE CloseBegun(c.conn)
           d == [c EXCEPT !.closer = "waiting", !.aborted = a, !.conn = conn]
<1>1. Good(c) /\ ConnOK(c.conn) /\ c.closer = "scheduled" /\ c.phase = "closing"
  BY DEF Inv, CloserRuns, Good, ConnOK, Run
<1>2. ConnOK(conn) /\ Ending(conn) /\ (c.lost => Gone(conn))
      /\ (~c.linked => conn.socket = "none" /\ ~conn.transport)
  BY <1>1, DeferredTerminatedOK, CloseBegunOK DEF Good, Ending, Gone
<1>3. a \in BOOLEAN /\ (c.opening \in {"token", "fetch"} => a)
  BY <1>1 DEF Good, Run, AbortsCreation
<1>4. Update(r, d) /\ OthersSame
  BY DEF CloserRuns, OthersSame
<1> HIDE DEF a, conn
<1>5. /\ d \in Run /\ d.kind = c.kind /\ d.phase = "closing" /\ d.linked = c.linked
      /\ d.aborted = a /\ d.lost = c.lost /\ d.closer = "waiting" /\ d.opening = c.opening
      /\ d.conn = conn /\ d.buffer = c.buffer
  BY <1>1, <1>2, <1>3 DEF Good, Run, ConnOK
<1>6. Good(d) /\ Evolves(c, d)
  BY <1>1, <1>2, <1>3, <1>5 DEF Good, Evolves, ConnOK
<1> QED
  BY <1>4, <1>6, UpdateKept

\* The reservation is released only when the connection is gone.
LEMMA CloserFinishesKept ==
    ASSUME Inv, NEW r \in Runs, CloserFinishes(r) PROVE Inv' /\ Final
<1> DEFINE c == runs[r]
           f == IF c.kind = "live" THEN FinalUsage(c) ELSE c.final
           d == [c EXCEPT !.closer = "done", !.final = f]
<1>1. /\ Good(c) /\ ConnOK(c.conn) /\ c.closer = "waiting" /\ c.phase = "closing"
      /\ CloseResult(c) # "pending" /\ run = r /\ r # NoRun /\ c.kind # "none"
  BY DEF Inv, Reserved, CloserFinishes, Good, ConnOK, Run, Runs, NoRun
<1>2. Gone(c.conn)
  BY <1>1 DEF Good, ConnOK, ConnInv, Connection, CloseCalls, Ending, Gone, CloseResult,
              CloseOutcome
<1>3. f \in {"none", "confirmed", "unconfirmed"}
  BY <1>1 DEF FinalUsage, Good, Run
<1>4. /\ runs' = [runs EXCEPT ![r] = d] /\ run' = NoRun /\ closedRun' = r
      /\ status' \in {"error", "disconnected"}
      /\ UNCHANGED <<draining, idleSeen, watchers, shutdown>>
  BY <1>1 DEF CloserFinishes
<1> HIDE DEF f
<1>5. /\ d \in Run /\ d.kind = c.kind /\ d.phase = "closing" /\ d.linked = c.linked
      /\ d.aborted = c.aborted /\ d.lost = c.lost /\ d.closer = "done"
      /\ d.opening = c.opening /\ d.conn = c.conn /\ d.buffer = c.buffer
  BY <1>1, <1>3 DEF Good, Run
<1>6. Good(d)
  BY <1>1, <1>2, <1>5 DEF Good
<1> HIDE DEF d
<1>7. /\ runs \in [Runs -> Run] /\ runs'[r] = d
      /\ \A q \in Runs \ {r} : runs'[q] = runs[q]
  BY <1>4 DEF Inv, TypeOK
<1>8. TypeOK'
  BY <1>4, <1>5, <1>6, <1>7 DEF Inv, TypeOK, Good
<1>9. Reserved'
  BY <1>1, <1>4, <1>5, <1>7 DEF Inv, Reserved, Runs, NoRun
<1>10. Begun' = Begun
  BY <1>5, <1>7 DEF Begun
<1>11. \A q \in Runs : Good(runs'[q])
  BY <1>6, <1>7 DEF Inv
<1>12. Final
  BY <1>5, <1>7 DEF Final
<1> QED
  BY <1>4, <1>8, <1>9, <1>10, <1>11, <1>12 DEF Inv
-----------------------------------------------------------------------------
(* A new run, the watchers and the gate *)

LEMMA UnbegunGood == Good(Unbegun)
<1>1. /\ ConnOK(Created) /\ <<>> \in Seq(EventClasses)
      /\ 0 \in 0..SessionLimit /\ 0 \in 0..IdleLimit
  BY CreatedOK, LimitsAssumption
<1>2. Unbegun \in Run
  BY <1>1 DEF Unbegun, Run, Phases, ConnOK
<1> QED
  BY <1>2, CreatedOK, LimitsAssumption DEF Unbegun, Good, ConnOK

LEMMA BeginKept ==
    ASSUME Inv, NEW kind \in {"live", "simulation"}, NEW phase \in {"connecting", "connected"},
           Begin(kind, phase)
    PROVE  Inv' /\ Final
<1>1. PICK n \in 0..MaxRuns : Begun = 1..n
  BY DEF Inv
<1>2. Cardinality(Begun) = n
  BY <1>1, FS_Interval, RunsAssumption
<1> DEFINE r == n + 1
           o == IF kind = "live" THEN "token" ELSE "none"
           d == [Unbegun EXCEPT !.kind = kind, !.phase = phase, !.opening = o]
<1>3. /\ run = NoRun /\ ~draining /\ n < MaxRuns /\ run' = r
      /\ closedRun' = NoRun /\ status' = phase
      /\ UNCHANGED <<draining, idleSeen, watchers, shutdown>>
  BY <1>2 DEF Begin
<1>4. runs' = [runs EXCEPT ![r] = d]
  BY <1>2, Zenon DEF Begin
<1>5. o \in {"token", "none"} /\ (o = "token" => kind = "live")
  OBVIOUS
<1> HIDE DEF o
<1>6. r \in Runs /\ r \notin Begun /\ r # NoRun
  BY <1>1, <1>3, RunsAssumption DEF Runs, NoRun
<1>7. /\ d \in Run /\ d.kind = kind /\ d.phase = phase /\ d.linked = Unbegun.linked
      /\ d.closer = Unbegun.closer /\ d.opening = o
      /\ d.conn = Unbegun.conn /\ d.buffer = Unbegun.buffer
  BY <1>5, UnbegunGood DEF Good, Run, Phases
<1>8. Good(d) /\ d.closer = "none"
  BY <1>7, <1>5, UnbegunGood DEF Good, Unbegun
<1> HIDE DEF d, r
<1>9. /\ runs \in [Runs -> Run] /\ runs'[r] = d
      /\ \A q \in Runs \ {r} : runs'[q] = runs[q]
  BY <1>4, <1>6 DEF Inv, TypeOK
<1>10. TypeOK'
  BY <1>3, <1>4, <1>6, <1>7, <1>8, <1>9 DEF Inv, TypeOK, Good
<1>11. Reserved'
  BY <1>3, <1>6, <1>7, <1>8, <1>9 DEF Inv, Reserved, Runs, NoRun
<1>12. Begun' = 1..(n + 1) /\ n + 1 \in 0..MaxRuns
  <2>1. Begun' = Begun \cup {r}
    BY <1>6, <1>7, <1>9 DEF Begun
  <2> QED
    BY <1>1, <1>3, <2>1, RunsAssumption DEF r
<1>13. \A q \in Runs : Good(runs'[q])
  BY <1>8, <1>9 DEF Inv
<1>14. Final
  <2>1. Good(runs[r]) /\ runs[r].kind = "none"
    BY <1>6 DEF Inv, Begun
  <2> QED
    BY <1>9, <2>1 DEF Final, Good
<1> QED
  BY <1>3, <1>10, <1>11, <1>12, <1>13, <1>14 DEF Inv

LEMMA RunsSame ==
    ASSUME Inv, UNCHANGED <<runs, run, closedRun, status>>,
           idleSeen' \in BOOLEAN, draining' \in BOOLEAN, watchers' \in 0..MaxWatchers,
           shutdown' \in BOOLEAN, idleSeen' => draining' /\ run = NoRun
    PROVE  Inv' /\ Final
  BY DEF Inv, TypeOK, Reserved, Begun, Final

\* Closing whatever run there is, as WatcherLeaves and Shutdown do.
LEMMA CurrentClosed ==
    ASSUME Inv, run # NoRun, CloseRun(run, runs[run], FALSE),
           UNCHANGED <<run, closedRun, idleSeen>>,
           draining' \in BOOLEAN, draining => draining',
           watchers' \in 0..MaxWatchers, shutdown' \in BOOLEAN
    PROVE  Inv' /\ Final
<1>1. run \in Runs /\ Good(runs[run]) /\ Evolves(runs[run], runs[run])
  BY DEF Inv, TypeOK, Evolves
<1>2. status' = status \/ status' = "closing" => OthersKept
  BY DEF Inv, TypeOK, OthersKept
<1> QED
  BY <1>1, <1>2, ClosedRunKept

LEMMA WatcherLeavesKept == ASSUME Inv, WatcherLeaves PROVE Inv' /\ Final
<1>1. /\ UNCHANGED <<run, closedRun, draining, idleSeen, shutdown>>
      /\ watchers' \in 0..MaxWatchers /\ draining \in BOOLEAN /\ shutdown \in BOOLEAN
      /\ idleSeen \in BOOLEAN /\ (idleSeen => draining /\ run = NoRun)
  BY WatchersAssumption DEF Inv, TypeOK, WatcherLeaves
<1>2. CASE watchers = 1 /\ run # NoRun /\ ~shutdown
  <2>1. CloseRun(run, runs[run], FALSE)
    BY <1>2 DEF WatcherLeaves
  <2> QED
    BY <1>1, <1>2, <2>1, CurrentClosed
<1>3. CASE ~(watchers = 1 /\ run # NoRun /\ ~shutdown)
  <2>1. UNCHANGED <<runs, status>>
    BY <1>3 DEF WatcherLeaves
  <2> QED
    BY <1>1, <2>1, RunsSame
<1> QED
  BY <1>2, <1>3

LEMMA ShutdownKept == ASSUME Inv, Shutdown PROVE Inv' /\ Final
<1>1. /\ UNCHANGED <<run, closedRun, idleSeen, watchers>>
      /\ watchers' \in 0..MaxWatchers /\ draining' = TRUE /\ shutdown' = TRUE
      /\ idleSeen \in BOOLEAN /\ (idleSeen => run = NoRun)
  BY DEF Inv, TypeOK, Shutdown
<1>2. CASE run # NoRun
  <2>1. CloseRun(run, runs[run], FALSE)
    BY <1>2 DEF Shutdown
  <2> QED
    BY <1>1, <1>2, <2>1, CurrentClosed
<1>3. CASE run = NoRun
  <2>1. UNCHANGED <<runs, status>>
    BY <1>3 DEF Shutdown
  <2> QED
    BY <1>1, <2>1, RunsSame
<1> QED
  BY <1>2, <1>3

LEMMA GateKept ==
    ASSUME Inv, WatcherConnects \/ Drain \/ StatusRequest \/ Resume PROVE Inv' /\ Final
<1>1. /\ draining \in BOOLEAN /\ idleSeen \in BOOLEAN /\ shutdown \in BOOLEAN
      /\ watchers \in 0..MaxWatchers /\ (idleSeen => draining /\ run = NoRun)
  BY DEF Inv, TypeOK
<1>2. CASE WatcherConnects
  <2>1. watchers' \in 0..MaxWatchers
    BY <1>1, <1>2, WatchersAssumption DEF WatcherConnects
  <2> QED
    BY <1>1, <1>2, <2>1, RunsSame DEF WatcherConnects
<1>3. CASE Drain
  BY <1>1, <1>3, RunsSame DEF Drain
<1>4. CASE StatusRequest
  BY <1>1, <1>4, RunsSame DEF StatusRequest
<1>5. CASE Resume
  BY <1>1, <1>5, RunsSame DEF Resume
<1> QED
  BY <1>2, <1>3, <1>4, <1>5
-----------------------------------------------------------------------------
(* The theorems *)

LEMMA InitHolds == Init => Inv
<1> SUFFICES ASSUME Init PROVE Inv
  OBVIOUS
<1>1. TypeOK
  <2>1. Unbegun \in Run /\ Len(Unbegun.buffer) <= BufferLimit
    BY UnbegunGood DEF Good
  <2>2. runs \in [Runs -> Run] /\ \A r \in Runs : runs[r] = Unbegun
    BY <2>1 DEF Init
  <2>3. 0 \in 0..MaxWatchers
    BY WatchersAssumption
  <2> QED
    BY <2>1, <2>2, <2>3 DEF Init, TypeOK
<1>2. \A r \in Runs : Good(runs[r]) /\ runs[r].kind = "none"
  BY UnbegunGood DEF Init, Unbegun
<1>3. Begun = 1..0 /\ 0 \in 0..MaxRuns
  BY <1>2, RunsAssumption DEF Begun
<1> QED
  BY <1>1, <1>2, <1>3 DEF Init, Inv, Reserved

LEMMA RunStepKept ==
    ASSUME Inv, NEW r \in Runs, RunStep(r) PROVE Inv' /\ Final
<1>1. CASE OpeningStep(r)
  BY <1>1, OpenFailsKept, TokenArrivesKept, SessionCreatedKept, OpenResumesKept
  DEF OpeningStep
<1>2. CASE Ready(r) \/ HandlerReturns(r)
  BY <1>2, ReadyKept, HandlerReturnsKept
<1>3. CASE ReadyStep(r)
  BY <1>3, HandshakeEndsKept, AttachContinuesKept, ReadyResumesKept, AttachRejectedKept,
     LateCloseReturnsKept
  DEF ReadyStep
<1>4. CASE CloserStep(r)
  BY <1>4, CloserRunsKept, CloserFinishesKept DEF CloserStep
<1>5. CASE CloseTimesOut(r) \/ ServiceCloses(r) \/ SocketLost(r)
  BY <1>5, CloseTimesOutKept, ServiceClosesKept, SocketLostKept
<1>6. CASE \E class \in EventClasses : BufferEvent(r, class) \/ HandleEvent(r, class)
  BY <1>6, BufferEventKept, HandleEventKept
<1>7. CASE Activity(r) \/ TimerTick(r) \/ AdvanceClock(r) \/ StopRequested(r)
  BY <1>7, ActivityKept, TimerTickKept, AdvanceClockKept, StopRequestedKept
<1> QED
  BY <1>1, <1>2, <1>3, <1>4, <1>5, <1>6, <1>7 DEF RunStep

LEMMA StepKept == Inv /\ [Next]_vars => Inv' /\ (Final \/ UNCHANGED vars)
<1> SUFFICES ASSUME Inv, [Next]_vars PROVE Inv' /\ (Final \/ UNCHANGED vars)
  OBVIOUS
<1>1. CASE StartSimulation \/ StartLive
  BY <1>1, BeginKept DEF StartSimulation, StartLive
<1>2. CASE \E r \in Runs : RunStep(r)
  BY <1>2, RunStepKept
<1>3. CASE WatcherLeaves \/ Shutdown
  BY <1>3, WatcherLeavesKept, ShutdownKept
<1>4. CASE WatcherConnects \/ Drain \/ StatusRequest \/ Resume
  BY <1>4, GateKept
<1>5. CASE UNCHANGED vars
  BY <1>5 DEF vars, Inv, TypeOK, Reserved, Begun
<1> QED
  BY <1>1, <1>2, <1>3, <1>4, <1>5 DEF Next

\* Every record of every run stays within its type, and no buffer of early events
\* exceeds its limit.
THEOREM TypeCorrect == Spec => []TypeOK
<1>1. Inv => TypeOK
  BY DEF Inv
<1> QED
  BY <1>1, InitHolds, StepKept, PTL DEF Spec

\* No upstream socket outlives the reservation of its run, whichever handler was
\* awaiting what when the run was closed (app.ts closeRun, gateway.ts attach).
THEOREM NoOrphanCorrect == Spec => []NoOrphanSocket
<1>1. Inv => NoOrphanSocket
  BY DEF Inv, Reserved, NoOrphanSocket, Good, Gone
<1> QED
  BY <1>1, InitHolds, StepKept, PTL DEF Spec

\* An operator told that the drained server is idle can rely on it until the next
\* resume, also against a creation that was already awaiting the service.
THEOREM DrainCorrect == Spec => []DrainHolds
<1>1. Inv => DrainHolds
  BY DEF Inv, Reserved, DrainHolds, Good, Runs, NoRun
<1> QED
  BY <1>1, InitHolds, StepKept, PTL DEF Spec

\* Whoever calls closeRun first decides how the run closes, for good.
THEOREM ClosingCorrect == Spec => ClosingIsFinal
<1>1. Inv /\ [Next]_vars => [Final]_vars
  BY StepKept
<1>2. Spec => [][Final]_vars
  BY <1>1, InitHolds, StepKept, PTL DEF Spec
<1> QED
  BY <1>2 DEF ClosingIsFinal, Final

-----------------------------------------------------------------------------
(* What is told *)

(* The connection *)

\* A settled close says what had been reported, a waiting one is seen, and so is a
\* loss.
Told(c) ==
    /\ c.closeCall \in Outcomes => c.closeCall = Reported(c)
    /\ c.closeCall = "pending" => c.closing
    /\ c.disconnected => c.socket = "closed" /\ c.attach # "none"

\* Nothing has begun to end the connection.
Serving(c) ==
    c.transport /\ c.socket = "open" /\ ~c.closing /\ ~c.disconnected /\ c.closeCall = "none"

\* The operators that leave what was told, and what may not be attached any more.
Keeps(c, d) ==
    /\ Told(d)
    /\ d.transport = c.transport
    /\ c.aborted => d.aborted
    /\ c.closeCall # "none" => d.closeCall # "none"
    /\ c.closeCall \in Outcomes => d.closeCall = c.closeCall

LEMMA TerminatedKeeps ==
    ASSUME NEW c \in Connection, Told(c) PROVE Keeps(c, Terminated(c))
<1>1. /\ Terminated(c).report = c.report /\ Terminated(c).transport = c.transport
      /\ Terminated(c).aborted = c.aborted /\ Terminated(c).closeCall = Settled(c)
      /\ Terminated(c).socket = "closed" /\ Terminated(c).attach = c.attach
      /\ Terminated(c).disconnected = c.disconnected
  BY DEF Terminated, Connection
<1>2. Reported(Terminated(c)) = Reported(c)
  BY <1>1 DEF Reported
<1> QED
  BY <1>1, <1>2, SettledType DEF Told, Keeps, Settled, Outcomes

LEMMA HandshakeFailedKeeps ==
    ASSUME NEW c, ConnOK(c), Told(c), ~c.transport PROVE Keeps(c, HandshakeFailed(c))
<1> DEFINE t == Terminated(c)
<1>1. Keeps(c, t) /\ t \in Connection
  BY TerminatedKeeps, TerminatedOK DEF ConnOK, ConnInv
<1>2. HandshakeFailed(c) = [t EXCEPT !.attach = "failed"]
  BY DEF HandshakeFailed
<1> HIDE DEF t
<1>3. /\ HandshakeFailed(c).report = t.report /\ HandshakeFailed(c).transport = t.transport
      /\ HandshakeFailed(c).aborted = t.aborted /\ HandshakeFailed(c).closeCall = t.closeCall
      /\ HandshakeFailed(c).socket = t.socket /\ HandshakeFailed(c).closing = t.closing
      /\ HandshakeFailed(c).disconnected = t.disconnected
      /\ HandshakeFailed(c).attach = "failed"
  BY <1>1, <1>2 DEF Connection
<1> QED
  BY <1>1, <1>3 DEF Keeps, Told, Reported

LEMMA AbortedKeeps ==
    ASSUME NEW c, ConnOK(c), Told(c) PROVE Keeps(c, Aborted(c)) /\ Aborted(c).aborted
<1> DEFINE a == [c EXCEPT !.aborted = TRUE]
<1>1. /\ a \in Connection /\ a.aborted /\ a.transport = c.transport /\ a.socket = c.socket
      /\ a.attach = c.attach /\ a.closeCall = c.closeCall /\ a.report = c.report
      /\ a.closing = c.closing /\ a.disconnected = c.disconnected
  BY DEF ConnOK, Connection
<1>2. Aborted(c) = IF c.socket = "handshaking" THEN HandshakeFailed(a) ELSE a
  BY DEF Aborted
<1> HIDE DEF a
<1>3. ConnOK(a) /\ Told(a) /\ Keeps(c, a)
  BY <1>1 DEF ConnOK, ConnInv, Told, Reported, Keeps
<1>4. c.socket = "handshaking" => Keeps(a, HandshakeFailed(a))
  BY <1>1, <1>3, HandshakeFailedKeeps DEF ConnOK, ConnInv
<1> QED
  BY <1>1, <1>2, <1>3, <1>4 DEF Keeps

\* A close() has an answer to give, at once or later, or leaves an aborted attachment.
LEMMA CloseBegunKeeps ==
    ASSUME NEW c, ConnOK(c), Told(c)
    PROVE  /\ Keeps(c, CloseBegun(c))
           /\ IF c.transport THEN CloseBegun(c).closeCall # "none" ELSE CloseBegun(c).aborted
<1>1. CASE ~c.transport
  BY <1>1, AbortedKeeps DEF CloseBegun
<1>2. CASE c.transport /\ c.closeCall # "none"
  BY <1>2 DEF CloseBegun, Keeps
<1>3. CASE c.transport /\ c.closeCall = "none" /\ (c.report # "none" \/ c.socket # "open")
  <2> DEFINE d == [c EXCEPT !.closeCall = Reported(c)]
  <2>1. /\ d \in Connection /\ d.transport = c.transport /\ d.aborted = c.aborted
        /\ d.closeCall = Reported(c) /\ d.report = c.report /\ d.socket = c.socket
        /\ d.closing = c.closing /\ d.disconnected = c.disconnected /\ d.attach = c.attach
    BY SettledType DEF ConnOK, Connection, CloseCalls
  <2>2. CloseBegun(c) = Terminated(d)
    BY <1>3 DEF CloseBegun
  <2> HIDE DEF d
  <2>3. Told(d) /\ d.closeCall \in Outcomes
    BY <2>1, SettledType DEF ConnOK, Told, Reported, Outcomes
  <2>4. Keeps(d, CloseBegun(c))
    BY <2>1, <2>2, <2>3, TerminatedKeeps
  <2> QED
    BY <1>3, <2>1, <2>3, <2>4 DEF Keeps, Outcomes
<1>4. CASE c.transport /\ c.closeCall = "none" /\ ~(c.report # "none" \/ c.socket # "open")
  <2> DEFINE d == [c EXCEPT !.closing = TRUE, !.closeCall = "pending"]
  <2>1. /\ d.transport = c.transport /\ d.aborted = c.aborted /\ d.closeCall = "pending"
        /\ d.closing /\ d.socket = c.socket /\ d.disconnected = c.disconnected
        /\ d.attach = c.attach
    BY DEF ConnOK, Connection
  <2>2. CloseBegun(c) = d
    BY <1>4 DEF CloseBegun
  <2> HIDE DEF d
  <2> QED
    BY <1>4, <2>1, <2>2 DEF Keeps, Told, Outcomes
<1> QED
  BY <1>1, <1>2, <1>3, <1>4

LEMMA DeferredTerminatedKeeps ==
    ASSUME NEW c, ConnOK(c), Told(c)
    PROVE  Keeps(c, DeferredTerminated(c)) /\ DeferredTerminated(c).aborted
<1>1. Keeps(c, Aborted(c)) /\ Aborted(c).aborted /\ ConnOK(Aborted(c))
  BY AbortedKeeps, AbortedOK
<1>2. Keeps(Aborted(c), Terminated(Aborted(c)))
  BY <1>1, TerminatedKeeps DEF ConnOK, Keeps
<1> QED
  BY <1>1, <1>2 DEF DeferredTerminated, Keeps

\* What the service says reaches only a connection whose close is not settled.
LEMMA ClosedReceivedKeeps ==
    ASSUME NEW c, ConnOK(c), Told(c), c.socket = "open", NEW report \in Reports
    PROVE  Keeps(c, ClosedReceived(c, report))
<1> DEFINE d == [c EXCEPT !.report = report]
<1>1. /\ d \in Connection /\ d.socket = c.socket /\ d.closing = c.closing
      /\ d.transport = c.transport /\ d.aborted = c.aborted /\ d.closeCall = c.closeCall
      /\ d.disconnected = c.disconnected /\ d.attach = c.attach
  BY DEF ConnOK, Connection
<1>2. c.closeCall \notin Outcomes
  BY DEF ConnOK, ConnInv
<1>3. ClosedReceived(c, report) = IF c.closeCall = "pending" THEN Terminated(d) ELSE d
  BY DEF ClosedReceived
<1> HIDE DEF d
<1>4. Told(d) /\ Keeps(c, d)
  BY <1>1, <1>2 DEF Told, Keeps
<1>5. Keeps(d, Terminated(d))
  BY <1>1, <1>4, TerminatedKeeps
<1> QED
  BY <1>1, <1>2, <1>3, <1>4, <1>5 DEF Keeps

LEMMA LostKeeps ==
    ASSUME NEW c, ConnOK(c), Told(c) PROVE Keeps(c, Lost(c))
<1>1. /\ Lost(c).socket = "closed" /\ Lost(c).report = c.report
      /\ Lost(c).transport = c.transport /\ Lost(c).closeCall = Settled(c)
      /\ Lost(c).aborted = c.aborted /\ Lost(c).attach = c.attach
      /\ Lost(c).disconnected = (c.disconnected \/ ReportsLoss(c))
  BY DEF Lost, ConnOK, Connection
<1>2. Reported(Lost(c)) = Reported(c)
  BY <1>1 DEF Reported
<1>3. ReportsLoss(c) => c.attach # "none"
  BY DEF ReportsLoss, ConnOK, ConnInv
<1> QED
  BY <1>1, <1>2, <1>3, SettledType DEF ConnOK, Told, Keeps, Settled, Outcomes
-----------------------------------------------------------------------------
(* One run's record *)

\* Where the handlers are tells the phase; a live run that is connected is served;
\* the closer has closed the connection before the final usage is told.
Fine(c) ==
    /\ Told(c.conn)
    /\ c.opening \in {"token", "fetch", "resolved"} => c.phase \in {"connecting", "closing"}
    /\ c.readying \in {"attaching", "late"} => c.phase \in {"attaching", "closing"}
    /\ c.aborted => c.phase = "closing"
    /\ c.phase = "connected" /\ c.kind = "live" => Serving(c.conn) /\ c.buffer = <<>>
    /\ c.closer \in {"waiting", "done"} /\ c.linked =>
         IF c.conn.transport THEN c.lost \/ c.conn.closeCall # "none" ELSE c.conn.aborted
    /\ c.final # "none" => c.closer = "done"
    /\ c.final = "confirmed" => ~c.lost /\ c.conn.transport /\ c.conn.closeCall = "usage"
    /\ c.final = "unconfirmed" /\ ~c.lost =>
         c.conn.closeCall \in Outcomes \ {"usage"} \/ ~c.conn.transport

\* The first half of StatusTellsTheRun.
StatusOK == IF run = NoRun THEN status \in {"disconnected", "error"}
                           ELSE status = StageOf(runs[run].phase)

Shown == StatusOK /\ \A r \in Runs : Fine(runs[r])

\* The strengthening: beside Inv of SessionServerProofs, every record is fine.
IInv == Inv /\ Shown

LEMMA ClosingFine ==
    ASSUME NEW c \in Run, Fine(c), c.closer = "none", NEW lost \in BOOLEAN
    PROVE  Fine(Closing(c, lost)) /\ Closing(c, lost).phase = "closing"
<1> DEFINE d == Closing(c, lost)
<1>1. /\ d.phase = "closing" /\ d.closer = "scheduled" /\ d.conn = c.conn /\ d.final = c.final
  BY DEF Closing, Run
<1> QED
  BY <1>1 DEF Fine

LEMMA Installed ==
    ASSUME IInv, NEW r \in Runs, NEW rec, Fine(rec), runs' = [runs EXCEPT ![r] = rec],
           run' = run,
           IF run = r THEN status' = StageOf(rec.phase) ELSE status' = status
    PROVE  Shown'
<1>1. runs'[r] = rec /\ \A q \in Runs \ {r} : runs'[q] = runs[q]
  BY DEF IInv, Inv, TypeOK
<1>2. \A q \in Runs : Fine(runs'[q])
  BY <1>1 DEF IInv, Shown
<1>3. StatusOK'
  BY <1>1 DEF IInv, Shown, StatusOK, Inv, TypeOK, NoRun, Runs
<1> QED
  BY <1>2, <1>3 DEF Shown

LEMMA Updated ==
    ASSUME IInv, NEW r \in Runs, NEW rec, Fine(rec),
           StageOf(rec.phase) = StageOf(runs[r].phase), Update(r, rec), run' = run
    PROVE  Shown'
<1>1. IF run = r THEN status' = StageOf(rec.phase) ELSE status' = status
  BY DEF Update, IInv, Shown, StatusOK, NoRun, Runs
<1> QED
  BY <1>1, Installed DEF Update

LEMMA Ended ==
    ASSUME IInv, NEW r \in Runs, NEW rec \in Run, Fine(rec), NEW lost \in BOOLEAN,
           StageOf(rec.phase) = StageOf(runs[r].phase) \/ (run = r /\ rec.closer = "none"),
           CloseRun(r, rec, lost), run' = run
    PROVE  Shown'
<1>1. CASE run = r /\ rec.closer = "none"
  <2>1. Fine(Closing(rec, lost)) /\ Closing(rec, lost).phase = "closing"
    BY <1>1, ClosingFine
  <2>2. runs' = [runs EXCEPT ![r] = Closing(rec, lost)] /\ status' = "closing"
    BY <1>1 DEF CloseRun
  <2>3. StageOf(Closing(rec, lost).phase) = "closing"
    BY <2>1 DEF StageOf, Starting
  <2> QED
    BY <1>1, <2>1, <2>2, <2>3, Installed
<1>2. CASE ~(run = r /\ rec.closer = "none")
  BY <1>2, Updated DEF CloseRun, Update
<1> QED
  BY <1>1, <1>2

\* A step of the connection alone, not of one that serves.
LEMMA ConnFine ==
    ASSUME NEW c \in Run, Good(c), Fine(c), NEW conn \in Connection, Keeps(c.conn, conn),
           c.phase = "connected" /\ c.kind = "live" => Serving(conn)
    PROVE  LET d == [c EXCEPT !.conn = conn] IN
           d \in Run /\ Fine(d) /\ d.phase = c.phase /\ d.closer = c.closer
<1> DEFINE d == [c EXCEPT !.conn = conn]
<1>1. /\ d \in Run /\ d.conn = conn /\ d.opening = c.opening /\ d.readying = c.readying
      /\ d.phase = c.phase /\ d.aborted = c.aborted /\ d.kind = c.kind /\ d.buffer = c.buffer
      /\ d.closer = c.closer /\ d.linked = c.linked /\ d.lost = c.lost /\ d.final = c.final
  BY DEF Run
<1> HIDE DEF d
<1>2. c.final = "confirmed" => conn.closeCall = "usage"
  BY DEF Fine, Keeps, Outcomes
<1>3. c.conn.closeCall \in Outcomes => conn.closeCall = c.conn.closeCall
  BY DEF Keeps
<1>4. Fine(d)
  BY <1>1, <1>2, <1>3 DEF Fine, Keeps
<1> QED
  BY <1>1, <1>4 DEF d

\* The facts every proof about a run's step begins with.
LEMMA OfRun ==
    ASSUME IInv, NEW r \in Runs
    PROVE  /\ runs[r] \in Run /\ Good(runs[r]) /\ Fine(runs[r]) /\ ConnOK(runs[r].conn)
           /\ Told(runs[r].conn)
  BY DEF IInv, Inv, Shown, Good, ConnOK, Run, Fine
-----------------------------------------------------------------------------
(* The steps of the creation and readiness handlers *)

LEMMA OpeningShown == ASSUME IInv, NEW r \in Runs, OpeningStep(r) PROVE Shown'
<1> DEFINE c == runs[r]
<1>1. c \in Run /\ Good(c) /\ Fine(c) /\ ConnOK(c.conn) /\ Told(c.conn)
  BY OfRun
<1>2. CASE OpenFails(r)
  <2> DEFINE d == [c EXCEPT !.opening = Awaiting(r)]
  <2>1. /\ d \in Run /\ Fine(d) /\ d.phase = c.phase
    BY <1>1 DEF Run, Fine, Awaiting
  <2>2. CloseRun(r, d, TRUE) /\ run' = run
    BY <1>2 DEF OpenFails
  <2> QED
    BY <2>1, <2>2, Ended
<1>3. CASE TokenArrives(r)
  <2> DEFINE d == [c EXCEPT !.opening = "fetch"]
  <2>1. Fine(d) /\ d.phase = c.phase
    BY <1>1, <1>3 DEF Run, Fine, TokenArrives
  <2> QED
    BY <1>3, <2>1, Updated DEF TokenArrives
<1>4. CASE SessionCreated(r)
  <2> DEFINE d == [c EXCEPT !.opening = "resolved"]
  <2>1. Fine(d) /\ d.phase = c.phase
    BY <1>1, <1>4 DEF Run, Fine, SessionCreated
  <2> QED
    BY <1>4, <2>1, Updated DEF SessionCreated
<1>5. CASE OpenResumes(r) /\ OpenStillWanted(r)
  <2> DEFINE d == [c EXCEPT !.linked = TRUE, !.phase = "negotiating", !.opening = "returned"]
             e == [c EXCEPT !.linked = TRUE, !.opening = "settling"]
  <2>0. c.phase = "connecting" /\ c.closer = "none" /\ ~c.aborted
    BY <1>1, <1>5 DEF OpenStillWanted, Good
  <2>1. /\ d.conn = c.conn /\ d.opening = "returned" /\ d.readying = c.readying
        /\ d.phase = "negotiating" /\ d.aborted = c.aborted /\ d.closer = c.closer
        /\ d.final = c.final
    BY <1>1 DEF Run
  <2>2. Fine(d)
    BY <1>1, <2>0, <2>1 DEF Fine
  <2>3. StageOf(d.phase) = StageOf(c.phase)
    BY <2>0, <2>1 DEF StageOf, Starting
  <2>4. /\ e \in Run /\ e.conn = c.conn /\ e.opening = "settling" /\ e.readying = c.readying
        /\ e.phase = c.phase /\ e.aborted = c.aborted /\ e.closer = c.closer
        /\ e.final = c.final
    BY <1>1 DEF Run
  <2>5. Fine(e)
    BY <1>1, <2>0, <2>4 DEF Fine
  <2>6. (Update(r, d) \/ CloseRun(r, e, TRUE)) /\ run' = run
    BY <1>5 DEF OpenResumes
  <2> QED
    BY <2>2, <2>3, <2>4, <2>5, <2>6, Updated, Ended
<1>6. CASE OpenResumes(r) /\ ~OpenStillWanted(r)
  <2> DEFINE conn == CloseBegun(c.conn)
             o == Awaiting(r)
             d == [c EXCEPT !.conn = conn, !.opening = o]
  <2>1. Keeps(c.conn, conn) /\ conn \in Connection
    BY <1>1, CloseBegunKeeps, CloseBegunOK DEF ConnOK
  <2>2. o \in {"settling", "returned"} /\ c.phase # "connected"
    BY <1>1, <1>6 DEF Awaiting, OpenResumes, Fine
  <2>3. d = [c EXCEPT !.conn = CloseBegun(@), !.opening = Awaiting(r)]
    BY <1>1 DEF Run
  <2>4. CloseRun(r, d, TRUE) /\ run' = run
    BY <1>6, <2>3 DEF OpenResumes
  <2> HIDE DEF conn, o
  <2> DEFINE e == [c EXCEPT !.conn = conn]
  <2>5. e \in Run /\ Fine(e) /\ e.phase = c.phase
    BY <1>1, <2>1, <2>2, ConnFine
  <2>6. d = [e EXCEPT !.opening = o]
    BY <1>1 DEF Run
  <2> HIDE DEF d, e
  <2>7. d \in Run /\ Fine(d) /\ d.phase = e.phase
    BY <2>2, <2>5, <2>6 DEF Run, Fine
  <2> QED
    BY <2>4, <2>5, <2>7, Ended
<1> QED
  BY <1>2, <1>3, <1>4, <1>5, <1>6 DEF OpeningStep, OpenResumes

LEMMA ReadyShown == ASSUME IInv, NEW r \in Runs, Ready(r) PROVE Shown'
<1> DEFINE c == runs[r]
           conn == AttachBegun(c.conn)
           d == [c EXCEPT !.phase = "attaching", !.readying = "attaching", !.conn = conn]
<1>1. /\ c \in Run /\ Good(c) /\ Fine(c) /\ ConnOK(c.conn) /\ Told(c.conn)
      /\ c.phase = "negotiating" /\ c.linked
  BY OfRun DEF Ready
<1>2. /\ conn \in Connection /\ conn.closeCall = c.conn.closeCall /\ conn.report = c.conn.report
      /\ conn.closing = c.conn.closing /\ conn.disconnected = c.conn.disconnected
      /\ conn.socket = c.conn.socket \/ (conn.socket = "handshaking" /\ c.conn.attach = "none")
      /\ conn.attach # "none"
  BY <1>1 DEF AttachBegun, ConnOK, Connection, AttachStates, SocketStates
<1>3. d = [c EXCEPT !.phase = "attaching", !.readying = "attaching", !.conn = AttachBegun(@)]
  BY <1>1 DEF Run
<1>4. Update(r, d) /\ run' = run
  BY <1>3 DEF Ready
<1>5. Told(conn)
  BY <1>1, <1>2 DEF Told, Reported
<1> HIDE DEF conn
<1>6. /\ d.conn = conn /\ d.opening = c.opening /\ d.phase = "attaching"
      /\ d.aborted = c.aborted /\ d.closer = c.closer /\ d.final = c.final
  BY <1>1 DEF Run
<1>7. c.closer = "none"
  BY <1>1 DEF Good
<1>8. Fine(d)
  BY <1>1, <1>5, <1>6, <1>7 DEF Fine
<1>9. StageOf(d.phase) = StageOf(c.phase)
  BY <1>1, <1>6 DEF StageOf, Starting
<1> QED
  BY <1>4, <1>8, <1>9, Updated

\* A connected live run has its transport, and no attachment goes on.
LEMMA HandshakeShown ==
    ASSUME IInv, NEW r \in Runs, HandshakeEnds(r) \/ AttachContinues(r) PROVE Shown'
<1> DEFINE c == runs[r]
<1>1. c \in Run /\ Good(c) /\ Fine(c) /\ ConnOK(c.conn) /\ Told(c.conn) /\ run' = run
  BY OfRun DEF HandshakeEnds, AttachContinues
<1>2. CASE HandshakeEnds(r)
  <2>1. c.conn.socket = "handshaking" /\ ~c.conn.transport
    BY <1>1, <1>2 DEF HandshakeEnds, ConnOK, ConnInv
  <2>2. PICK conn \in {HandshakeOpened(c.conn), HandshakeFailed(c.conn)} :
          Update(r, [c EXCEPT !.conn = conn])
    BY <1>2 DEF HandshakeEnds
  <2>3. Keeps(c.conn, HandshakeFailed(c.conn)) /\ HandshakeFailed(c.conn) \in Connection
    BY <1>1, <2>1, HandshakeFailedKeeps, HandshakeFailedOK DEF ConnOK
  <2>4. /\ HandshakeOpened(c.conn) \in Connection
        /\ HandshakeOpened(c.conn).transport = c.conn.transport
        /\ HandshakeOpened(c.conn).aborted = c.conn.aborted
        /\ HandshakeOpened(c.conn).closeCall = c.conn.closeCall
        /\ HandshakeOpened(c.conn).report = c.conn.report
        /\ HandshakeOpened(c.conn).closing = c.conn.closing
        /\ HandshakeOpened(c.conn).disconnected = c.conn.disconnected
    BY <1>1 DEF HandshakeOpened, ConnOK, Connection, SocketStates
  <2>5. Keeps(c.conn, HandshakeOpened(c.conn))
    BY <1>1, <2>1, <2>4 DEF Keeps, Told, Reported
  <2>6. ~(c.phase = "connected" /\ c.kind = "live")
    BY <1>1, <2>1 DEF Fine, Serving
  <2>7. conn \in Connection /\ Keeps(c.conn, conn)
    BY <2>2, <2>3, <2>4, <2>5
  <2> DEFINE d == [c EXCEPT !.conn = conn]
  <2>8. Fine(d) /\ d.phase = c.phase
    BY <1>1, <2>6, <2>7, ConnFine
  <2> QED
    BY <1>1, <2>2, <2>8, Updated
<1>3. CASE AttachContinues(r)
  <2> DEFINE conn == AttachSettled(c.conn)
             d == [c EXCEPT !.conn = conn]
  <2>1. c.conn.attach = "pending" /\ c.conn.socket \in {"open", "closed"} /\ ~c.conn.transport
    BY <1>1, <1>3 DEF AttachContinues, ConnOK, ConnInv
  <2>2. ~(c.phase = "connected" /\ c.kind = "live") /\ c.linked
    BY <1>1, <2>1 DEF Fine, Serving, Good
  <2>3. d = [c EXCEPT !.conn = AttachSettled(@)]
    BY <1>1 DEF Run
  <2>4. Update(r, d)
    BY <1>3, <2>3 DEF AttachContinues
  <2>5. CASE c.conn.aborted
    <3>1. conn = HandshakeFailed(c.conn)
      BY <2>5 DEF AttachSettled, HandshakeFailed
    <3>2. Keeps(c.conn, conn) /\ conn \in Connection
      BY <1>1, <2>1, <3>1, HandshakeFailedKeeps, HandshakeFailedOK DEF ConnOK
    <3> HIDE DEF conn
    <3>3. Fine(d) /\ d.phase = c.phase
      BY <1>1, <2>2, <3>2, ConnFine
    <3> QED
      BY <1>1, <2>4, <3>3, Updated
  <2>6. CASE ~c.conn.aborted
    <3>1. /\ conn.closeCall = c.conn.closeCall /\ conn.report = c.conn.report
          /\ conn.socket = c.conn.socket /\ conn.closing = c.conn.closing
          /\ conn.disconnected = c.conn.disconnected /\ conn.attach = "done"
      BY <1>1, <2>6 DEF AttachSettled, ConnOK, Connection
    <3>2. Told(conn)
      BY <1>1, <3>1 DEF Told, Reported
    <3>3. c.closer \notin {"waiting", "done"} /\ c.final = "none"
      BY <1>1, <2>1, <2>2, <2>6 DEF Fine, Run
    <3> HIDE DEF conn
    <3>4. /\ d.conn = conn /\ d.opening = c.opening /\ d.readying = c.readying
          /\ d.phase = c.phase /\ d.aborted = c.aborted /\ d.kind = c.kind
          /\ d.closer = c.closer /\ d.final = c.final
      BY <1>1 DEF Run
    <3>5. Fine(d)
      BY <1>1, <2>2, <3>2, <3>3, <3>4 DEF Fine
    <3> QED
      BY <1>1, <2>4, <3>4, <3>5, Updated
  <2> QED
    BY <2>5, <2>6
<1> QED
  BY <1>2, <1>3

\* A handler whose answer nobody waits for finds its run closing.
LEMMA ReadyResumesShown == ASSUME IInv, NEW r \in Runs, ReadyResumes(r) PROVE Shown'
<1> DEFINE c == runs[r]
<1>1. /\ c \in Run /\ Good(c) /\ Fine(c) /\ ConnOK(c.conn) /\ Told(c.conn) /\ run' = run
      /\ c.readying = "attaching" /\ c.conn.attach = "done" /\ c.conn.transport
      /\ c.phase \in {"attaching", "closing"}
  BY OfRun DEF ReadyResumes, ConnOK, ConnInv, Fine
<1>2. CASE ~AttachStillWanted(r)
  <2> DEFINE conn == CloseBegun(c.conn)
             e == [c EXCEPT !.conn = conn]
             d == [c EXCEPT !.conn = conn, !.readying = "late"]
  <2>1. Keeps(c.conn, conn) /\ conn \in Connection
    BY <1>1, CloseBegunKeeps, CloseBegunOK DEF ConnOK
  <2>2. d = [c EXCEPT !.conn = CloseBegun(@), !.readying = "late"]
    BY <1>1 DEF Run
  <2>3. Update(r, d)
    BY <1>2, <2>2 DEF ReadyResumes
  <2> HIDE DEF conn
  <2>4. e \in Run /\ Fine(e) /\ e.phase = c.phase
    BY <1>1, <2>1, ConnFine
  <2>5. d = [e EXCEPT !.readying = "late"]
    BY <1>1 DEF Run
  <2> HIDE DEF d, e
  <2>6. Fine(d) /\ d.phase = c.phase
    BY <1>1, <2>4, <2>5 DEF Run, Fine
  <2> QED
    BY <1>1, <2>3, <2>6, Updated
<1>3. CASE AttachStillWanted(r) /\ (c.conn.socket # "open" \/ c.conn.closing)
  <2> DEFINE d == [c EXCEPT !.readying = "settling"]
  <2>1. d \in Run /\ Fine(d) /\ d.phase = c.phase
    BY <1>1 DEF Run, Fine
  <2>2. CloseRun(r, d, TRUE)
    BY <1>3 DEF ReadyResumes
  <2> QED
    BY <1>1, <2>1, <2>2, Ended
<1>4. CASE AttachStillWanted(r) /\ ~(c.conn.socket # "open" \/ c.conn.closing)
  <2> DEFINE e == ConnectedRun(c)
             d == [e EXCEPT !.readying = "settling"]
  <2>1. /\ c.closer = "none" /\ run = r /\ <<>> \in Seq(EventClasses) /\ 0 \in 0..IdleLimit
        /\ c.phase = "attaching" /\ ~c.aborted /\ c.opening \notin {"token", "fetch", "resolved"}
    BY <1>1, <1>4, LimitsAssumption DEF Good, AttachStillWanted, Fine
  <2>2. Serving(c.conn)
    BY <1>1, <1>4 DEF Serving, Told, ConnOK, ConnInv, Connection, CloseCalls
  <2>3. /\ e \in Run /\ e.phase = "connected" /\ e.opening = c.opening /\ e.conn = c.conn
        /\ e.kind = c.kind /\ e.closer = "none" /\ e.buffer = <<>> /\ e.aborted = c.aborted
        /\ e.readying = "returned" /\ e.final = c.final
    BY <1>1, <2>1 DEF ConnectedRun, Run, Phases
  <2>4. Fine(e)
    BY <1>1, <2>1, <2>2, <2>3 DEF Fine
  <2>5. BufferedFatal(c) => CloseRun(r, d, FALSE)
    BY <1>4 DEF ReadyResumes
  <2>6. ~BufferedFatal(c) => runs' = [runs EXCEPT ![r] = e] /\ status' = "connected"
    BY <1>4 DEF ReadyResumes
  <2> HIDE DEF e
  <2>7. d \in Run /\ Fine(d) /\ d.closer = "none"
    BY <2>3, <2>4 DEF Run, Fine
  <2>8. StageOf(e.phase) = "connected"
    BY <2>3 DEF StageOf, Starting
  <2>9. CASE BufferedFatal(c)
    BY <1>1, <2>1, <2>5, <2>7, <2>9, Ended
  <2>10. CASE ~BufferedFatal(c)
    BY <1>1, <2>1, <2>4, <2>6, <2>8, <2>10, Installed
  <2> QED
    BY <2>9, <2>10
<1> QED
  BY <1>2, <1>3, <1>4

LEMMA AnswersShown ==
    ASSUME IInv, NEW r \in Runs, AttachRejected(r) \/ LateCloseReturns(r) \/ HandlerReturns(r)
    PROVE  Shown'
<1> DEFINE c == runs[r]
           o == Awaiting(r)
           d == [c EXCEPT !.readying = o]
<1>1. c \in Run /\ Fine(c) /\ run' = run /\ o \in {"settling", "returned"}
  BY OfRun DEF AttachRejected, LateCloseReturns, HandlerReturns, Awaiting
<1>2. CASE AttachRejected(r) \/ LateCloseReturns(r)
  <2>1. CloseRun(r, d, TRUE)
    BY <1>2 DEF AttachRejected, LateCloseReturns
  <2> HIDE DEF o
  <2>2. d \in Run /\ Fine(d) /\ d.phase = c.phase
    BY <1>1 DEF Run, Fine
  <2> QED
    BY <1>1, <2>1, <2>2, Ended
<1>3. CASE HandlerReturns(r)
  <2> DEFINE f == [c EXCEPT !.opening = "returned"]
             g == [c EXCEPT !.readying = "returned"]
  <2>1. Fine(f) /\ f.phase = c.phase /\ Fine(g) /\ g.phase = c.phase
    BY <1>1 DEF Run, Fine
  <2>2. Update(r, f) \/ Update(r, g)
    BY <1>3 DEF HandlerReturns
  <2> QED
    BY <1>1, <2>1, <2>2, Updated
<1> QED
  BY <1>2, <1>3
-----------------------------------------------------------------------------
(* The service, the timer and the browser *)

LEMMA SocketShown ==
    ASSUME IInv, NEW r \in Runs, ServiceCloses(r) \/ SocketLost(r) \/ CloseTimesOut(r)
    PROVE  Shown'
<1> DEFINE c == runs[r]
<1>1. c \in Run /\ Good(c) /\ Fine(c) /\ ConnOK(c.conn) /\ Told(c.conn) /\ run' = run
  BY OfRun DEF ServiceCloses, SocketLost, CloseTimesOut
\* A live run that is connected is the current one, so that its loss closes it.
<1>2. c.phase = "connected" => c.closer = "none" /\ (c.kind # "none" => run = r)
  BY <1>1 DEF Good, IInv, Inv, Reserved
<1>3. CASE ServiceCloses(r)
  <2>1. c.conn.socket = "open"
    BY <1>3 DEF ServiceCloses
  <2>2. PICK report \in {"usage", "nousage"} :
          CloseRun(r, [c EXCEPT !.conn = ClosedReceived(@, report)], FALSE)
    BY <1>3 DEF ServiceCloses
  <2> DEFINE conn == ClosedReceived(c.conn, report)
             d == [c EXCEPT !.conn = conn]
  <2>3. Keeps(c.conn, conn) /\ conn \in Connection
    BY <1>1, <2>1, ClosedReceivedKeeps, ClosedReceivedOK DEF Reports, ConnOK
  <2>4. Serving(c.conn) => Serving(conn)
    BY <1>1 DEF Serving, ClosedReceived, ConnOK, Connection
  <2>5. CloseRun(r, d, FALSE)
    BY <2>2
  <2> HIDE DEF conn
  <2>6. d \in Run /\ Fine(d) /\ d.phase = c.phase
    BY <1>1, <2>3, <2>4, ConnFine DEF Fine
  <2> QED
    BY <1>1, <2>5, <2>6, Ended
<1>4. CASE SocketLost(r)
  <2> DEFINE conn == Lost(c.conn)
             d == [c EXCEPT !.conn = conn]
  <2>1. Keeps(c.conn, conn) /\ conn \in Connection /\ conn.socket = "closed"
    BY <1>1, LostKeeps, LostOK DEF ConnOK
  <2>2. IF ReportsLoss(c.conn) THEN CloseRun(r, [c EXCEPT !.conn = Lost(@)], TRUE)
        ELSE Update(r, [c EXCEPT !.conn = Lost(@)])
    BY <1>4 DEF SocketLost
  <2>3. d = [c EXCEPT !.conn = Lost(@)]
    BY <1>1 DEF Run
  <2>4. IF ReportsLoss(c.conn) THEN CloseRun(r, d, TRUE) ELSE Update(r, d)
    BY <2>2, <2>3
  <2>5. CASE c.phase = "connected" /\ c.kind = "live"
    <3>1. ReportsLoss(c.conn) /\ c.closer = "none" /\ run = r /\ c.final = "none"
      BY <1>1, <1>2, <2>5 DEF Fine, Serving, ReportsLoss, Run
    <3>2. CloseRun(r, d, TRUE)
      BY <2>4, <3>1
    <3> HIDE DEF conn
    <3>3. /\ d \in Run /\ d.conn = conn /\ d.phase = c.phase /\ d.closer = c.closer
          /\ d.final = c.final
      BY <1>1, <2>1 DEF Run
    <3> DEFINE e == Closing(d, TRUE)
    <3>4. /\ runs' = [runs EXCEPT ![r] = e] /\ status' = "closing"
      BY <3>1, <3>2, <3>3 DEF CloseRun
    <3>5. /\ e.conn = conn /\ e.phase = "closing" /\ e.closer = "scheduled"
          /\ e.final = c.final
      BY <3>3 DEF Closing, Run
    <3> HIDE DEF e
    <3>6. Fine(e)
      BY <2>1, <3>1, <3>5 DEF Fine, Keeps
    <3>7. StageOf(e.phase) = "closing"
      BY <3>5 DEF StageOf, Starting
    <3> QED
      BY <1>1, <3>1, <3>4, <3>6, <3>7, Installed
  <2>6. CASE ~(c.phase = "connected" /\ c.kind = "live")
    <3> HIDE DEF conn
    <3>1. d \in Run /\ Fine(d) /\ d.phase = c.phase
      BY <1>1, <2>1, <2>6, ConnFine
    <3> QED
      BY <1>1, <2>4, <3>1, Ended, Updated
  <2> QED
    BY <2>5, <2>6
<1>5. CASE CloseTimesOut(r)
  <2> DEFINE conn == Terminated(c.conn)
             d == [c EXCEPT !.conn = conn]
  <2>1. c.conn.closeCall = "pending"
    BY <1>5 DEF CloseTimesOut
  <2>2. Keeps(c.conn, conn) /\ conn \in Connection
    BY <1>1, <2>1, TerminatedKeeps, TerminatedOK DEF ConnOK, ConnInv
  <2>3. ~(c.phase = "connected" /\ c.kind = "live")
    BY <1>1, <2>1 DEF Fine, Serving
  <2>4. d = [c EXCEPT !.conn = Terminated(@)]
    BY <1>1 DEF Run
  <2>5. Update(r, d)
    BY <1>5, <2>4 DEF CloseTimesOut
  <2> HIDE DEF conn
  <2>6. Fine(d) /\ d.phase = c.phase
    BY <1>1, <2>2, <2>3, ConnFine
  <2> QED
    BY <1>1, <2>5, <2>6, Updated
<1> QED
  BY <1>3, <1>4, <1>5

\* Only the clocks, the work and what waits for the handler change.
Same(c, d) ==
    /\ d.conn = c.conn /\ d.opening = c.opening /\ d.readying = c.readying
    /\ d.phase = c.phase /\ d.aborted = c.aborted /\ d.kind = c.kind /\ d.closer = c.closer
    /\ d.linked = c.linked /\ d.lost = c.lost /\ d.final = c.final
    /\ c.phase = "connected" => d.buffer = c.buffer

LEMMA ClocksFine ==
    ASSUME NEW c, Fine(c), NEW d, Same(c, d) PROVE Fine(d)
  BY DEF Fine, Same

LEMMA EventShown ==
    ASSUME IInv, NEW r \in Runs, NEW class \in EventClasses,
           BufferEvent(r, class) \/ HandleEvent(r, class)
    PROVE  Shown'
<1> DEFINE c == runs[r]
<1>1. c \in Run /\ Good(c) /\ Fine(c) /\ run' = run
  BY OfRun DEF BufferEvent, HandleEvent
<1>2. CASE BufferEvent(r, class)
  <2> DEFINE d == [c EXCEPT !.buffer = Append(@, class)]
  <2>1. c.phase = "attaching" /\ c.buffer \in Seq(EventClasses)
    BY <1>1, <1>2 DEF BufferEvent, Run
  <2>2. Append(c.buffer, class) \in Seq(EventClasses)
    BY <2>1
  <2>3. d \in Run /\ Same(c, d)
    BY <1>1, <2>1, <2>2 DEF Run, Same
  <2>4. Fine(d) /\ d.phase = c.phase
    BY <1>1, <2>3, ClocksFine DEF Same
  <2>5. IF BufferFull(c) THEN CloseRun(r, c, TRUE) ELSE Update(r, d)
    BY <1>2 DEF BufferEvent
  <2> QED
    BY <1>1, <2>3, <2>4, <2>5, Ended, Updated
<1>3. CASE HandleEvent(r, class)
  <2> DEFINE b == (class = "work")
             d == [c EXCEPT !.idle = 0, !.busy = b]
  <2>0. 0 \in 0..IdleLimit /\ b \in BOOLEAN
    BY <1>1, LimitsAssumption DEF Run
  <2> HIDE DEF b
  <2>1. d \in Run /\ Same(c, d)
    BY <1>1, <2>0 DEF Run, Same
  <2>2. Fine(d) /\ d.phase = c.phase
    BY <1>1, <2>1, ClocksFine DEF Same
  <2>3. (\E lost \in BOOLEAN : CloseRun(r, c, lost)) \/ Update(r, d)
    BY <1>3 DEF HandleEvent, b
  <2> QED
    BY <1>1, <2>1, <2>2, <2>3, Ended, Updated
<1> QED
  BY <1>2, <1>3

LEMMA ClockShown ==
    ASSUME IInv, NEW r \in Runs,
           Activity(r) \/ TimerTick(r) \/ AdvanceClock(r) \/ StopRequested(r)
    PROVE  Shown'
<1> DEFINE c == runs[r]
<1>1. c \in Run /\ Good(c) /\ Fine(c) /\ run' = run
  BY OfRun DEF Activity, TimerTick, AdvanceClock, StopRequested
<1>2. CASE Activity(r)
  <2> DEFINE b == c.busy \/ c.kind = "simulation"
             d == [c EXCEPT !.idle = 0, !.busy = b]
  <2>0. 0 \in 0..IdleLimit /\ b \in BOOLEAN
    BY <1>1, LimitsAssumption DEF Run
  <2> HIDE DEF b
  <2>1. d \in Run /\ Same(c, d)
    BY <1>1, <2>0 DEF Run, Same
  <2>2. Fine(d) /\ d.phase = c.phase
    BY <1>1, <2>1, ClocksFine DEF Same
  <2>3. Update(r, d)
    BY <1>2 DEF Activity, b
  <2> QED
    BY <1>1, <2>1, <2>2, <2>3, Updated
<1>3. CASE TimerTick(r)
  <2> DEFINE t == [c EXCEPT !.idle = 0]
             e == IF c.phase = "connected" /\ c.busy THEN t ELSE c
  <2>0. 0 \in 0..IdleLimit
    BY LimitsAssumption
  <2>1. t \in Run /\ Same(c, t)
    BY <1>1, <2>0 DEF Run, Same
  <2>2. Fine(t) /\ t.phase = c.phase
    BY <1>1, <2>1, ClocksFine DEF Same
  <2>3. e \in Run /\ e.phase = c.phase /\ Fine(e)
    BY <1>1, <2>1, <2>2
  <2>4. IF TimeIsUp(e) THEN CloseRun(r, e, FALSE)
        ELSE \E busy \in {e.busy, FALSE} : Update(r, [e EXCEPT !.busy = busy])
    BY <1>3 DEF TimerTick
  <2> HIDE DEF e
  <2>5. CASE TimeIsUp(e)
    BY <1>1, <2>3, <2>4, <2>5, Ended
  <2>6. CASE ~TimeIsUp(e)
    <3>1. PICK busy \in {e.busy, FALSE} : Update(r, [e EXCEPT !.busy = busy])
      BY <2>4, <2>6
    <3> DEFINE d == [e EXCEPT !.busy = busy]
    <3>2. d \in Run /\ Same(e, d)
      BY <2>3 DEF Run, Same
    <3>3. Fine(d) /\ d.phase = e.phase
      BY <2>3, <3>2, ClocksFine DEF Same
    <3> QED
      BY <1>1, <2>3, <3>1, <3>2, <3>3, Updated
  <2> QED
    BY <2>5, <2>6
<1>4. CASE AdvanceClock(r)
  <2> DEFINE age == IF c.age < SessionLimit THEN c.age + 1 ELSE c.age
             idle == IF c.idle < IdleLimit THEN c.idle + 1 ELSE c.idle
             d == [c EXCEPT !.age = age, !.idle = idle]
  <2>1. age \in 0..SessionLimit /\ idle \in 0..IdleLimit
    BY <1>1, LimitsAssumption DEF Run
  <2>2. Update(r, d)
    BY <1>4 DEF AdvanceClock
  <2> HIDE DEF age, idle
  <2>3. d \in Run /\ Same(c, d)
    BY <1>1, <2>1 DEF Run, Same
  <2>4. Fine(d) /\ d.phase = c.phase
    BY <1>1, <2>3, ClocksFine DEF Same
  <2> QED
    BY <1>1, <2>2, <2>3, <2>4, Updated
<1>5. CASE StopRequested(r)
  BY <1>1, <1>5, Ended DEF StopRequested
<1> QED
  BY <1>2, <1>3, <1>4, <1>5
-----------------------------------------------------------------------------
(* The closer *)

LEMMA CloserRunsShown == ASSUME IInv, NEW r \in Runs, CloserRuns(r) PROVE Shown'
<1> DEFINE c == runs[r]
           a == c.aborted \/ AbortsCreation(c)
           conn == IF ~c.linked THEN c.conn
                   ELSE IF c.lost THEN DeferredTerminated(c.conn) ELSE CloseBegun(c.conn)
           d == [c EXCEPT !.closer = "waiting", !.aborted = a, !.conn = conn]
<1>1. /\ c \in Run /\ Good(c) /\ Fine(c) /\ ConnOK(c.conn) /\ Told(c.conn) /\ run' = run
      /\ c.closer = "scheduled" /\ c.phase = "closing" /\ c.final = "none"
  BY OfRun DEF CloserRuns, Good, Fine, Run
<1>2. /\ Told(conn)
      /\ c.linked => IF conn.transport THEN c.lost \/ conn.closeCall # "none" ELSE conn.aborted
  BY <1>1, DeferredTerminatedKeeps, CloseBegunKeeps DEF Keeps
<1>3. Update(r, d)
  BY DEF CloserRuns
<1> HIDE DEF a, conn
<1>4. /\ d.conn = conn /\ d.opening = c.opening /\ d.readying = c.readying
      /\ d.phase = "closing" /\ d.closer = "waiting" /\ d.linked = c.linked
      /\ d.lost = c.lost /\ d.final = "none"
  BY <1>1 DEF Run
<1>5. Fine(d)
  BY <1>1, <1>2, <1>4 DEF Fine
<1> QED
  BY <1>1, <1>3, <1>4, <1>5, Updated

\* What the closer was told when it stopped waiting is what it tells.
LEMMA CloserFinishesShown == ASSUME IInv, NEW r \in Runs, CloserFinishes(r) PROVE Shown'
<1> DEFINE c == runs[r]
           f == IF c.kind = "live" THEN FinalUsage(c) ELSE c.final
           d == [c EXCEPT !.closer = "done", !.final = f]
<1>1. /\ c \in Run /\ Good(c) /\ Fine(c) /\ ConnOK(c.conn) /\ c.closer = "waiting"
      /\ c.phase = "closing" /\ c.final = "none" /\ CloseResult(c) # "pending"
      /\ run = r /\ r # NoRun
  BY OfRun DEF CloserFinishes, Good, Fine, IInv, Inv, Reserved, Runs, NoRun, Run
<1>2. ~c.linked => ~c.conn.transport
  BY <1>1 DEF Good
<1>3. f = "confirmed" => ~c.lost /\ c.conn.transport /\ c.conn.closeCall = "usage"
  BY <1>1 DEF FinalUsage, CloseResult, CloseOutcome
<1>4. f = "unconfirmed" /\ ~c.lost =>
        c.conn.closeCall \in Outcomes \ {"usage"} \/ ~c.conn.transport
  BY <1>1, <1>2 DEF FinalUsage, CloseResult, CloseOutcome, Fine, ConnOK, Connection, CloseCalls,
                    Outcomes
<1>5. /\ runs' = [runs EXCEPT ![r] = d] /\ run' = NoRun /\ status' \in {"error", "disconnected"}
  BY <1>1 DEF CloserFinishes
<1> HIDE DEF f
<1>6. /\ d.conn = c.conn /\ d.opening = c.opening /\ d.readying = c.readying
      /\ d.phase = c.phase /\ d.aborted = c.aborted /\ d.kind = c.kind /\ d.closer = "done"
      /\ d.linked = c.linked /\ d.lost = c.lost /\ d.final = f
  BY <1>1 DEF Run
<1>7. Fine(d)
  BY <1>1, <1>3, <1>4, <1>6 DEF Fine
<1> HIDE DEF d
<1>8. runs'[r] = d /\ \A q \in Runs \ {r} : runs'[q] = runs[q]
  BY <1>5 DEF IInv, Inv, TypeOK
<1>9. \A q \in Runs : Fine(runs'[q])
  BY <1>7, <1>8 DEF IInv, Shown
<1> QED
  BY <1>5, <1>9 DEF Shown, StatusOK
-----------------------------------------------------------------------------
(* A new run, the watchers and the gate *)

LEMMA UnbegunFine == Fine(Unbegun) /\ Unbegun \in Run
<1>1. Told(Created)
  BY DEF Created, Told, Outcomes
<1> QED
  BY <1>1, UnbegunGood DEF Unbegun, Fine, Good

LEMMA BeginShown ==
    ASSUME IInv, NEW kind \in {"live", "simulation"}, NEW phase \in {"connecting", "connected"},
           kind = "live" => phase = "connecting", Begin(kind, phase)
    PROVE  Shown'
<1>1. PICK n \in 0..MaxRuns : Begun = 1..n
  BY DEF IInv, Inv
<1>2. Cardinality(Begun) = n
  BY <1>1, FS_Interval, RunsAssumption
<1> DEFINE r == n + 1
           o == IF kind = "live" THEN "token" ELSE "none"
           d == [Unbegun EXCEPT !.kind = kind, !.phase = phase, !.opening = o]
<1>3. n < MaxRuns /\ run' = r /\ status' = phase
  BY <1>2 DEF Begin
<1>4. runs' = [runs EXCEPT ![r] = d]
  BY <1>2, Zenon DEF Begin
<1>5. o \in {"token", "none"} /\ (o = "token" <=> kind = "live")
  OBVIOUS
<1> HIDE DEF o
<1>6. r \in Runs /\ r # NoRun
  BY <1>1, <1>3, RunsAssumption DEF Runs, NoRun
<1>7. /\ d.conn = Unbegun.conn /\ d.opening = o /\ d.readying = Unbegun.readying
      /\ d.phase = phase /\ d.aborted = Unbegun.aborted /\ d.kind = kind
      /\ d.closer = Unbegun.closer /\ d.final = Unbegun.final
  BY UnbegunFine DEF Run
<1>8. /\ Unbegun.readying = "none" /\ ~Unbegun.aborted /\ Unbegun.closer = "none"
      /\ Unbegun.final = "none" /\ Told(Unbegun.conn)
  BY UnbegunFine DEF Unbegun, Fine
<1>9. Fine(d)
  BY <1>5, <1>7, <1>8 DEF Fine
<1>10. StageOf(d.phase) = phase
  BY <1>7 DEF StageOf, Starting
<1> HIDE DEF d, r
<1>11. runs'[r] = d /\ \A q \in Runs \ {r} : runs'[q] = runs[q]
  BY <1>4, <1>6 DEF IInv, Inv, TypeOK
<1>12. \A q \in Runs : Fine(runs'[q])
  BY <1>9, <1>11 DEF IInv, Shown
<1> QED
  BY <1>3, <1>6, <1>10, <1>11, <1>12 DEF Shown, StatusOK

LEMMA WatchersShown == ASSUME IInv, WatcherLeaves \/ Shutdown PROVE Shown'
<1>1. run' = run /\ (run # NoRun => run \in Runs)
  BY DEF IInv, Inv, TypeOK, WatcherLeaves, Shutdown
<1>2. CASE run # NoRun /\ CloseRun(run, runs[run], FALSE)
  <2>1. run \in Runs /\ runs[run] \in Run /\ Fine(runs[run])
    BY <1>1, <1>2, OfRun
  <2> QED
    BY <1>1, <1>2, <2>1, Ended
<1>3. CASE UNCHANGED <<runs, status>>
  BY <1>1, <1>3 DEF IInv, Shown, StatusOK
<1> QED
  BY <1>2, <1>3 DEF WatcherLeaves, Shutdown
-----------------------------------------------------------------------------
(* The theorems *)

LEMMA ShownAtFirst == Init => Shown
  BY UnbegunFine DEF Init, Shown, StatusOK

LEMMA RunStepShown == ASSUME IInv, NEW r \in Runs, RunStep(r) PROVE Shown'
<1>1. CASE OpeningStep(r) \/ Ready(r)
  BY <1>1, OpeningShown, ReadyShown
<1>2. CASE ReadyStep(r) \/ HandlerReturns(r)
  BY <1>2, HandshakeShown, ReadyResumesShown, AnswersShown DEF ReadyStep
<1>3. CASE CloserStep(r)
  BY <1>3, CloserRunsShown, CloserFinishesShown DEF CloserStep
<1>4. CASE CloseTimesOut(r) \/ ServiceCloses(r) \/ SocketLost(r)
  BY <1>4, SocketShown
<1>5. CASE \E class \in EventClasses : BufferEvent(r, class) \/ HandleEvent(r, class)
  BY <1>5, EventShown
<1>6. CASE Activity(r) \/ TimerTick(r) \/ AdvanceClock(r) \/ StopRequested(r)
  BY <1>6, ClockShown
<1> QED
  BY <1>1, <1>2, <1>3, <1>4, <1>5, <1>6 DEF RunStep

LEMMA StepShown == IInv /\ [Next]_vars => Shown'
<1> SUFFICES ASSUME IInv, [Next]_vars PROVE Shown'
  OBVIOUS
<1>1. CASE StartSimulation \/ StartLive
  BY <1>1, BeginShown DEF StartSimulation, StartLive
<1>2. CASE \E r \in Runs : RunStep(r)
  BY <1>2, RunStepShown
<1>3. CASE WatcherLeaves \/ Shutdown
  BY <1>3, WatchersShown
<1>4. CASE WatcherConnects \/ Drain \/ StatusRequest \/ Resume \/ UNCHANGED vars
  <2>1. UNCHANGED <<runs, run, status>>
    BY <1>4 DEF WatcherConnects, Drain, StatusRequest, Resume, vars
  <2> QED
    BY <2>1 DEF IInv, Shown, StatusOK
<1> QED
  BY <1>1, <1>2, <1>3, <1>4 DEF Next

LEMMA Invariance == Spec => []IInv
<1>1. Init => IInv
  BY InitHolds, ShownAtFirst DEF IInv
<1>2. IInv /\ [Next]_vars => IInv'
  BY StepKept, StepShown DEF IInv
<1> QED
  BY <1>1, <1>2, PTL DEF Spec

\* Browsers are told the stage of the current run, whichever handler wrote the
\* status last, and a live run told as connected has its open sideband with every
\* early event handled (app.ts setTransport, closeRun and the readiness handler).
THEOREM StatusCorrect == Spec => []StatusTellsTheRun
<1>1. ASSUME IInv, NEW r \in Runs, runs[r].phase = "connected", runs[r].kind = "live"
      PROVE  run = r /\ Serving(runs[r].conn) /\ runs[r].buffer = <<>>
  <2>1. Good(runs[r]) /\ Fine(runs[r])
    BY <1>1, OfRun
  <2> QED
    BY <1>1, <2>1 DEF IInv, Inv, Reserved, Good, Fine
<1>2. IInv => StatusTellsTheRun
  BY <1>1 DEF StatusTellsTheRun, Serving, IInv, Shown, StatusOK
<1> QED
  BY <1>2, Invariance, PTL

\* Final usage is confirmed exactly when the service reported it on a sideband that
\* was attached and not given up (app.ts closeRun, gateway.ts close).
THEOREM FinalUsageCorrect == Spec => []FinalUsageIsTheReport
<1>1. ASSUME IInv, NEW r \in Runs
      PROVE  LET c == runs[r] IN
             /\ c.final = "confirmed" => c.conn.report = "usage" /\ ~c.lost
             /\ c.final = "unconfirmed" /\ c.conn.transport /\ ~c.lost
                  => c.conn.report # "usage"
  <2>1. Fine(runs[r])
    BY <1>1, OfRun
  <2> QED
    BY <2>1 DEF Fine, Told, Reported, Outcomes
<1>2. IInv => FinalUsageIsTheReport
  BY <1>1 DEF FinalUsageIsTheReport
<1> QED
  BY <1>2, Invariance, PTL
-----------------------------------------------------------------------------
(* The reservation *)

\* The stage of the reservation can be read off what browsers are told.
StageTold ==
    IF run = NoRun THEN "free"
    ELSE IF status = "connecting" THEN "starting"
    ELSE IF status = "connected" THEN "serving"
    ELSE "closing"

StageMapped ==
    IF run = NoRun THEN "free"
    ELSE IF runs[run].phase \in Starting THEN "starting"
    ELSE IF runs[run].phase = "connected" THEN "serving"
    ELSE "closing"

LEMMA StageIsTold == IInv => StageMapped = StageTold
<1> SUFFICES ASSUME IInv, run # NoRun PROVE StageMapped = StageTold
  BY DEF StageMapped, StageTold
<1>1. run \in Runs /\ runs[run].phase \in Phases
  BY DEF IInv, Inv, TypeOK, Run
<1>2. status = StageOf(runs[run].phase)
  BY DEF IInv, Shown, StatusOK
<1> QED
  BY <1>1, <1>2 DEF StageMapped, StageTold, StageOf, Starting, Phases

LEMMA StageIsToldNext == IInv' => StageMapped' = StageTold'
<1>1. CASE run' = NoRun
  BY <1>1 DEF StageMapped, StageTold
<1>2. CASE run' # NoRun /\ IInv'
  <2>1. run' \in Runs /\ (runs[run].phase)' \in Phases
    BY <1>2 DEF IInv, Inv, TypeOK, Run
  <2>2. status' = StageOf((runs[run].phase)')
    BY <1>2 DEF IInv, Shown, StatusOK
  <2> QED
    BY <1>2, <2>1, <2>2 DEF StageMapped, StageTold, StageOf, Starting, Phases
<1> QED
  BY <1>1, <1>2

\* A run's kind is set when it begins and never again.
KindsSame == \A r \in Runs : runs'[r].kind = runs[r].kind

LEMMA UpdateKinds ==
    ASSUME Inv, NEW r \in Runs, NEW rec, rec.kind = runs[r].kind, Update(r, rec)
    PROVE  KindsSame /\ status' = status
  BY DEF Inv, TypeOK, Update, KindsSame

LEMMA CloseRunKinds ==
    ASSUME Inv, NEW r \in Runs, NEW rec, rec.kind = runs[r].kind, NEW lost,
           DOMAIN rec = DOMAIN runs[r], CloseRun(r, rec, lost)
    PROVE  KindsSame /\ status' \in {status, "closing"}
<1>1. "kind" \in DOMAIN rec
  BY DEF Inv, TypeOK, Run
<1>2. Closing(rec, lost).kind = rec.kind
  BY <1>1 DEF Closing
<1> QED
  BY <1>2 DEF Inv, TypeOK, CloseRun, KindsSame

\* What a run's step may do to what is told, unless it releases the reservation.
Tells ==
    /\ KindsSame /\ run' = run /\ draining' = draining
    /\ status' \in {status, "closing"} \/ (status = "connecting" /\ status' = "connected")

\* The record the step leaves is the old one but for other fields.
LEMMA UpdateTells ==
    ASSUME IInv, NEW r \in Runs, NEW rec, rec.kind = runs[r].kind, Update(r, rec),
           UNCHANGED <<run, draining>>
    PROVE  Tells
  BY UpdateKinds DEF Tells, IInv

LEMMA CloseRunTells ==
    ASSUME IInv, NEW r \in Runs, NEW rec, rec.kind = runs[r].kind, NEW lost,
           DOMAIN rec = DOMAIN runs[r], CloseRun(r, rec, lost), UNCHANGED <<run, draining>>
    PROVE  Tells
  BY CloseRunKinds DEF Tells, IInv

LEMMA OpeningTells == ASSUME IInv, NEW r \in Runs, OpeningStep(r) PROVE Tells
<1> DEFINE c == runs[r]
<1>1. c \in Run /\ UNCHANGED <<run, draining>>
  BY OfRun DEF OpeningStep, OpenFails, TokenArrives, SessionCreated, OpenResumes
<1>2. CASE OpenFails(r)
  <2> DEFINE d == [c EXCEPT !.opening = Awaiting(r)]
  <2>1. d.kind = c.kind /\ DOMAIN d = DOMAIN c
    BY <1>1 DEF Run
  <2> QED
    BY <1>1, <1>2, <2>1, CloseRunTells DEF OpenFails
<1>3. CASE TokenArrives(r) \/ SessionCreated(r)
  <2>1. PICK o \in {"fetch", "resolved"} : Update(r, [c EXCEPT !.opening = o])
    BY <1>3 DEF TokenArrives, SessionCreated
  <2> DEFINE d == [c EXCEPT !.opening = o]
  <2>2. d.kind = c.kind
    BY <1>1 DEF Run
  <2> QED
    BY <1>1, <2>1, <2>2, UpdateTells
<1>4. CASE OpenResumes(r)
  <2> DEFINE d == [c EXCEPT !.linked = TRUE, !.phase = "negotiating", !.opening = "returned"]
             e == [c EXCEPT !.conn = CloseBegun(@), !.opening = Awaiting(r)]
             f == [c EXCEPT !.linked = TRUE, !.opening = "settling"]
  <2>1. /\ d.kind = c.kind /\ e.kind = c.kind /\ DOMAIN e = DOMAIN c
        /\ f.kind = c.kind /\ DOMAIN f = DOMAIN c
    BY <1>1 DEF Run
  <2>2. Update(r, d) \/ CloseRun(r, e, TRUE) \/ CloseRun(r, f, TRUE)
    BY <1>4 DEF OpenResumes
  <2> QED
    BY <1>1, <2>1, <2>2, UpdateTells, CloseRunTells
<1> QED
  BY <1>2, <1>3, <1>4 DEF OpeningStep

LEMMA ReadyTells ==
    ASSUME IInv, NEW r \in Runs,
           Ready(r) \/ HandshakeEnds(r) \/ AttachContinues(r) \/ CloseTimesOut(r) \/ CloserRuns(r)
    PROVE  Tells
<1> DEFINE c == runs[r]
<1>1. c \in Run /\ UNCHANGED <<run, draining>>
  BY OfRun DEF Ready, HandshakeEnds, AttachContinues, CloseTimesOut, CloserRuns
<1>2. CASE Ready(r)
  <2> DEFINE d == [c EXCEPT !.phase = "attaching", !.readying = "attaching",
                            !.conn = AttachBegun(@)]
  <2>1. d.kind = c.kind
    BY <1>1 DEF Run
  <2> QED
    BY <1>1, <1>2, <2>1, UpdateTells DEF Ready
<1>3. CASE HandshakeEnds(r) \/ AttachContinues(r) \/ CloseTimesOut(r)
  <2>1. PICK conn : Update(r, [c EXCEPT !.conn = conn])
    BY <1>3 DEF HandshakeEnds, AttachContinues, CloseTimesOut
  <2> DEFINE d == [c EXCEPT !.conn = conn]
  <2>2. d.kind = c.kind
    BY <1>1 DEF Run
  <2> QED
    BY <1>1, <2>1, <2>2, UpdateTells
<1>4. CASE CloserRuns(r)
  <2>1. PICK a, conn : Update(r, [c EXCEPT !.closer = "waiting", !.aborted = a, !.conn = conn])
    BY <1>4 DEF CloserRuns
  <2> DEFINE d == [c EXCEPT !.closer = "waiting", !.aborted = a, !.conn = conn]
  <2>2. d.kind = c.kind
    BY <1>1 DEF Run
  <2> QED
    BY <1>1, <2>1, <2>2, UpdateTells
<1> QED
  BY <1>2, <1>3, <1>4

\* A run is served only from the attaching phase, which browsers know as connecting.
LEMMA ReadyResumesTells == ASSUME IInv, NEW r \in Runs, ReadyResumes(r) PROVE Tells
<1> DEFINE c == runs[r]
           d == [c EXCEPT !.conn = CloseBegun(@), !.readying = "late"]
           e == [c EXCEPT !.readying = "settling"]
           f == ConnectedRun(c)
           g == [f EXCEPT !.readying = "settling"]
<1>1. c \in Run /\ UNCHANGED <<run, draining>>
  BY OfRun DEF ReadyResumes
<1>2. d.kind = c.kind /\ e.kind = c.kind /\ DOMAIN e = DOMAIN c
  BY <1>1 DEF Run
<1>3. f.kind = c.kind /\ DOMAIN f = DOMAIN c
  BY <1>1 DEF Run, ConnectedRun
<1>4. "kind" \in DOMAIN c
  BY <1>1 DEF Run
<1>5. \/ Update(r, d) \/ CloseRun(r, e, TRUE) \/ CloseRun(r, g, FALSE)
      \/ AttachStillWanted(r) /\ runs' = [runs EXCEPT ![r] = f] /\ status' = "connected"
  BY DEF ReadyResumes
<1> HIDE DEF f
<1>6. g.kind = c.kind /\ DOMAIN g = DOMAIN c
  BY <1>3, <1>4
<1> HIDE DEF c, d, e, g
<1>7. CASE Update(r, d) \/ CloseRun(r, e, TRUE) \/ CloseRun(r, g, FALSE)
  BY <1>1, <1>2, <1>6, <1>7, UpdateTells, CloseRunTells DEF c
<1>8. CASE AttachStillWanted(r) /\ runs' = [runs EXCEPT ![r] = f] /\ status' = "connected"
  <2>1. status = "connecting"
    BY <1>8 DEF AttachStillWanted, IInv, Shown, StatusOK, StageOf, Starting, Runs, NoRun
  <2>2. KindsSame
    BY <1>3, <1>8 DEF IInv, Inv, TypeOK, KindsSame, c
  <2> QED
    BY <1>1, <1>8, <2>1, <2>2 DEF Tells
<1> QED
  BY <1>5, <1>7, <1>8

LEMMA AnswersTell ==
    ASSUME IInv, NEW r \in Runs, AttachRejected(r) \/ LateCloseReturns(r) \/ HandlerReturns(r)
    PROVE  Tells
<1> DEFINE c == runs[r]
           d == [c EXCEPT !.readying = Awaiting(r)]
           e == [c EXCEPT !.opening = "returned"]
           f == [c EXCEPT !.readying = "returned"]
<1>1. c \in Run /\ UNCHANGED <<run, draining>>
  BY OfRun DEF AttachRejected, LateCloseReturns, HandlerReturns
<1>2. d.kind = c.kind /\ DOMAIN d = DOMAIN c /\ e.kind = c.kind /\ f.kind = c.kind
  BY <1>1 DEF Run
<1>3. CloseRun(r, d, TRUE) \/ Update(r, e) \/ Update(r, f)
  BY DEF AttachRejected, LateCloseReturns, HandlerReturns
<1> QED
  BY <1>1, <1>2, <1>3, UpdateTells, CloseRunTells

LEMMA ServiceTells ==
    ASSUME IInv, NEW r \in Runs, ServiceCloses(r) \/ SocketLost(r)
    PROVE  Tells
<1> DEFINE c == runs[r]
<1>1. c \in Run /\ UNCHANGED <<run, draining>>
  BY OfRun DEF ServiceCloses, SocketLost
<1>2. PICK conn : \/ \E lost \in BOOLEAN : CloseRun(r, [c EXCEPT !.conn = conn], lost)
                  \/ Update(r, [c EXCEPT !.conn = conn])
  BY DEF ServiceCloses, SocketLost
<1> DEFINE d == [c EXCEPT !.conn = conn]
<1>3. d.kind = c.kind /\ DOMAIN d = DOMAIN c
  BY <1>1 DEF Run
<1> QED
  BY <1>1, <1>2, <1>3, UpdateTells, CloseRunTells

LEMMA ClockTells ==
    ASSUME IInv, NEW r \in Runs,
           \/ \E class \in EventClasses : BufferEvent(r, class) \/ HandleEvent(r, class)
           \/ Activity(r) \/ TimerTick(r) \/ AdvanceClock(r) \/ StopRequested(r)
    PROVE  Tells
<1> DEFINE c == runs[r]
<1>1. c \in Run /\ UNCHANGED <<run, draining>>
  BY OfRun DEF BufferEvent, HandleEvent, Activity, TimerTick, AdvanceClock, StopRequested
<1>2. CASE \E class \in EventClasses : BufferEvent(r, class)
  <2>1. PICK class \in EventClasses : BufferEvent(r, class)
    BY <1>2
  <2> DEFINE d == [c EXCEPT !.buffer = Append(@, class)]
  <2>2. d.kind = c.kind
    BY <1>1 DEF Run
  <2> QED
    BY <1>1, <2>1, <2>2, UpdateTells, CloseRunTells DEF BufferEvent
<1>3. CASE \E class \in EventClasses : HandleEvent(r, class)
  <2>1. PICK class \in EventClasses : HandleEvent(r, class)
    BY <1>3
  <2> DEFINE d == [c EXCEPT !.idle = 0, !.busy = (class = "work")]
  <2>2. d.kind = c.kind
    BY <1>1 DEF Run
  <2> QED
    BY <1>1, <2>1, <2>2, UpdateTells, CloseRunTells DEF HandleEvent
<1>4. CASE Activity(r)
  <2> DEFINE d == [c EXCEPT !.idle = 0, !.busy = @ \/ c.kind = "simulation"]
  <2>1. d.kind = c.kind
    BY <1>1 DEF Run
  <2> QED
    BY <1>1, <1>4, <2>1, UpdateTells DEF Activity
<1>5. CASE TimerTick(r)
  <2> DEFINE t == [c EXCEPT !.idle = 0]
             e == IF c.phase = "connected" /\ c.busy THEN t ELSE c
  <2>1. t.kind = c.kind /\ DOMAIN t = DOMAIN c /\ "kind" \in DOMAIN c
    BY <1>1 DEF Run
  <2>2. e.kind = c.kind /\ DOMAIN e = DOMAIN c
    BY <2>1
  <2>3. CloseRun(r, e, FALSE) \/ \E busy \in {e.busy, FALSE} : Update(r, [e EXCEPT !.busy = busy])
    BY <1>5 DEF TimerTick
  <2> HIDE DEF e
  <2>4. CASE CloseRun(r, e, FALSE)
    BY <1>1, <2>2, <2>4, CloseRunTells
  <2>5. CASE \E busy \in {e.busy, FALSE} : Update(r, [e EXCEPT !.busy = busy])
    <3>1. PICK busy : Update(r, [e EXCEPT !.busy = busy])
      BY <2>5
    <3> DEFINE d == [e EXCEPT !.busy = busy]
    <3>2. d.kind = c.kind
      BY <2>1, <2>2
    <3> QED
      BY <1>1, <3>1, <3>2, UpdateTells
  <2> QED
    BY <2>3, <2>4, <2>5
<1>6. CASE AdvanceClock(r)
  <2>1. PICK age, idle : Update(r, [c EXCEPT !.age = age, !.idle = idle])
    BY <1>6 DEF AdvanceClock
  <2> DEFINE d == [c EXCEPT !.age = age, !.idle = idle]
  <2>2. d.kind = c.kind
    BY <1>1 DEF Run
  <2> QED
    BY <1>1, <2>1, <2>2, UpdateTells
<1>7. CASE StopRequested(r)
  BY <1>1, <1>7, CloseRunTells DEF StopRequested
<1> QED
  BY <1>2, <1>3, <1>4, <1>5, <1>6, <1>7

LEMMA RunStepTells == ASSUME IInv, NEW r \in Runs, RunStep(r) PROVE Tells \/ CloserFinishes(r)
  BY OpeningTells, ReadyTells, ReadyResumesTells, AnswersTell, ServiceTells, ClockTells
     DEF RunStep, ReadyStep, CloserStep

\* The four ways a step of the server maps to a step of the reservation.
LEMMA BeginReserves ==
    ASSUME IInv, NEW kind \in {"live", "simulation"}, NEW phase \in {"connecting", "connected"},
           Begin(kind, phase)
    PROVE  /\ run = NoRun /\ run' # NoRun /\ status' = phase /\ ~draining /\ ~draining'
           /\ Cardinality(Begun)' = Cardinality(Begun) + 1
<1>1. PICK n \in 0..MaxRuns : Begun = 1..n
  BY DEF IInv, Inv
<1>2. Cardinality(Begun) = n
  BY <1>1, FS_Interval, RunsAssumption
<1> DEFINE r == n + 1
           o == IF kind = "live" THEN "token" ELSE "none"
           d == [Unbegun EXCEPT !.kind = kind, !.phase = phase, !.opening = o]
<1>3. n < MaxRuns /\ run' = r /\ status' = phase /\ run = NoRun /\ draining' = draining /\ ~draining
  BY <1>2 DEF Begin
<1>4. runs' = [runs EXCEPT ![r] = d]
  BY <1>2, Zenon DEF Begin
<1>5. d.kind = kind
  BY DEF Unbegun
<1> HIDE DEF d
<1>6. r \in Runs /\ r # NoRun
  BY <1>3, RunsAssumption DEF Runs, NoRun
<1>7. runs'[r] = d /\ \A q \in Runs \ {r} : runs'[q] = runs[q]
  BY <1>4, <1>6 DEF IInv, Inv, TypeOK
<1>8. Begun' = 1..(n + 1)
  BY <1>1, <1>3, <1>5, <1>6, <1>7, RunsAssumption DEF Begun, Runs
<1>9. Cardinality(Begun') = n + 1
  BY <1>8, FS_Interval
<1> QED
  BY <1>2, <1>3, <1>6, <1>9

LEMMA FinishReleases ==
    ASSUME IInv, NEW r \in Runs, CloserFinishes(r)
    PROVE  /\ run # NoRun /\ run' = NoRun /\ status = "closing" /\ draining' = draining
           /\ KindsSame
<1> DEFINE c == runs[r]
           f == IF c.kind = "live" THEN FinalUsage(c) ELSE c.final
           d == [c EXCEPT !.closer = "done", !.final = f]
<1>1. c \in Run /\ c.closer = "waiting" /\ c.phase = "closing" /\ run = r /\ r # NoRun
  BY OfRun DEF CloserFinishes, Good, IInv, Inv, Reserved, Runs, NoRun
<1>2. runs' = [runs EXCEPT ![r] = d] /\ run' = NoRun /\ draining' = draining
  BY <1>1 DEF CloserFinishes
<1>3. d.kind = c.kind
  BY <1>1 DEF Run
<1> HIDE DEF d
<1>4. KindsSame
  BY <1>2, <1>3 DEF IInv, Inv, TypeOK, KindsSame
<1>5. status = "closing"
  BY <1>1 DEF IInv, Shown, StatusOK, StageOf, Starting
<1> QED
  BY <1>1, <1>2, <1>4, <1>5

\* A session ended by its watchers or by a shutdown, which ends admission with it.
LEMMA EndTells ==
    ASSUME IInv, WatcherLeaves \/ Shutdown
    PROVE  /\ KindsSame /\ run' = run /\ status' \in {status, "closing"}
           /\ draining' \in BOOLEAN /\ (draining' # draining => draining' = TRUE)
<1>1. run' = run /\ draining' \in {draining, TRUE} /\ draining \in BOOLEAN
  BY DEF WatcherLeaves, Shutdown, IInv, Inv, TypeOK
<1>2. KindsSame /\ status' \in {status, "closing"}
  <2>1. CASE run # NoRun /\ CloseRun(run, runs[run], FALSE)
    <3>1. run \in Runs
      BY <2>1 DEF IInv, Inv, TypeOK
    <3> QED
      BY <2>1, <3>1, CloseRunKinds DEF IInv
  <2>2. CASE UNCHANGED <<runs, status>>
    BY <2>2 DEF KindsSame
  <2> QED
    BY <2>1, <2>2 DEF WatcherLeaves, Shutdown
<1> QED
  BY <1>1, <1>2

LEMMA KindsCount == KindsSame => Cardinality(Begun)' = Cardinality(Begun)
<1>1. KindsSame => Begun' = Begun
  BY DEF KindsSame, Begun
<1> QED
  BY <1>1

LEMMA ReservationStep ==
    IInv /\ IInv' /\ [Next]_vars => [Reservation!Next]_(Reservation!reservationVars)
<1> SUFFICES ASSUME IInv, IInv', [Next]_vars
             PROVE  Reservation!Next \/ UNCHANGED Reservation!reservationVars
  OBVIOUS
<1> DEFINE stage == StageMapped
           admitted == Cardinality(Begun)
<1>1. stage = StageTold /\ stage' = StageTold'
  BY StageIsTold, StageIsToldNext
<1>2. /\ draining \in BOOLEAN /\ draining' \in BOOLEAN
      /\ run = NoRun <=> stage = "free"
  BY <1>1 DEF IInv, Inv, TypeOK, StageTold
<1>3. /\ Reservation!Reserve <=>
           /\ stage = "free" /\ ~draining /\ stage' \in {"starting", "serving"}
           /\ admitted' = admitted + 1 /\ (~draining)' = ~draining
      /\ Reservation!Serve <=>
           /\ stage = "starting" /\ stage' = "serving"
           /\ admitted' = admitted /\ (~draining)' = ~draining
      /\ Reservation!BeginClose <=>
           /\ stage \in {"starting", "serving"} /\ stage' = "closing"
           /\ admitted' = admitted /\ (~draining)' = ~draining
      /\ Reservation!Release <=>
           /\ stage = "closing" /\ stage' = "free"
           /\ admitted' = admitted /\ (~draining)' = ~draining
      /\ Reservation!SetAdmission <=>
           (~draining)' \in BOOLEAN /\ stage' = stage /\ admitted' = admitted
      /\ Reservation!ShutDown <=>
           /\ stage \in {"starting", "serving"} /\ stage' = "closing"
           /\ (~draining)' = FALSE /\ admitted' = admitted
      /\ UNCHANGED Reservation!reservationVars <=>
           stage' = stage /\ admitted' = admitted /\ (~draining)' = ~draining
  BY DEF Reservation!Reserve, Reservation!Serve, Reservation!BeginClose, Reservation!Release,
         Reservation!SetAdmission, Reservation!ShutDown, Reservation!reservationVars, StageMapped
<1>4. KindsSame => admitted' = admitted
  BY KindsCount
<1> HIDE DEF stage, admitted
<1>5. CASE StartSimulation \/ StartLive
  <2>1. PICK phase \in {"connecting", "connected"} :
          /\ run = NoRun /\ run' # NoRun /\ status' = phase /\ ~draining /\ ~draining'
          /\ admitted' = admitted + 1
    BY <1>5, BeginReserves DEF StartSimulation, StartLive, admitted
  <2>2. Reservation!Reserve
    BY <1>1, <1>2, <1>3, <2>1 DEF StageTold
  <2> QED
    BY <2>2 DEF Reservation!Next
<1>6. CASE \E r \in Runs : CloserFinishes(r)
  <2>1. /\ run # NoRun /\ run' = NoRun /\ status = "closing" /\ draining' = draining
        /\ admitted' = admitted
    BY <1>4, <1>6, FinishReleases
  <2>2. Reservation!Release
    BY <1>1, <1>3, <2>1 DEF StageTold
  <2> QED
    BY <2>2 DEF Reservation!Next
<1>7. CASE Tells
  <2>1. /\ admitted' = admitted /\ run' = run /\ draining' = draining
        /\ status' \in {status, "closing"} \/ (status = "connecting" /\ status' = "connected")
    BY <1>4, <1>7 DEF Tells
  <2>2. \/ stage' = stage
        \/ stage = "starting" /\ stage' = "serving"
        \/ stage \in {"starting", "serving"} /\ stage' = "closing"
    BY <1>1, <2>1 DEF StageTold
  <2>3. Reservation!Serve \/ Reservation!BeginClose \/ UNCHANGED Reservation!reservationVars
    BY <1>3, <2>1, <2>2
  <2> QED
    BY <2>3 DEF Reservation!Next
<1>8. CASE WatcherLeaves \/ Shutdown
  <2>1. /\ admitted' = admitted /\ run' = run /\ status' \in {status, "closing"}
        /\ (draining' # draining => draining' = TRUE)
    BY <1>4, <1>8, EndTells
  <2>2. stage' = stage \/ (stage \in {"starting", "serving"} /\ stage' = "closing")
    BY <1>1, <2>1 DEF StageTold
  <2>3. Reservation!SetAdmission \/ Reservation!BeginClose \/ Reservation!ShutDown
    BY <1>2, <1>3, <2>1, <2>2
  <2> QED
    BY <2>3 DEF Reservation!Next
<1>9. CASE WatcherConnects \/ Drain \/ StatusRequest \/ Resume \/ UNCHANGED vars
  <2>1. UNCHANGED <<runs, run, status>>
    BY <1>9 DEF WatcherConnects, Drain, StatusRequest, Resume, vars
  <2>2. admitted' = admitted /\ stage' = stage
    BY <1>1, <1>4, <2>1 DEF KindsSame, StageTold
  <2>3. Reservation!SetAdmission
    BY <1>2, <1>3, <2>2
  <2> QED
    BY <2>3 DEF Reservation!Next
<1> QED
  BY <1>5, <1>6, <1>7, <1>8, <1>9, RunStepTells DEF Next

\* The server's one session is reserved by one run at a time and only while admission
\* is open; a run is served at most once and never after it began to close; every
\* release follows a close (app.ts begin, the two handlers, closeRun and the gate).
THEOREM ReservationCorrect == Spec => Reservation!Safety
<1>1. Init => Reservation!Init
  <2> SUFFICES ASSUME Init PROVE Reservation!Init
    OBVIOUS
  <2>1. Begun = {} /\ run = NoRun /\ draining = FALSE
    BY DEF Init, Begun, Unbegun
  <2>2. Cardinality(Begun) = 0
    BY <2>1, FS_EmptySet
  <2> QED
    BY <2>1, <2>2 DEF Reservation!Init
<1> QED
  BY <1>1, ReservationStep, Invariance, PTL DEF Spec, Reservation!Safety
=============================================================================
