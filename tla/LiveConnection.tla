--------------------------- MODULE LiveConnection ---------------------------
(***************************************************************************)
(* One upstream session as apps/server/gateway.ts holds it: the deferred    *)
(* connection a creation request returns, and the sideband socket that      *)
(* attach() opens behind it.  JavaScript runs each method and each socket   *)
(* callback to its end, so each is one operator from the connection before  *)
(* it to the connection after it.                                           *)
(***************************************************************************)

AttachStates == {"none", "pending", "done", "failed"}    \* attachPromise
SocketStates == {"none", "handshaking", "open", "closed"}
\* What the service said when it closed the session, if it did (closeResult).
Reports == {"none", "usage", "nousage"}
\* What close() returned; "pending" while it waits for session.closed.
Outcomes == {"usage", "nousage", "unconfirmed"}
CloseCalls == {"none", "pending"} \cup Outcomes

Connection ==
    [attach: AttachStates,
     aborted: BOOLEAN,        \* the deferred connection's own controller
     socket: SocketStates,
     transport: BOOLEAN,      \* attach() has handed the socket over
     closing: BOOLEAN,
     disconnected: BOOLEAN,   \* the loss was reported
     report: Reports,
     closeCall: CloseCalls]

Created ==
    [attach |-> "none", aborted |-> FALSE, socket |-> "none", transport |-> FALSE,
     closing |-> FALSE, disconnected |-> FALSE, report |-> "none", closeCall |-> "none"]

\* closeResult ?? { confirmed: false }
Reported(c) == IF c.report = "none" THEN "unconfirmed" ELSE c.report

\* Mutated form: a close() is settled only by what the service reported.
SettledByReport(c) ==
    IF c.closeCall = "pending" /\ c.report # "none" THEN c.report ELSE c.closeCall

\* settleClose?.(...): only a close() that still waits is settled, once.
Settled(c) == IF c.closeCall = "pending" THEN Reported(c) ELSE c.closeCall

\* SidebandConnection.terminate, and the end of every close().
Terminated(c) ==
    [c EXCEPT !.closing = TRUE, !.socket = "closed", !.closeCall = Settled(c)]
-----------------------------------------------------------------------------
(* attach *)

AttachBegun(c) ==
    IF c.attach = "none" THEN [c EXCEPT !.attach = "pending", !.socket = "handshaking"]
    ELSE c

HandshakeOpened(c) == [c EXCEPT !.socket = "open"]

\* error, close, unexpected-response or the 15 s limit before the socket opened
HandshakeFailed(c) == [Terminated(c) EXCEPT !.attach = "failed"]

\* Mutated form: an abort that came after the socket opened is not looked at.
SettledUnchecked(c) == [c EXCEPT !.attach = "done", !.transport = TRUE]

\* The continuation of the factory: an abort that came too late for the handshake
\* is honoured here.
AttachSettled(c) ==
    IF c.aborted THEN [Terminated(c) EXCEPT !.attach = "failed"]
    ELSE [c EXCEPT !.attach = "done", !.transport = TRUE]
-----------------------------------------------------------------------------
(* close and terminate *)

\* controller.abort(): it fails a handshake, and nothing else yet.
Aborted(c) ==
    LET a == [c EXCEPT !.aborted = TRUE]
    IN IF c.socket = "handshaking" THEN HandshakeFailed(a) ELSE a

DeferredTerminated(c) == IF c.transport THEN Terminated(Aborted(c)) ELSE Aborted(c)

CloseBegun(c) ==
    IF ~c.transport THEN Aborted(c)
    ELSE IF c.closeCall # "none" THEN c
    ELSE IF c.report # "none" \/ c.socket # "open"
         THEN Terminated([c EXCEPT !.closeCall = Reported(c)])
    ELSE [c EXCEPT !.closing = TRUE, !.closeCall = "pending"]

\* What a caller of close() gets, or "pending".
CloseOutcome(c) == IF c.transport THEN c.closeCall ELSE "unconfirmed"
-----------------------------------------------------------------------------
(* Socket callbacks *)

\* A message that is session.closed, before the application sees it.
ClosedReceived(c, report) ==
    LET r == [c EXCEPT !.report = report]
    IN IF c.closeCall = "pending" THEN Terminated(r) ELSE r

ReportsLoss(c) == c.socket = "open" /\ ~c.closing /\ ~c.disconnected

\* The socket closed or failed, or sent what does not parse.
Lost(c) ==
    [c EXCEPT !.socket = "closed", !.closeCall = Settled(c),
              !.disconnected = @ \/ ReportsLoss(c)]
=============================================================================
