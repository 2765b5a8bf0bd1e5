--------------------------- MODULE AudioMeasurement ---------------------------
(***************************************************************************)
(* The audio measurement of a live session: the windows of PcmWindowMeter    *)
(* (apps/web/src/pcmWindow.ts) inside the audio worklet                     *)
(* (audioMeasurement.worklet.ts), the messages to and from the page, the    *)
(* monitor that records them (audioActivity.ts), and inspect of             *)
(* packages/experiments/pcm.ts, which decides over the record alone whether *)
(* a paid trial may count.                                                  *)
(*                                                                          *)
(* Times are frame numbers of the audio context.  The level of a chunk of   *)
(* frames is loud or not; a window is above the threshold when a chunk of it *)
(* was.  The two meters of the worklet are given the same frames: their      *)
(* clocks are one, their hysteresis is kept per direction.                   *)
(***************************************************************************)
EXTENDS Integers, Sequences, FiniteSets

CONSTANTS Rate,           \* frames per second, as the audio context has it
          Directions,
          ActiveWindows, SilentWindows,
          None,
          MaxWindows,     \* bound: windows measured
          MaxSwitches,    \* bound: calls of setActive
          MaxGaps,        \* bound: skipped render quanta
          MaxParts        \* bound: chunks that end inside a window

ASSUME MeasurementAssumption ==
    /\ Rate \in Nat /\ 8000 <= Rate /\ Rate <= 192000
    /\ Directions \subseteq {"input", "output"}
    /\ {ActiveWindows, SilentWindows} \subseteq Nat \ {0}
    /\ {MaxWindows, MaxSwitches, MaxGaps, MaxParts} \subseteq Nat
ASSUME NoneAssumption ==
    None \notin Nat \cup {"start", "stop", "measuring", "paused", "error", "closed"}

VARIABLES
    frame,      \* currentFrame of the worklet
    gate,       \* the worklet's enabled, generation and failed
    meter,      \* what the meters share, and their hysteresis per direction
    gates,      \* messages to the worklet
    port,       \* messages to the page
    monitor,    \* the page's side
    log,        \* what was recorded
    switches, gaps, parts

workletVars == <<frame, gate, meter>>
bounds == <<switches, gaps, parts>>
vars == <<workletVars, gates, port, monitor, log, bounds>>

Quiet == [d \in Directions |-> [above |-> 0, below |-> 0, candidate |-> 0, active |-> FALSE]]

Init ==
    /\ frame = 0
    /\ gate = [enabled |-> FALSE, generation |-> 0, failed |-> FALSE]
    /\ meter = [next |-> None, origin |-> 0, start |-> 0, index |-> 1, sequence |-> 0,
                loud |-> {}, level |-> Quiet]
    /\ gates = <<>> /\ port = <<>>
    /\ monitor = [active |-> FALSE, generation |-> 0, anchored |-> FALSE, failed |-> FALSE,
                  disposed |-> FALSE, request |-> "none"]
    /\ log = <<>>
    /\ switches = 0 /\ gaps = 0 /\ parts = 0

Smaller(a, b) == IF a < b THEN a ELSE b
Abs(x) == IF x < 0 THEN -x ELSE x
-----------------------------------------------------------------------------
(* The meter *)

\* Mutated form: the next window begins a whole rounded window after the last.
WindowEndDrifting(m) == m.start + (2 * Rate + 50) \div 100

\* Windows end at rounded multiples of 20 ms from the first frame.
WindowEnd(m) == m.origin + (2 * m.index * Rate + 50) \div 100

Reset(m) ==
    [m EXCEPT !.next = None, !.index = 1, !.loud = {},
              !.level = [d \in Directions |->
                            [Quiet[d] EXCEPT !.candidate = m.level[d].candidate]]]

Started(m) == IF m.next = None THEN [m EXCEPT !.origin = frame, !.start = frame] ELSE m

\* One finished window: streaks, candidate and activity of one direction.
Judge(h, above, start) ==
    LET a == IF above THEN Smaller(ActiveWindows, h.above + 1) ELSE 0
        b == IF above THEN 0 ELSE Smaller(SilentWindows, h.below + 1)
        starts == ~h.active /\ a = ActiveWindows
        stops == h.active /\ b = SilentWindows
    IN [above |-> a, below |-> b,
        candidate |-> IF (IF above THEN a ELSE b) = 1 THEN start ELSE h.candidate,
        active |-> (h.active \/ starts) /\ ~stops]

Transition(before, after) ==
    IF before.active = after.active THEN None ELSE IF after.active THEN "start" ELSE "stop"

Sample(d, before, after, start, end, sequence) ==
    [type |-> "sample", direction |-> d, sequence |-> sequence, from |-> start, to |-> end,
     above |-> after.above > 0, active |-> after.active,
     transition |-> Transition(before, after),
     since |-> IF before.active = after.active THEN None ELSE after.candidate]

\* The chunk of frames up to end: the new meter and the samples it emits.
Processed(m, end, loud) ==
    LET heard == m.loud \cup loud
        level == [d \in Directions |-> Judge(m.level[d], d \in heard, m.start)]
    IN IF end < WindowEnd(m)
       THEN [meter |-> [m EXCEPT !.loud = heard, !.next = end], samples |-> <<>>]
       ELSE [meter |-> [m EXCEPT !.loud = {}, !.next = end, !.start = end, !.index = @ + 1,
                                 !.sequence = @ + 1, !.level = level],
             samples |-> [d \in Directions |-> Sample(d, m.level[d], level[d], m.start, end,
                                                      m.sequence + 1)]]
-----------------------------------------------------------------------------
(* The worklet *)

\* port.onmessage of the worklet
Gate ==
    /\ gates # <<>>
    /\ gate' = [gate EXCEPT !.enabled = Head(gates).enabled, !.generation = Head(gates).generation]
    /\ gates' = Tail(gates)
    /\ meter' = Reset(meter)
    /\ UNCHANGED <<frame, port, monitor, log, bounds>>

Message(kind) == [kind |-> kind, generation |-> gate.generation]

\* A skipped quantum is missing evidence: the meters begin anew at this frame.
Resumed == IF meter.next \notin {None, frame} THEN Reset(meter) ELSE meter

\* process: the frames up to the end of the window, or some of them.
Process ==
    /\ gate.enabled /\ ~gate.failed /\ meter.sequence < MaxWindows
    /\ LET m == Started(Resumed)
           gap == IF meter.next \notin {None, frame} THEN <<Message("gap")>> ELSE <<>>
       IN \E part \in BOOLEAN, loud \in SUBSET Directions:
            LET end == IF part THEN frame + (WindowEnd(m) - frame) \div 2 ELSE WindowEnd(m)
                done == Processed(m, end, loud)
            IN /\ part => parts < MaxParts
               /\ parts' = IF part THEN parts + 1 ELSE parts
               /\ frame' = end
               /\ meter' = done.meter
               /\ port' = port \o gap \o
                     (IF part THEN <<>>
                      ELSE <<[kind |-> "samples", generation |-> gate.generation,
                              samples |-> done.samples]>>)
    /\ UNCHANGED <<gate, gates, monitor, log, switches, gaps>>

\* Frames pass that the worklet is not called for.
Skip ==
    /\ gaps < MaxGaps /\ gaps' = gaps + 1
    /\ frame' = frame + 128
    /\ UNCHANGED <<gate, meter, gates, port, monitor, log, switches, parts>>

\* The catch of process: a sample or a frame number that cannot be.
ProcessFails ==
    /\ gate.enabled /\ ~gate.failed /\ gaps < MaxGaps /\ gaps' = gaps + 1
    /\ gate' = [gate EXCEPT !.enabled = FALSE, !.failed = TRUE]
    /\ port' = Append(port, Message("failure"))
    /\ UNCHANGED <<frame, meter, gates, monitor, log, switches, parts>>
-----------------------------------------------------------------------------
(* The monitor *)

Anchor == [type |-> "anchor"]
Status(status) == [type |-> "status", status |-> status]

\* status(): nothing is recorded before the anchor.
StatusOf(m, status) == IF m.anchored THEN <<Status(status)>> ELSE <<>>

\* setActive, called by the page as the connection comes and goes.
SetActive ==
    /\ switches < MaxSwitches /\ switches' = switches + 1
    /\ ~monitor.disposed /\ ~monitor.failed
    /\ LET on == ~monitor.active
           m == [monitor EXCEPT !.active = on, !.anchored = @ \/ on, !.generation = @ + 1,
                                !.request = IF ~on /\ @ = "sent" THEN "aborted" ELSE @]
       IN /\ monitor' = m
          /\ log' = log \o (IF on /\ ~monitor.anchored THEN <<Anchor>> ELSE <<>>)
                        \o StatusOf(m, IF on THEN "measuring" ELSE "paused")
          /\ gates' = Append(gates, [enabled |-> on, generation |-> m.generation])
    /\ UNCHANGED <<workletVars, port, gaps, parts>>

Abandoned(request) == IF request = "sent" THEN "aborted" ELSE request

Failed(m) == [m EXCEPT !.failed = TRUE, !.active = FALSE, !.request = Abandoned(@)]

\* Mutated form: samples of an earlier generation are recorded too.
AcceptsAny(message) == monitor.active

Accepts(message) == monitor.active /\ message.generation = monitor.generation

\* The samples of one message, in the order of the meters.
SampleOf(d, samples) == IF d \in Directions THEN <<samples[d]>> ELSE <<>>
Flat(samples) == SampleOf("input", samples) \o SampleOf("output", samples)

\* receive
Receive ==
    /\ port # <<>> /\ port' = Tail(port)
    /\ LET message == Head(port) IN
       IF monitor.disposed \/ monitor.failed THEN UNCHANGED <<monitor, log>>
       ELSE IF message.kind = "failure"
       THEN monitor' = Failed(monitor) /\ log' = log \o StatusOf(monitor, "error")
       ELSE IF ~Accepts(message) THEN UNCHANGED <<monitor, log>>
       ELSE IF message.kind = "gap"
       THEN log' = log \o <<Status("paused"), Status("measuring")>> /\ UNCHANGED monitor
       ELSE /\ log' = log \o Flat(message.samples)
            /\ \/ UNCHANGED monitor
               \/ \* loud and long enough since the last: the server is told
                  /\ monitor.request = "none"
                  /\ \E d \in Directions: message.samples[d].active /\ message.samples[d].above
                  /\ monitor' = [monitor EXCEPT !.request = "sent"]
    /\ UNCHANGED <<workletVars, gates, bounds>>

\* The notification ends; a failure of one that was not aborted ends the session.
Notified ==
    /\ monitor.request # "none"
    /\ \/ monitor' = [monitor EXCEPT !.request = "none"] /\ UNCHANGED log
       \/ /\ monitor.request = "sent" /\ ~monitor.disposed /\ ~monitor.failed
          /\ monitor' = [Failed(monitor) EXCEPT !.request = "none"]
          /\ log' = log \o StatusOf(monitor, "error")
    /\ UNCHANGED <<workletVars, gates, port, bounds>>

\* dispose: the port is closed, nothing on it is read any more.
Dispose ==
    /\ ~monitor.disposed
    /\ monitor' = [monitor EXCEPT !.disposed = TRUE, !.active = FALSE, !.request = Abandoned(@)]
    /\ log' = log \o StatusOf(monitor, "closed")
    /\ port' = <<>> /\ gates' = <<>>
    /\ gate' = [gate EXCEPT !.enabled = FALSE, !.failed = TRUE]
    /\ UNCHANGED <<frame, meter, bounds>>

Next == Gate \/ Process \/ Skip \/ ProcessFails \/ SetActive \/ Receive \/ Notified \/ Dispose

Spec == Init /\ [][Next]_vars
-----------------------------------------------------------------------------
(* inspect: the record alone, read once from its beginning *)

\* 0.00013 seconds, in frames.
Near(frames) == Abs(frames) * 100000 <= 13 * Rate

Unread ==
    [status |-> None, segment |-> 0, refused |-> FALSE, gap |-> FALSE,
     sequence |-> [d \in Directions |-> 0], to |-> [d \in Directions |-> None],
     in |-> [d \in Directions |-> 0], level |-> Quiet, void |-> [d \in Directions |-> FALSE]]

\* The streaks of the reader after a sample, anew in a segment of its own.
Expected(r, s) ==
    LET h == IF r.in[s.direction] = r.segment THEN r.level[s.direction]
             ELSE Quiet[s.direction]
    IN [before |-> h, after |-> Judge(h, s.above, s.from)]

\* Windows are missing without having been announced: the rest of the segment is
\* not certified.
Voided(r, s) ==
    LET d == s.direction
        follows == s.sequence = r.sequence[d] + 1
        abuts == r.to[d] = None \/ Near(s.from - r.to[d])
    IN (r.in[d] = r.segment /\ r.void[d]) \/ ~follows \/ (~abuts /\ r.in[d] = r.segment)

Length(s) == IF s.transition = "start" THEN ActiveWindows ELSE SilentWindows

BadTransition(r, s) ==
    LET e == Expected(r, s) IN
    \/ s.since # None /\ ~Near((s.to - s.since) - (s.to - s.from) * Length(s))
    \/ /\ ~Voided(r, s)
       /\ \/ s.active # e.after.active
          \/ s.transition # Transition(e.before, e.after)
          \/ s.transition # None /\ (s.since = None \/ ~Near(s.since - e.after.candidate))

ReadSample(r, s) ==
    LET d == s.direction IN
    [r EXCEPT !.refused = \/ @ \/ r.status # "measuring"
                          \/ s.sequence <= r.sequence[d]
                          \/ r.to[d] # None /\ s.from < r.to[d]
                          \/ BadTransition(r, s),
              !.gap = @ \/ s.sequence # r.sequence[d] + 1 \/ (r.to[d] # None /\ ~Near(s.from - r.to[d])),
              !.sequence[d] = s.sequence, !.to[d] = s.to, !.in[d] = r.segment,
              !.level[d] = Expected(r, s).after, !.void[d] = Voided(r, s)]

ReadStatus(r, e) ==
    [r EXCEPT !.refused = @ \/ e.status = "error"
                            \/ (e.status = "measuring" /\ r.status \in {"closed", "error"}),
              !.gap = @ \/ e.status # "measuring",
              !.status = e.status,
              !.segment = IF e.status = "measuring" THEN @ + 1 ELSE @]

\* The clock anchors of the events (clock_ambiguous) are left out: time is frames here.
Read(r, e, first) ==
    CASE e.type = "anchor" -> [r EXCEPT !.refused = @ \/ ~first]
      [] e.type = "status" -> [ReadStatus(r, e) EXCEPT !.refused = @ \/ first]
      [] e.type = "sample" -> [ReadSample(r, e) EXCEPT !.refused = @ \/ first]

Inspected ==
    LET upTo[n \in 0..Len(log)] == IF n = 0 THEN Unread ELSE Read(upTo[n - 1], log[n], n = 1)
    IN upTo[Len(log)]

\* Whatever was skipped, paused, resumed or still on its way when it was, the
\* record of a monitor that did not fail is evidence that inspect accepts: the
\* trial is not thrown away, and every window it certifies was judged alike by the
\* worklet that heard it and by the reader that did not.
EvidenceIsAccepted == ~monitor.failed => ~Inspected.refused

\* In an uninterrupted record the number of windows between two samples is the
\* time between them, to a frame, at a rate that does not divide as well.
WindowsKeepTime ==
    LET samples == {i \in DOMAIN log: log[i].type = "sample"} IN
    ~Inspected.gap =>
        \A i, j \in samples:
            log[i].direction = log[j].direction =>
                Abs(50 * (log[j].to - log[i].to) - (log[j].sequence - log[i].sequence) * Rate) <= 50
=============================================================================
