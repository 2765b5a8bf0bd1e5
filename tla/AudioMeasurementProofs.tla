------------------------ MODULE AudioMeasurementProofs ------------------------
(***************************************************************************)
(* Theorems about AudioMeasurement, for every bound, any lengths of the     *)
(* hysteresis and any rate the exactness of the reader allows: the record   *)
(* is evidence that inspect accepts, and its windows keep the time.         *)
(*                                                                          *)
(* inspect reads the record from its beginning.  Reads(log, r) says that r  *)
(* is what it holds after it, so every invariant is about that r and the    *)
(* state; a step is one argument about r and the entries it records.        *)
(***************************************************************************)
EXTENDS AudioMeasurement, TLAPS

(* Types *)

Level == [above: Nat, below: Nat, candidate: Nat, active: BOOLEAN]
Levels == [Directions -> Level]
Meter == [next: Nat \cup {None}, origin: Nat, start: Nat, index: Nat \ {0}, sequence: Nat,
          loud: SUBSET Directions, level: Levels]
SampleRecord == [type: {"sample"}, direction: Directions, sequence: Nat, from: Nat, to: Nat,
                 above: BOOLEAN, active: BOOLEAN, transition: {None, "start", "stop"},
                 since: Nat \cup {None}]
Samples ==
    {samples \in [Directions -> SampleRecord] :
        \A d \in Directions : samples[d].direction = d}
Notice == [kind: {"gap", "failure"}, generation: Nat]
Batch == [kind: {"samples"}, generation: Nat, samples: Samples]
Statuses == {"measuring", "paused", "error", "closed"}
StatusEntry == [type: {"status"}, status: Statuses]
Entry == {Anchor} \cup StatusEntry \cup SampleRecord
Monitor == [active: BOOLEAN, generation: Nat, anchored: BOOLEAN, failed: BOOLEAN,
            disposed: BOOLEAN, request: {"none", "sent", "aborted"}]

Typed ==
    /\ frame \in Nat
    /\ gate \in [enabled: BOOLEAN, generation: Nat, failed: BOOLEAN]
    /\ meter \in Meter
    /\ gates \in Seq([enabled: BOOLEAN, generation: Nat])
    /\ port \in Seq(Notice \cup Batch)
    /\ monitor \in Monitor
    /\ log \in Seq(Entry)

Reader == [status: Statuses \cup {None}, segment: Nat, refused: BOOLEAN, gap: BOOLEAN,
           sequence: [Directions -> Nat], to: [Directions -> Nat \cup {None}],
           in: [Directions -> Nat], level: Levels, void: [Directions -> BOOLEAN]]

(* The reader *)

IsReading(f, entries) ==
    f = [n \in 0..Len(entries) |->
           IF n = 0 THEN Unread ELSE Read(f[n - 1], entries[n], n = 1)]
Reads(entries, r) ==
    /\ \E f : IsReading(f, entries)
    /\ \A f : IsReading(f, entries) => f[Len(entries)] = r

LEMMA ReadingEntries ==
    ASSUME NEW entries \in Seq(Entry), NEW f
    PROVE  IsReading(f, entries) <=>
             /\ f = [n \in 0..Len(entries) |-> f[n]]
             /\ f[0] = Unread
             /\ \A n \in 1..Len(entries) : f[n] = Read(f[n - 1], entries[n], n = 1)
<1> DEFINE g == [n \in 0..Len(entries) |->
                   IF n = 0 THEN Unread ELSE Read(f[n - 1], entries[n], n = 1)]
<1>1. /\ Len(entries) \in Nat /\ DOMAIN g = 0..Len(entries) /\ g[0] = Unread
      /\ \A n \in 1..Len(entries) :
           n \in 0..Len(entries) /\ g[n] = Read(f[n - 1], entries[n], n = 1)
      /\ \A n \in 0..Len(entries) : n = 0 \/ n \in 1..Len(entries)
      /\ g = [n \in 0..Len(entries) |-> g[n]]
  OBVIOUS
<1> HIDE DEF g
<1>2. ASSUME f = g
      PROVE  /\ f = [n \in 0..Len(entries) |-> f[n]]
             /\ f[0] = Unread
             /\ \A n \in 1..Len(entries) : f[n] = Read(f[n - 1], entries[n], n = 1)
  BY <1>1, <1>2
<1>3. ASSUME f = [n \in 0..Len(entries) |-> f[n]], f[0] = Unread,
             \A n \in 1..Len(entries) : f[n] = Read(f[n - 1], entries[n], n = 1)
      PROVE  f = g
  <2>1. \A n \in 0..Len(entries) : f[n] = g[n]
    BY <1>1, <1>3
  <2> QED
    BY <1>1, <1>3, <2>1
<1>4. IsReading(f, entries) <=> f = g
  BY DEF IsReading, g
<1> QED
  BY <1>2, <1>3, <1>4

LEMMA ReadsNone == Reads(<<>>, Unread)
<1>1. <<>> \in Seq(Entry) /\ Len(<<>>) = 0
  OBVIOUS
<1> DEFINE f == [n \in 0..0 |-> Unread]
<1>2. /\ f = [n \in 0..Len(<<>>) |-> f[n]] /\ f[0] = Unread
      /\ \A n \in 1..Len(<<>>) : f[n] = Read(f[n - 1], <<>>[n], n = 1)
  OBVIOUS
<1> HIDE DEF f
<1>3. IsReading(f, <<>>)
  BY <1>1, <1>2, ReadingEntries
<1>4. \A h : IsReading(h, <<>>) => h[Len(<<>>)] = Unread
  BY <1>1, ReadingEntries
<1> QED
  BY <1>3, <1>4 DEF Reads

LEMMA ReadsAppend ==
    ASSUME NEW entries \in Seq(Entry), NEW a \in Entry, NEW r, Reads(entries, r)
    PROVE  Reads(Append(entries, a), Read(r, a, entries = <<>>))
<1> DEFINE t == Append(entries, a)
           l == Len(entries)
           v == Read(r, a, l + 1 = 1)
<1>1. /\ l \in Nat /\ DOMAIN entries = 1..l /\ Len(t) = l + 1 /\ t[l + 1] = a
      /\ \A n \in 1..l : t[n] = entries[n]
      /\ t \in Seq(Entry)
  OBVIOUS
<1>a. v = Read(r, a, entries = <<>>)
  <2>1. (l + 1 = 1) <=> (entries = <<>>)
    OBVIOUS
  <2>2. (l + 1 = 1) = (entries = <<>>)
    BY <2>1, Zenon
  <2> QED
    BY <2>2, Zenon
<1> HIDE DEF t
<1>2. PICK f : IsReading(f, entries)
  BY DEF Reads
<1>3. f[l] = r
  BY <1>2 DEF Reads
<1>4. /\ f[0] = Unread
      /\ \A n \in 1..l : f[n] = Read(f[n - 1], entries[n], n = 1)
  BY <1>2, ReadingEntries
<1> HIDE DEF l
<1> DEFINE g == [n \in 0..(l + 1) |-> IF n = l + 1 THEN v ELSE f[n]]
<1>5. /\ g = [n \in 0..(l + 1) |-> g[n]]
      /\ g[l + 1] = v
      /\ \A n \in 0..l : g[n] = f[n]
  BY <1>1
<1> HIDE DEF g
<1>6. ASSUME NEW n \in 1..(l + 1) PROVE g[n] = Read(g[n - 1], t[n], n = 1)
  <2>1. CASE n = l + 1
    <3>1. n - 1 = l /\ l \in 0..l
      BY <1>1, <2>1
    <3> QED
      BY <1>1, <1>3, <1>5, <2>1, <3>1
  <2>2. CASE n # l + 1
    <3>1. n \in 1..l /\ n \in 0..l /\ n - 1 \in 0..l
      BY <1>1, <2>2
    <3> QED
      BY <1>1, <1>4, <1>5, <3>1
  <2> QED
    BY <2>1, <2>2
<1>7. g[0] = Unread
  <2>1. 0 \in 0..l
    BY <1>1
  <2> QED
    BY <1>4, <1>5, <2>1
<1>8. IsReading(g, t)
  BY <1>1, <1>5, <1>6, <1>7, ReadingEntries
<1>9. ASSUME NEW h, IsReading(h, t) PROVE h[l + 1] = v
  <2>1. /\ h[0] = Unread
        /\ \A n \in 1..(l + 1) : h[n] = Read(h[n - 1], t[n], n = 1)
    BY <1>1, <1>9, ReadingEntries
  <2> DEFINE k == [n \in 0..l |-> h[n]]
  <2>2. /\ k = [n \in 0..l |-> k[n]]
        /\ \A n \in 0..l : k[n] = h[n]
    OBVIOUS
  <2> HIDE DEF k
  <2>3. ASSUME NEW n \in 1..l PROVE k[n] = Read(k[n - 1], entries[n], n = 1)
    <3>1. n \in 0..l /\ n - 1 \in 0..l /\ n \in 1..(l + 1)
      BY <1>1
    <3> QED
      BY <1>1, <2>1, <2>2, <3>1
  <2>4. k[0] = Unread
    BY <1>1, <2>1, <2>2
  <2>5. IsReading(k, entries)
    BY <2>2, <2>3, <2>4, ReadingEntries DEF l
  <2>6. k[l] = r
    BY <2>5 DEF Reads, l
  <2>7. l \in 0..l /\ l + 1 \in 1..(l + 1) /\ (l + 1) - 1 = l
    BY <1>1
  <2> QED
    BY <1>1, <2>1, <2>2, <2>6, <2>7
<1> QED
  BY <1>1, <1>5, <1>8, <1>9, <1>a DEF Reads, t

LEMMA InspectedIs == ASSUME NEW r, Reads(log, r) PROVE Inspected = r
<1> DEFINE upTo == CHOOSE f : f = [n \in 0..Len(log) |->
                     IF n = 0 THEN Unread ELSE Read(f[n - 1], log[n], n = 1)]
<1>1. Inspected = upTo[Len(log)]
  BY Zenon DEF Inspected
<1>2. upTo = CHOOSE f : IsReading(f, log)
  BY Zenon DEF IsReading
<1> HIDE DEF upTo
<1>3. IsReading(upTo, log)
  BY <1>2 DEF Reads
<1> QED
  BY <1>1, <1>3 DEF Reads
-----------------------------------------------------------------------------
(* One entry read *)

\* The levels as the reader has them, in the segment it is in.
Held(r) == [d \in Directions |-> IF r.in[d] = r.segment THEN r.level[d] ELSE Quiet[d]]

\* r has read a status, and is q.
Noted(r, q, status) ==
    /\ q \in Reader
    /\ q.status = status
    /\ q.segment = IF status = "measuring" THEN r.segment + 1 ELSE r.segment
    /\ q.gap <=> r.gap \/ status # "measuring"
    /\ q.refused => \/ r.refused \/ status = "error"
                    \/ status = "measuring" /\ r.status \in {"closed", "error"}
    /\ q.sequence = r.sequence /\ q.to = r.to /\ q.in = r.in /\ q.level = r.level

\* A sample that disagrees with what the reader makes of the levels h.
Clashes(h, s) ==
    LET g == Judge(h, s.above, s.from) IN
    \/ s.since # None /\ ~Near((s.to - s.since) - (s.to - s.from) * Length(s))
    \/ s.active # g.active
    \/ s.transition # Transition(h, g)
    \/ s.transition # None /\ (s.since = None \/ ~Near(s.since - g.candidate))

Refuses(r, s) ==
    LET d == s.direction IN
    \/ r.status # "measuring"
    \/ s.sequence <= r.sequence[d]
    \/ r.to[d] # None /\ s.from < r.to[d]
    \/ Clashes(Held(r)[d], s)

\* r has read the samples of the directions in D, and is q.
Took(r, q, samples, D) ==
    /\ q \in Reader
    /\ q.status = r.status /\ q.segment = r.segment
    /\ r.gap => q.gap
    /\ q.refused => r.refused \/ \E d \in D : Refuses(r, samples[d])
    /\ \A d \in D :
         LET s == samples[d] IN
         /\ q.sequence[d] = s.sequence /\ q.to[d] = s.to /\ q.in[d] = r.segment
         /\ q.level[d] = Judge(Held(r)[d], s.above, s.from)
    /\ \A d \in Directions \ D :
         /\ q.sequence[d] = r.sequence[d] /\ q.to[d] = r.to[d]
         /\ q.in[d] = r.in[d] /\ q.level[d] = r.level[d]

LEMMA Sizes ==
    ActiveWindows \in Nat \ {0} /\ SilentWindows \in Nat \ {0} /\ Rate \in Nat /\ Rate >= 8000
BY MeasurementAssumption

LEMMA NoneIsNoOther ==
    /\ \A n \in Nat : n # None
    /\ None \notin {"start", "stop", "measuring", "paused", "error", "closed"}
BY NoneAssumption

LEMMA QuietLevels ==
    /\ Quiet \in Levels
    /\ \A d \in Directions : Quiet[d] = [above |-> 0, below |-> 0, candidate |-> 0,
                                         active |-> FALSE]
BY DEF Quiet, Levels, Level

LEMMA UnreadReader == Unread \in Reader
BY QuietLevels DEF Unread, Reader

LEMMA JudgeLevel ==
    ASSUME NEW h \in Level, NEW above \in BOOLEAN, NEW start \in Nat
    PROVE  Judge(h, above, start) \in Level
<1> DEFINE a == IF above THEN Smaller(ActiveWindows, h.above + 1) ELSE 0
           b == IF above THEN 0 ELSE Smaller(SilentWindows, h.below + 1)
           c == IF (IF above THEN a ELSE b) = 1 THEN start ELSE h.candidate
           on == (h.active \/ (~h.active /\ a = ActiveWindows))
                   /\ ~(h.active /\ b = SilentWindows)
<1>1. /\ h.above \in Nat /\ h.below \in Nat /\ h.candidate \in Nat /\ h.active \in BOOLEAN
      /\ ActiveWindows \in Nat \ {0} /\ SilentWindows \in Nat \ {0}
  BY Sizes DEF Level
<1>2. a \in Nat /\ b \in Nat
  BY <1>1 DEF Smaller
<1>3. Judge(h, above, start) = [above |-> a, below |-> b, candidate |-> c, active |-> on]
  BY DEF Judge
<1>4. c \in Nat /\ on \in BOOLEAN
  BY <1>1
<1> QED
  BY <1>2, <1>3, <1>4 DEF Level

LEMMA HeldLevels ==
    ASSUME NEW r \in Reader
    PROVE  /\ Held(r) \in Levels
           /\ \A d \in Directions :
                Held(r)[d] = IF r.in[d] = r.segment THEN r.level[d] ELSE Quiet[d]
BY QuietLevels DEF Held, Reader, Levels

LEMMA AnchorRead == Read(Unread, Anchor, TRUE) = Unread
<1>1. Unread.refused = FALSE /\ Unread = [Unread EXCEPT !.refused = FALSE]
  <2>1. Unread.refused = FALSE
    BY DEF Unread
  <2> QED
    BY <2>1, UnreadReader DEF Reader
<1>2. Read(Unread, Anchor, TRUE) = [Unread EXCEPT !.refused = @ \/ ~TRUE]
  BY DEF Read, Anchor
<1>3. (Unread.refused \/ ~TRUE) = FALSE
  BY <1>1
<1> QED
  BY <1>1, <1>2, <1>3

LEMMA StatusRead ==
    ASSUME NEW r \in Reader, NEW status \in Statuses
    PROVE  Noted(r, Read(r, Status(status), FALSE), status)
<1> DEFINE q == Read(r, Status(status), FALSE)
           p == ReadStatus(r, Status(status))
<1>1. q = [p EXCEPT !.refused = @ \/ FALSE]
  BY DEF Read, Status
<1>2. /\ p \in Reader
      /\ p.status = status
      /\ p.segment = IF status = "measuring" THEN r.segment + 1 ELSE r.segment
      /\ p.gap <=> r.gap \/ status # "measuring"
      /\ p.refused => \/ r.refused \/ status = "error"
                      \/ status = "measuring" /\ r.status \in {"closed", "error"}
      /\ p.sequence = r.sequence /\ p.to = r.to /\ p.in = r.in /\ p.level = r.level
  <2> DEFINE refused == r.refused \/ (status = "error"
                            \/ (status = "measuring" /\ r.status \in {"closed", "error"}))
             gap == r.gap \/ status # "measuring"
             segment == IF status = "measuring" THEN r.segment + 1 ELSE r.segment
  <2>1. p = [r EXCEPT !.refused = refused, !.gap = gap, !.status = status,
                      !.segment = segment]
    BY DEF ReadStatus, Status, Reader
  <2>2. /\ refused \in BOOLEAN /\ gap \in BOOLEAN /\ segment \in Nat
        /\ status \in Statuses \cup {None}
    BY DEF Reader
  <2> HIDE DEF refused, gap, segment, p
  <2>3. /\ p \in Reader
        /\ p.status = status /\ p.segment = segment /\ p.gap = gap /\ p.refused = refused
        /\ p.sequence = r.sequence /\ p.to = r.to /\ p.in = r.in /\ p.level = r.level
    BY <2>1, <2>2 DEF Reader
  <2> QED
    BY <2>3 DEF refused, gap, segment
<1> HIDE DEF p
<1>3. q \in Reader
  BY <1>1, <1>2 DEF Reader
<1>4. /\ q.status = p.status /\ q.segment = p.segment /\ q.gap = p.gap
      /\ q.refused <=> p.refused
      /\ q.sequence = p.sequence /\ q.to = p.to /\ q.in = p.in /\ q.level = p.level
  BY <1>1, <1>2 DEF Reader
<1> QED
  BY <1>2, <1>3, <1>4 DEF Noted

LEMMA SampleRead ==
    ASSUME NEW r \in Reader, NEW samples \in Samples, NEW d \in Directions
    PROVE  Took(r, Read(r, samples[d], FALSE), samples, {d})
<1> DEFINE s == samples[d]
           q == Read(r, s, FALSE)
           p == ReadSample(r, s)
           h == Held(r)[d]
           g == Judge(h, s.above, s.from)
           e == Expected(r, s)
<1>1. s \in SampleRecord /\ s.direction = d
  BY DEF Samples
<1> HIDE DEF s
<1>2. /\ s.type = "sample" /\ s.sequence \in Nat /\ s.from \in Nat /\ s.to \in Nat
      /\ s.above \in BOOLEAN
  BY <1>1 DEF SampleRecord
<1>3. h \in Level /\ h = IF r.in[d] = r.segment THEN r.level[d] ELSE Quiet[d]
  BY HeldLevels DEF Levels
<1>4. e.before = h /\ e.after = g
  BY <1>1, <1>3 DEF Expected
<1>5. g \in Level
  BY <1>2, <1>3, JudgeLevel
<1>6. BadTransition(r, s) => Clashes(h, s)
  BY <1>4 DEF BadTransition, Clashes
<1>7. Voided(r, s) \in BOOLEAN /\ BadTransition(r, s) \in BOOLEAN
  BY <1>1 DEF Voided, BadTransition, Reader
<1> HIDE DEF e, g, h
<1>8. q = [p EXCEPT !.refused = @ \/ FALSE]
  BY <1>2 DEF Read
<1>9. /\ p \in Reader
      /\ p.status = r.status /\ p.segment = r.segment
      /\ r.gap => p.gap
      /\ p.refused => r.refused \/ Refuses(r, s)
      /\ p.sequence = [r.sequence EXCEPT ![d] = s.sequence]
      /\ p.to = [r.to EXCEPT ![d] = s.to]
      /\ p.in = [r.in EXCEPT ![d] = r.segment]
      /\ p.level = [r.level EXCEPT ![d] = g]
  <2> DEFINE refused == \/ r.refused \/ r.status # "measuring"
                        \/ s.sequence <= r.sequence[d]
                        \/ r.to[d] # None /\ s.from < r.to[d]
                        \/ BadTransition(r, s)
             gap == r.gap \/ s.sequence # r.sequence[d] + 1
                          \/ (r.to[d] # None /\ ~Near(s.from - r.to[d]))
             void == Voided(r, s)
             sequence == [r.sequence EXCEPT ![d] = s.sequence]
             to == [r.to EXCEPT ![d] = s.to]
             in == [r.in EXCEPT ![d] = r.segment]
             level == [r.level EXCEPT ![d] = g]
             voids == [r.void EXCEPT ![d] = void]
  <2>0. p = [r EXCEPT !.refused = refused, !.gap = gap,
                      !.sequence[d] = s.sequence, !.to[d] = s.to, !.in[d] = r.segment,
                      !.level[d] = Expected(r, s).after, !.void[d] = void]
    BY <1>1, Zenon DEF ReadSample
  <2>1. p = [r EXCEPT !.refused = refused, !.gap = gap,
                      !.sequence = sequence, !.to = to, !.in = in,
                      !.level = level, !.void = voids]
    BY <1>4, <2>0 DEF e
  <2>2. refused \in BOOLEAN /\ gap \in BOOLEAN /\ void \in BOOLEAN
    BY <1>7 DEF Reader
  <2>3. (refused => r.refused \/ Refuses(r, s)) /\ (r.gap => gap)
    BY <1>1, <1>6 DEF Refuses, h
  <2> HIDE DEF refused, gap, void, p
  <2>4. /\ sequence \in [Directions -> Nat] /\ to \in [Directions -> Nat \cup {None}]
        /\ in \in [Directions -> Nat] /\ voids \in [Directions -> BOOLEAN]
    BY <1>2, <2>2 DEF Reader
  <2>5. level \in Levels
    BY <1>5 DEF Reader, Levels
  <2> HIDE DEF sequence, to, in, level, voids
  <2>6. /\ p \in Reader
        /\ p.status = r.status /\ p.segment = r.segment /\ p.gap = gap /\ p.refused = refused
        /\ p.sequence = sequence /\ p.to = to /\ p.in = in /\ p.level = level
    BY <2>1, <2>2, <2>4, <2>5 DEF Reader
  <2> QED
    BY <2>3, <2>6 DEF sequence, to, in, level
<1> HIDE DEF p
<1>10. q \in Reader
  BY <1>8, <1>9 DEF Reader
<1>11. /\ q.status = p.status /\ q.segment = p.segment /\ q.gap = p.gap
       /\ q.refused <=> p.refused
       /\ q.sequence = p.sequence /\ q.to = p.to /\ q.in = p.in /\ q.level = p.level
  BY <1>8, <1>9 DEF Reader
<1> HIDE DEF q
<1>12. /\ q.sequence[d] = s.sequence /\ q.to[d] = s.to /\ q.in[d] = r.segment
       /\ q.level[d] = g
       /\ \A c \in Directions \ {d} :
            /\ q.sequence[c] = r.sequence[c] /\ q.to[c] = r.to[c]
            /\ q.in[c] = r.in[c] /\ q.level[c] = r.level[c]
  BY <1>9, <1>11 DEF Reader, Levels
<1> QED
  BY <1>9, <1>10, <1>11, <1>12 DEF Took, g, h, s, q

\* Reading one direction changes nothing the reader keeps of the other.
LEMMA BothRead ==
    ASSUME NEW r \in Reader, NEW samples \in Samples, Directions = {"input", "output"},
           NEW p, Took(r, p, samples, {"input"}), NEW q, Took(p, q, samples, {"output"})
    PROVE  Took(r, q, samples, Directions)
<1> DEFINE i == "input"
           o == "output"
<1>1. /\ p \in Reader /\ q \in Reader /\ i \in Directions /\ o \in Directions
      /\ o \in Directions \ {i} /\ i \in Directions \ {o}
  BY DEF Took
<1>2. /\ samples[i].direction = i /\ samples[o].direction = o
  BY <1>1 DEF Samples
<1>3. Held(p)[o] = Held(r)[o]
  BY <1>1, HeldLevels DEF Took
<1>4. Refuses(p, samples[o]) => Refuses(r, samples[o])
  BY <1>1, <1>2, <1>3 DEF Took, Refuses
<1>5. /\ q.status = r.status /\ q.segment = r.segment /\ (r.gap => q.gap)
      /\ p.segment = r.segment
  BY DEF Took
<1>6. q.refused => r.refused \/ \E d \in Directions : Refuses(r, samples[d])
  BY <1>1, <1>4 DEF Took
<1>7. /\ q.sequence[i] = samples[i].sequence /\ q.to[i] = samples[i].to
      /\ q.in[i] = r.segment
      /\ q.level[i] = Judge(Held(r)[i], samples[i].above, samples[i].from)
  BY <1>1 DEF Took
<1>8. /\ q.sequence[o] = samples[o].sequence /\ q.to[o] = samples[o].to
      /\ q.in[o] = r.segment
      /\ q.level[o] = Judge(Held(r)[o], samples[o].above, samples[o].from)
  BY <1>1, <1>3, <1>5 DEF Took
<1> QED
  BY <1>1, <1>5, <1>6, <1>7, <1>8 DEF Took
-----------------------------------------------------------------------------
(* Entries appended *)

RecordedIn(entries) ==
    {entries[i] : i \in {j \in DOMAIN entries : entries[j].type = "sample"}}

LEMMA EntryTypes ==
    /\ Anchor \in Entry /\ Anchor.type = "anchor"
    /\ \A status \in Statuses : Status(status) \in Entry /\ Status(status).type = "status"
    /\ \A s \in SampleRecord : s \in Entry /\ s.type = "sample"
BY DEF Entry, Anchor, Status, StatusEntry, SampleRecord

LEMMA EntryAppend ==
    ASSUME NEW entries \in Seq(Entry), NEW a \in Entry
    PROVE  /\ Append(entries, a) \in Seq(Entry) /\ Append(entries, a) # <<>>
           /\ entries \o <<a>> = Append(entries, a)
           /\ a.type = "sample" => RecordedIn(Append(entries, a)) = RecordedIn(entries) \cup {a}
           /\ a.type # "sample" => RecordedIn(Append(entries, a)) = RecordedIn(entries)
<1> DEFINE t == Append(entries, a)
           l == Len(entries)
<1>1. /\ l \in Nat /\ DOMAIN entries = 1..l /\ t[l + 1] = a
      /\ DOMAIN t = 1..(l + 1)
      /\ \A n \in 1..l : t[n] = entries[n]
      /\ t \in Seq(Entry) /\ t # <<>>
  OBVIOUS
<1>2. entries \o <<a>> = t
  BY SMT
<1> HIDE DEF t, l
<1>3. \A n \in 1..(l + 1) : n \in 1..l \/ n = l + 1
  BY <1>1
<1>4. l + 1 \in 1..(l + 1) /\ \A n \in 1..l : n \in 1..(l + 1)
  BY <1>1
<1>5. a.type = "sample" => RecordedIn(t) = RecordedIn(entries) \cup {a}
  BY <1>1, <1>3, <1>4, Zenon DEF RecordedIn
<1>6. a.type # "sample" => RecordedIn(t) = RecordedIn(entries)
  BY <1>1, <1>3, <1>4, Zenon DEF RecordedIn
<1> QED
  BY <1>1, <1>2, <1>5, <1>6 DEF t

\* The record has grown by entries of which fresh are samples.
Grown(entries, more, fresh) ==
    /\ more \in Seq(Entry) /\ more # <<>>
    /\ RecordedIn(more) = RecordedIn(entries) \cup fresh

LEMMA OneMoreRead ==
    ASSUME NEW entries \in Seq(Entry), entries # <<>>, NEW r, Reads(entries, r),
           NEW a \in Entry
    PROVE  Reads(Append(entries, a), Read(r, a, FALSE))
<1>1. Reads(Append(entries, a), Read(r, a, entries = <<>>))
  BY ReadsAppend
<1>2. (entries = <<>>) = FALSE
  OBVIOUS
<1> QED
  BY <1>1, <1>2, Zenon

\* A status read at the end of a record that has begun.
LEMMA NotedAtEnd ==
    ASSUME NEW entries \in Seq(Entry), entries # <<>>, NEW r \in Reader, Reads(entries, r),
           NEW status \in Statuses
    PROVE  \E q : /\ Noted(r, q, status)
                  /\ Reads(Append(entries, Status(status)), q)
                  /\ Grown(entries, Append(entries, Status(status)), {})
<1>1. Status(status) \in Entry /\ Status(status).type # "sample"
  BY EntryTypes
<1>2. Noted(r, Read(r, Status(status), FALSE), status)
  BY StatusRead
<1>3. Reads(Append(entries, Status(status)), Read(r, Status(status), FALSE))
  BY <1>1, OneMoreRead
<1>4. Grown(entries, Append(entries, Status(status)), {})
  BY <1>1, EntryAppend DEF Grown
<1> QED
  BY <1>2, <1>3, <1>4

LEMMA TookAtEnd ==
    ASSUME NEW entries \in Seq(Entry), entries # <<>>, NEW r \in Reader, Reads(entries, r),
           NEW samples \in Samples, NEW d \in Directions
    PROVE  \E q : /\ Took(r, q, samples, {d})
                  /\ Reads(Append(entries, samples[d]), q)
                  /\ Grown(entries, Append(entries, samples[d]), {samples[d]})
<1>1. samples[d] \in Entry /\ samples[d].type = "sample"
  BY EntryTypes DEF Samples
<1>2. Took(r, Read(r, samples[d], FALSE), samples, {d})
  BY SampleRead
<1>3. Reads(Append(entries, samples[d]), Read(r, samples[d], FALSE))
  BY <1>1, OneMoreRead
<1>4. Grown(entries, Append(entries, samples[d]), {samples[d]})
  BY <1>1, EntryAppend DEF Grown
<1> QED
  BY <1>2, <1>3, <1>4

LEMMA FlatCases ==
    ASSUME NEW samples \in Samples
    PROVE  \/ Directions = {} /\ Flat(samples) = <<>>
           \/ \E d \in Directions : Directions = {d} /\ Flat(samples) = <<samples[d]>>
           \/ /\ Directions = {"input", "output"}
              /\ Flat(samples) = <<samples["input"], samples["output"]>>
<1> DEFINE i == "input"
           o == "output"
<1>1. Directions \subseteq {i, o} /\ i # o
  BY MeasurementAssumption
<1>2. Flat(samples) = (IF i \in Directions THEN <<samples[i]>> ELSE <<>>)
                        \o (IF o \in Directions THEN <<samples[o]>> ELSE <<>>)
  BY Zenon DEF Flat, SampleOf
<1>3. \A d \in Directions : samples[d] \in SampleRecord
  BY DEF Samples
<1> HIDE DEF i, o
<1>4. CASE i \notin Directions /\ o \notin Directions
  BY <1>1, <1>2, <1>4
<1>5. CASE i \in Directions /\ o \notin Directions
  <2>1. Directions = {i}
    BY <1>1, <1>5
  <2>2. Flat(samples) = <<samples[i]>> \o <<>>
    BY <1>2, <1>5, Zenon
  <2>3. <<samples[i]>> \o <<>> = <<samples[i]>>
    BY <1>3, <1>5
  <2> QED
    BY <1>5, <2>1, <2>2, <2>3
<1>6. CASE i \notin Directions /\ o \in Directions
  <2>1. Directions = {o}
    BY <1>1, <1>6
  <2>2. Flat(samples) = <<>> \o <<samples[o]>>
    BY <1>2, <1>6, Zenon
  <2>3. <<>> \o <<samples[o]>> = <<samples[o]>>
    BY <1>3, <1>6
  <2> QED
    BY <1>6, <2>1, <2>2, <2>3
<1>7. CASE i \in Directions /\ o \in Directions
  <2>1. Directions = {i, o}
    BY <1>1, <1>7
  <2>2. Flat(samples) = <<samples[i]>> \o <<samples[o]>>
    BY <1>2, <1>7, Zenon
  <2>3. <<samples[i]>> \o <<samples[o]>> = <<samples[i], samples[o]>>
    <3> DEFINE x == samples[i]
               y == samples[o]
               t == <<x>> \o <<y>>
    <3>1. x \in {x, y} /\ y \in {x, y}
      OBVIOUS
    <3> HIDE DEF x, y
    <3>2. t \in Seq({x, y}) /\ Len(t) = 2 /\ t[1] = x /\ t[2] = y
      BY <3>1
    <3> HIDE DEF t
    <3>3. t = <<x, y>>
      BY <3>1, <3>2
    <3> QED
      BY <3>3 DEF x, y, t
  <2> QED
    BY <2>1, <2>2, <2>3 DEF i, o
<1> QED
  BY <1>4, <1>5, <1>6, <1>7

\* The samples of a message read at the end of a record that has begun.
LEMMA FlatAtEnd ==
    ASSUME NEW entries \in Seq(Entry), entries # <<>>, NEW r \in Reader, Reads(entries, r),
           NEW samples \in Samples
    PROVE  \E q : /\ Took(r, q, samples, Directions)
                  /\ Reads(entries \o Flat(samples), q)
                  /\ Grown(entries, entries \o Flat(samples), {samples[d] : d \in Directions})
<1> DEFINE Goal == \E q :
                      /\ Took(r, q, samples, Directions)
                      /\ Reads(entries \o Flat(samples), q)
                      /\ Grown(entries, entries \o Flat(samples),
                               {samples[d] : d \in Directions})
<1>1. CASE Directions = {} /\ Flat(samples) = <<>>
  <2>1. entries \o Flat(samples) = entries
    BY <1>1
  <2>2. Took(r, r, samples, Directions)
    BY <1>1 DEF Took
  <2>3. {samples[d] : d \in Directions} = {}
    BY <1>1
  <2>4. Grown(entries, entries, {})
    BY DEF Grown
  <2> QED
    BY <2>1, <2>2, <2>3, <2>4
<1>2. ASSUME NEW c \in Directions, Directions = {c}, Flat(samples) = <<samples[c]>>
      PROVE  Goal
  <2>1. PICK q : /\ Took(r, q, samples, {c})
                 /\ Reads(Append(entries, samples[c]), q)
                 /\ Grown(entries, Append(entries, samples[c]), {samples[c]})
    BY TookAtEnd
  <2>2. samples[c] \in Entry
    BY EntryTypes DEF Samples
  <2>3. entries \o Flat(samples) = Append(entries, samples[c])
    BY <1>2, <2>2, EntryAppend
  <2>4. {samples[d] : d \in Directions} = {samples[c]}
    BY <1>2
  <2> QED
    BY <1>2, <2>1, <2>3, <2>4
<1>3. CASE /\ Directions = {"input", "output"}
           /\ Flat(samples) = <<samples["input"], samples["output"]>>
  <2> DEFINE i == "input"
             o == "output"
             first == Append(entries, samples[i])
             second == Append(first, samples[o])
  <2>0. /\ i \in Directions /\ o \in Directions /\ Directions = {i, o}
        /\ Flat(samples) = <<samples[i], samples[o]>>
    BY <1>3
  <2>1. samples[i] \in Entry /\ samples[o] \in Entry
    BY <2>0, EntryTypes DEF Samples
  <2>2. PICK p : Took(r, p, samples, {i}) /\ Reads(first, p) /\ Grown(entries, first, {samples[i]})
    BY <2>0, TookAtEnd
  <2>3. entries \o Flat(samples) = second
    <3>1. \A S : entries \in Seq(S) /\ samples[i] \in S /\ samples[o] \in S
                   => entries \o <<samples[i], samples[o]>>
                        = Append(Append(entries, samples[i]), samples[o])
      BY SMT
    <3> QED
      BY <2>0, <2>1, <3>1
  <2>4. p \in Reader /\ first \in Seq(Entry) /\ first # <<>>
    BY <2>2 DEF Took, Grown
  <2> HIDE DEF first
  <2>5. PICK q : Took(p, q, samples, {o}) /\ Reads(second, q) /\ Grown(first, second, {samples[o]})
    BY <2>0, <2>2, <2>4, TookAtEnd
  <2>6. Took(r, q, samples, Directions)
    BY <1>3, <2>2, <2>5, BothRead
  <2> HIDE DEF second
  <2>7. {samples[d] : d \in Directions} = {samples[i], samples[o]}
    BY <2>0
  <2>8. Grown(entries, second, {samples[i], samples[o]})
    BY <2>2, <2>5 DEF Grown
  <2> QED
    BY <2>3, <2>5, <2>6, <2>7, <2>8
<1> QED
  BY <1>1, <1>2, <1>3, FlatCases
-----------------------------------------------------------------------------
(* What holds of the monitor, the worklet and the reader *)

Open == ~monitor.failed /\ ~monitor.disposed

\* Every gate message carries the next generation; the port is behind the gate.
Generations ==
    /\ \A i \in DOMAIN gates : gates[i].generation = gate.generation + i
    /\ monitor.generation = gate.generation + Len(gates)
    /\ \A i \in DOMAIN port : port[i].generation <= gate.generation

Edge(m, i) == m.origin + (2 * i * Rate + 50) \div 100
Idle(h) == h.above = 0 /\ h.below = 0 /\ ~h.active

\* Windows abut, from the first frame on.
Abutting(m, t) ==
    /\ m.start <= t
    /\ m.next = None => m.index = 1 /\ \A d \in Directions : Idle(m.level[d])
    /\ m.next # None =>
         /\ m.start = Edge(m, m.index - 1)
         /\ m.start <= m.next /\ m.next <= t /\ m.next < WindowEnd(m)

\* What the monitor has told the reader.
Told(r) ==
    /\ monitor.anchored <=> log # <<>>
    /\ ~monitor.anchored =>
         /\ ~monitor.active /\ r = Unread
         /\ Open => port = <<>> /\ gates = <<>> /\ ~gate.enabled
    /\ monitor.active => Open /\ r.status = "measuring"
    /\ Open => r.status \notin {"closed", "error"}
    /\ Open /\ ~monitor.active /\ monitor.anchored => r.gap
    /\ \A d \in Directions : r.in[d] <= r.segment
    /\ monitor.active /\ gates # <<>> => \A d \in Directions : r.in[d] < r.segment

Known(r) ==
    /\ Typed /\ r \in Reader /\ Reads(log, r)
    /\ Open => Generations
    /\ Abutting(meter, frame)
    /\ Told(r)

LEMMA StatusOfRead ==
    ASSUME Typed, NEW r \in Reader, Reads(log, r), monitor.anchored <=> log # <<>>,
           NEW status \in Statuses
    PROVE  \E q \in Reader :
             /\ Reads(log \o StatusOf(monitor, status), q)
             /\ log \o StatusOf(monitor, status) \in Seq(Entry)
             /\ RecordedIn(log \o StatusOf(monitor, status)) = RecordedIn(log)
             /\ monitor.anchored =>
                  Noted(r, q, status) /\ log \o StatusOf(monitor, status) # <<>>
             /\ ~monitor.anchored => q = r /\ log \o StatusOf(monitor, status) = <<>>
<1>1. log \in Seq(Entry)
  BY DEF Typed
<1>2. CASE monitor.anchored
  <2>1. StatusOf(monitor, status) = <<Status(status)>>
    BY <1>2 DEF StatusOf
  <2>2. PICK q : /\ Noted(r, q, status)
                 /\ Reads(Append(log, Status(status)), q)
                 /\ Grown(log, Append(log, Status(status)), {})
    BY <1>1, <1>2, NotedAtEnd
  <2>3. log \o <<Status(status)>> = Append(log, Status(status))
    BY <1>1, EntryTypes, EntryAppend
  <2>4. q \in Reader
    BY <2>2 DEF Noted
  <2> QED
    BY <1>2, <2>1, <2>2, <2>3, <2>4 DEF Grown
<1>3. CASE ~monitor.anchored
  <2>1. StatusOf(monitor, status) = <<>>
    BY <1>3 DEF StatusOf
  <2>2. log \o <<>> = log /\ log = <<>>
    BY <1>1, <1>3
  <2> QED
    BY <1>1, <1>3, <2>1, <2>2
<1> QED
  BY <1>2, <1>3
-----------------------------------------------------------------------------
(* The worklet *)

LEMMA EdgeFacts ==
    ASSUME NEW m \in Meter
    PROVE  /\ WindowEnd(m) = Edge(m, m.index)
           /\ WindowEnd(m) \in Nat
           /\ \A i \in Int : Edge(m, i) \in Int /\ Edge(m, i + 1) >= Edge(m, i) + 160
           /\ Edge(m, 0) = m.origin
<1>1. m.origin \in Nat /\ m.index \in Nat /\ Rate \in Nat /\ Rate >= 8000
  BY Sizes DEF Meter
<1>2. 2 * m.index * Rate \in Nat
  BY <1>1
<1>3. ASSUME NEW i \in Int PROVE Edge(m, i) \in Int /\ Edge(m, i + 1) >= Edge(m, i) + 160
  <2> DEFINE p == 2 * i * Rate
  <2>1. p \in Int /\ 2 * (i + 1) * Rate = p + 2 * Rate
    BY <1>1
  <2> HIDE DEF p
  <2>2. (p + 2 * Rate + 50) \div 100 >= (p + 50) \div 100 + 160
    BY <1>1, <2>1
  <2>3. (p + 50) \div 100 \in Int /\ (p + 2 * Rate + 50) \div 100 \in Int
    BY <1>1, <2>1
  <2> QED
    BY <1>1, <2>1, <2>2, <2>3 DEF Edge, p
<1>4. Edge(m, 0) = m.origin
  <2>1. 2 * 0 * Rate = 0
    BY <1>1
  <2> QED
    BY <1>1, <2>1 DEF Edge
<1>5. WindowEnd(m) = Edge(m, m.index)
  BY DEF WindowEnd, Edge
<1>6. WindowEnd(m) \in Nat
  <2> DEFINE p == 2 * m.index * Rate
  <2>1. (p + 50) \div 100 \in Nat
    BY <1>2
  <2> QED
    BY <1>1, <2>1 DEF WindowEnd
<1> QED
  BY <1>3, <1>4, <1>5, <1>6

\* The meter with which a call of process begins.
Lost == meter.next \notin {None, frame}
Ready == Started(Resumed)

LEMMA ResetMeter ==
    ASSUME NEW m \in Meter
    PROVE  /\ Reset(m) \in Meter
           /\ Reset(m).next = None /\ Reset(m).index = 1
           /\ Reset(m).origin = m.origin /\ Reset(m).start = m.start
           /\ Reset(m).sequence = m.sequence
           /\ \A d \in Directions : Idle(Reset(m).level[d])
<1> DEFINE q == [d \in Directions |-> [Quiet[d] EXCEPT !.candidate = m.level[d].candidate]]
<1>1. q \in Levels /\ \A d \in Directions : Idle(q[d])
  BY QuietLevels DEF Meter, Levels, Level, Idle
<1>2. Reset(m) = [m EXCEPT !.next = None, !.index = 1, !.loud = {}, !.level = q]
  BY DEF Reset
<1> DEFINE none == {}
<1>3. none \in SUBSET Directions /\ None \in Nat \cup {None} /\ 1 \in Nat \ {0}
  OBVIOUS
<1>4. Reset(m) = [m EXCEPT !.next = None, !.index = 1, !.loud = none, !.level = q]
  BY <1>2
<1> HIDE DEF q, none
<1>5. /\ Reset(m) \in Meter
      /\ Reset(m).next = None /\ Reset(m).index = 1
      /\ Reset(m).origin = m.origin /\ Reset(m).start = m.start
      /\ Reset(m).sequence = m.sequence /\ Reset(m).level = q
  BY <1>1, <1>3, <1>4 DEF Meter
<1> QED
  BY <1>1, <1>5

LEMMA StartedMeter ==
    ASSUME frame \in Nat, NEW m \in Meter
    PROVE  /\ Started(m) \in Meter
           /\ Started(m).index = m.index /\ Started(m).sequence = m.sequence
           /\ Started(m).level = m.level /\ Started(m).loud = m.loud
           /\ m.next = None => Started(m).origin = frame /\ Started(m).start = frame
           /\ m.next # None => Started(m) = m
BY DEF Started, Meter

LEMMA ReadyFacts ==
    ASSUME Typed, Abutting(meter, frame)
    PROVE  /\ Ready \in Meter
           /\ Ready.sequence = meter.sequence
           /\ meter.start <= Ready.start /\ Ready.start <= frame /\ frame < WindowEnd(Ready)
           /\ Ready.start = Edge(Ready, Ready.index - 1)
           /\ ~Lost => Ready.level = meter.level
           /\ Lost => \A d \in Directions : Idle(Ready.level[d])
           /\ Lost \/ meter.next = None => Ready.index = 1
           /\ ~Lost /\ meter.next # None => Ready = meter /\ meter.next = frame
<1>1. frame \in Nat /\ meter \in Meter
  BY DEF Typed
<1>2. frame # None
  BY <1>1, NoneIsNoOther
<1>3. ASSUME NEW m \in Meter, m.index = 1, m.origin = frame, m.start = frame
      PROVE  frame < WindowEnd(m) /\ m.start = Edge(m, m.index - 1)
  <2>1. m.index - 1 = 0 /\ 0 + 1 = m.index /\ 0 \in Int
    BY <1>3
  <2>2. Edge(m, 0) = frame /\ Edge(m, m.index) >= Edge(m, 0) + 160
    BY <1>3, <2>1, EdgeFacts
  <2> QED
    BY <1>1, <1>3, <2>1, <2>2, EdgeFacts
<1>4. CASE Lost
  <2>1. Resumed = Reset(meter)
    BY <1>4 DEF Lost, Resumed
  <2>2. /\ Resumed \in Meter /\ Resumed.next = None /\ Resumed.index = 1
        /\ Resumed.sequence = meter.sequence
        /\ \A d \in Directions : Idle(Resumed.level[d])
    BY <1>1, <2>1, ResetMeter
  <2>3. /\ Ready \in Meter /\ Ready.index = 1 /\ Ready.sequence = meter.sequence
        /\ Ready.level = Resumed.level /\ Ready.origin = frame /\ Ready.start = frame
    BY <1>1, <2>2, StartedMeter DEF Ready
  <2>4. meter.start <= frame
    BY DEF Abutting
  <2> QED
    BY <1>1, <1>3, <1>4, <2>2, <2>3, <2>4
<1>5. CASE ~Lost
  <2>1. Resumed = meter
    BY <1>5 DEF Lost, Resumed
  <2>2. CASE meter.next = None
    <3>1. meter.index = 1 /\ meter.start <= frame
      BY <2>2 DEF Abutting
    <3>2. /\ Ready \in Meter /\ Ready.index = 1 /\ Ready.sequence = meter.sequence
          /\ Ready.level = meter.level /\ Ready.origin = frame /\ Ready.start = frame
      BY <1>1, <2>1, <2>2, <3>1, StartedMeter DEF Ready
    <3> QED
      BY <1>1, <1>3, <1>5, <2>2, <3>1, <3>2
  <2>3. CASE meter.next # None
    <3>1. Ready = meter /\ meter.next = frame
      BY <1>1, <1>5, <2>1, <2>3, StartedMeter DEF Ready, Lost
    <3>2. /\ meter.start = Edge(meter, meter.index - 1)
          /\ meter.start <= frame /\ frame < WindowEnd(meter)
      BY <2>3, <3>1 DEF Abutting
    <3>3. meter.start \in Nat
      BY <1>1 DEF Meter
    <3> QED
      BY <1>1, <1>5, <2>3, <3>1, <3>2, <3>3
  <2> QED
    BY <2>2, <2>3
<1> QED
  BY <1>4, <1>5

\* A sample that says of the levels h what a reader makes of them.
Heeds(h, s, g) ==
    /\ g = Judge(h, s.above, s.from)
    /\ s.active = g.active /\ s.transition = Transition(h, g)
    /\ s.since = IF h.active = g.active THEN None ELSE g.candidate

LEMMA JudgeFields ==
    ASSUME NEW h \in Level, NEW above \in BOOLEAN, NEW start \in Nat
    PROVE  LET g == Judge(h, above, start) IN
           /\ g.above = IF above THEN Smaller(ActiveWindows, h.above + 1) ELSE 0
           /\ g.below = IF above THEN 0 ELSE Smaller(SilentWindows, h.below + 1)
           /\ g.candidate = IF (IF above THEN g.above ELSE g.below) = 1 THEN start
                            ELSE h.candidate
           /\ g.active <=> /\ h.active \/ g.above = ActiveWindows
                           /\ ~(h.active /\ g.below = SilentWindows)
           /\ (g.above > 0) = above
           /\ g \in Level
<1> DEFINE a == IF above THEN Smaller(ActiveWindows, h.above + 1) ELSE 0
           b == IF above THEN 0 ELSE Smaller(SilentWindows, h.below + 1)
           c == IF (IF above THEN a ELSE b) = 1 THEN start ELSE h.candidate
           on == (h.active \/ (~h.active /\ a = ActiveWindows))
                   /\ ~(h.active /\ b = SilentWindows)
<1>1. Judge(h, above, start) = [above |-> a, below |-> b, candidate |-> c, active |-> on]
  BY DEF Judge
<1>2. (a > 0) = above
  BY Sizes DEF Smaller, Level
<1>3. Judge(h, above, start) \in Level
  BY JudgeLevel
<1>4. on <=> (h.active \/ a = ActiveWindows) /\ ~(h.active /\ b = SilentWindows)
  OBVIOUS
<1> HIDE DEF a, b, on
<1> QED
  BY <1>1, <1>2, <1>3, <1>4 DEF a, b

\* What the worklet has written before the samples of this call.
Resumption == IF Lost THEN Append(port, Message("gap")) ELSE port

Halfway(m) ==
    /\ meter' \in Meter /\ meter'.next = frame' /\ meter'.start = m.start
    /\ meter'.origin = m.origin /\ meter'.index = m.index
    /\ meter'.sequence = m.sequence /\ meter'.level = m.level
    /\ frame' \in Nat /\ frame <= frame' /\ frame' < WindowEnd(m)
    /\ port' = Resumption

Whole(m, samples) ==
    /\ meter' \in Meter /\ meter'.next = frame' /\ meter'.start = frame'
    /\ meter'.origin = m.origin /\ meter'.index = m.index + 1
    /\ meter'.sequence = m.sequence + 1
    /\ frame' \in Nat /\ frame <= frame' /\ frame' = WindowEnd(m)
    /\ samples \in Samples
    /\ \A d \in Directions :
         /\ samples[d].sequence = m.sequence + 1
         /\ samples[d].from = m.start /\ samples[d].to = WindowEnd(m)
         /\ Heeds(m.level[d], samples[d], meter'.level[d])
    /\ port' = Append(Resumption, [kind |-> "samples", generation |-> gate.generation,
                                   samples |-> samples])

LEMMA SampleFacts ==
    ASSUME NEW d \in Directions, NEW h \in Level, NEW above \in BOOLEAN, NEW start \in Nat,
           NEW end \in Nat, NEW sequence \in Nat
    PROVE  LET g == Judge(h, above, start)
               s == Sample(d, h, g, start, end, sequence)
           IN /\ s \in SampleRecord /\ s.direction = d
              /\ s.sequence = sequence /\ s.from = start /\ s.to = end
              /\ Heeds(h, s, g)
<1> DEFINE g == Judge(h, above, start)
           t == Transition(h, g)
           since == IF h.active = g.active THEN None ELSE g.candidate
           s == Sample(d, h, g, start, end, sequence)
<1>1. g \in Level /\ (g.above > 0) = above
  BY JudgeFields
<1>2. t \in {None, "start", "stop"}
  BY DEF Transition
<1>3. since \in Nat \cup {None} /\ g.active \in BOOLEAN
  BY <1>1 DEF Level
<1>4. s = [type |-> "sample", direction |-> d, sequence |-> sequence, from |-> start,
           to |-> end, above |-> above, active |-> g.active, transition |-> t, since |-> since]
  BY <1>1, Zenon DEF Sample
<1>5. g = Judge(h, above, start) /\ t = Transition(h, g)
      /\ since = IF h.active = g.active THEN None ELSE g.candidate
  OBVIOUS
<1> HIDE DEF g, t, since, s
<1>6. s \in SampleRecord
  BY <1>2, <1>3, <1>4 DEF SampleRecord
<1>7. /\ s.direction = d /\ s.sequence = sequence /\ s.from = start /\ s.to = end
      /\ s.above = above /\ s.active = g.active /\ s.transition = t /\ s.since = since
  BY <1>4
<1>8. Heeds(h, s, g)
  BY <1>5, <1>7, Zenon DEF Heeds
<1> QED
  BY <1>6, <1>7, <1>8 DEF s, g

LEMMA ProcessWindow ==
    ASSUME Typed, Abutting(meter, frame), Process
    PROVE  Halfway(Ready) \/ \E samples : Whole(Ready, samples)
<1> DEFINE m == Ready
<1>1. /\ m \in Meter /\ frame \in Nat /\ frame < WindowEnd(m) /\ WindowEnd(m) \in Nat
  BY ReadyFacts, EdgeFacts DEF Typed
<1>2. PICK part \in BOOLEAN, loud \in SUBSET Directions :
        LET gap == IF Lost THEN <<Message("gap")>> ELSE <<>>
            end == IF part THEN frame + (WindowEnd(m) - frame) \div 2 ELSE WindowEnd(m)
            done == Processed(m, end, loud)
        IN /\ frame' = end
           /\ meter' = done.meter
           /\ port' = port \o gap \o
                 (IF part THEN <<>>
                  ELSE <<[kind |-> "samples", generation |-> gate.generation,
                          samples |-> done.samples]>>)
  BY Zenon DEF Process, Ready, Lost
<1> DEFINE end == IF part THEN frame + (WindowEnd(m) - frame) \div 2 ELSE WindowEnd(m)
           done == Processed(m, end, loud)
           heard == m.loud \cup loud
           level == [d \in Directions |-> Judge(m.level[d], d \in heard, m.start)]
           more == Resumption
<1>3. port \o (IF Lost THEN <<Message("gap")>> ELSE <<>>) = more
  <2>1. port \in Seq(Notice \cup Batch)
    BY DEF Typed
  <2>2. Message("gap") \in Notice \cup Batch
    BY DEF Typed, Message, Notice
  <2>3. port \o <<Message("gap")>> = Append(port, Message("gap"))
    <3> DEFINE a == Message("gap")
               S == Notice \cup Batch
    <3> HIDE DEF a, S
    <3>1. port \in Seq(S) /\ a \in S
      BY <2>1, <2>2 DEF a, S
    <3>2. port \o <<a>> = Append(port, a)
      BY <3>1, SMT
    <3> QED
      BY <3>2 DEF a
  <2>4. port \o <<>> = port
    BY <2>1
  <2> QED
    BY <2>3, <2>4 DEF Resumption
<1>4. more \in Seq(Notice \cup Batch)
  BY DEF Typed, Message, Notice, Resumption
<1>5. /\ frame' = end /\ meter' = done.meter
      /\ port' = more \o (IF part THEN <<>>
                          ELSE <<[kind |-> "samples", generation |-> gate.generation,
                                  samples |-> done.samples]>>)
  BY <1>2, <1>3, Zenon
<1>6. heard \in SUBSET Directions /\ end \in Nat /\ frame <= end
      /\ (part => end < WindowEnd(m)) /\ (~part => end = WindowEnd(m))
  <2>1. heard \in SUBSET Directions
    BY <1>1 DEF Meter
  <2>2. ASSUME NEW w \in Nat, frame < w
        PROVE  /\ frame + (w - frame) \div 2 \in Nat /\ frame <= frame + (w - frame) \div 2
               /\ frame + (w - frame) \div 2 < w
    BY <1>1, <2>2
  <2> QED
    BY <1>1, <2>1, <2>2
<1>7. CASE part
  <2>1. meter' = [m EXCEPT !.loud = heard, !.next = end]
    BY <1>1, <1>5, <1>6, <1>7 DEF Processed
  <2>2. port' = more
    BY <1>4, <1>5, <1>7
  <2> HIDE DEF heard, m, end
  <2>3. /\ meter' \in Meter /\ meter'.next = end /\ meter'.start = m.start
        /\ meter'.origin = m.origin /\ meter'.index = m.index
        /\ meter'.sequence = m.sequence /\ meter'.level = m.level
    BY <1>1, <1>6, <2>1 DEF Meter
  <2> QED
    BY <1>5, <1>6, <1>7, <2>2, <2>3 DEF Halfway, m
<1>8. CASE ~part
  <2> DEFINE samples == [d \in Directions |-> Sample(d, m.level[d], level[d], m.start, end,
                                                      m.sequence + 1)]
             none == {}
  <2>1. ~(end < WindowEnd(m))
    BY <1>1, <1>6, <1>8
  <2>2. /\ done.meter = [m EXCEPT !.loud = {}, !.next = end, !.start = end, !.index = @ + 1,
                                  !.sequence = @ + 1, !.level = level]
        /\ done.samples = samples
    BY <2>1 DEF Processed
  <2>3. /\ m.start \in Nat /\ m.sequence \in Nat /\ m.index \in Nat \ {0} /\ m.origin \in Nat
        /\ none \in SUBSET Directions
        /\ \A d \in Directions : m.level[d] \in Level
    BY <1>1 DEF Meter, Levels
  <2>4. ASSUME NEW d \in Directions
        PROVE  /\ level[d] \in Level
               /\ samples[d] \in SampleRecord /\ samples[d].direction = d
               /\ samples[d].sequence = m.sequence + 1
               /\ samples[d].from = m.start /\ samples[d].to = end
               /\ Heeds(m.level[d], samples[d], level[d])
    <3>1. level[d] = Judge(m.level[d], d \in heard, m.start)
      OBVIOUS
    <3>2. samples[d] = Sample(d, m.level[d], level[d], m.start, end, m.sequence + 1)
      OBVIOUS
    <3>3. (d \in heard) \in BOOLEAN /\ m.sequence + 1 \in Nat
      BY <2>3
    <3> DEFINE above == d \in heard
               h == m.level[d]
    <3> HIDE DEF heard, m, level, samples, end, above
    <3>4. h \in Level /\ above \in BOOLEAN /\ level[d] = Judge(h, above, m.start)
      BY <2>3, <3>1, <3>3 DEF above
    <3> HIDE DEF h
    <3>5. Judge(h, above, m.start) \in Level
      BY <2>3, <3>4, JudgeLevel
    <3> DEFINE n == m.sequence + 1
               from == m.start
               s == Sample(d, h, Judge(h, above, from), from, end, n)
    <3>6. n \in Nat /\ from \in Nat /\ end \in Nat
      BY <1>6, <2>3
    <3> HIDE DEF n, from
    <3>7. /\ s \in SampleRecord /\ s.direction = d
          /\ s.sequence = n /\ s.from = from /\ s.to = end
          /\ Heeds(h, s, Judge(h, above, from))
      BY <3>4, <3>6, SampleFacts
    <3> QED
      BY <3>2, <3>4, <3>5, <3>7 DEF h, n, from
  <2>5. level \in Levels
    BY <2>4 DEF Levels
  <2>6. samples \in Samples
    BY <2>4 DEF Samples
  <2>7. meter' = [m EXCEPT !.loud = none, !.next = end, !.start = end, !.index = m.index + 1,
                           !.sequence = m.sequence + 1, !.level = level]
    BY <1>5, <2>2
  <2>8. port' = Append(more, [kind |-> "samples", generation |-> gate.generation,
                              samples |-> samples])
    <3> DEFINE a == [kind |-> "samples", generation |-> gate.generation, samples |-> samples]
               S == Notice \cup Batch
    <3>1. port' = more \o <<a>>
      BY <1>5, <1>8, <2>2
    <3> HIDE DEF samples
    <3>2. a \in S
      BY <2>6 DEF Typed, Batch
    <3> HIDE DEF a, S, more
    <3>3. more \in Seq(S)
      BY <1>4 DEF S
    <3>4. more \o <<a>> = Append(more, a)
      BY <3>2, <3>3, SMT
    <3> QED
      BY <3>1, <3>4 DEF a
  <2> HIDE DEF samples, level, none, end, m
  <2>9. /\ meter' \in Meter /\ meter'.next = end /\ meter'.start = end
        /\ meter'.origin = m.origin /\ meter'.index = m.index + 1
        /\ meter'.sequence = m.sequence + 1 /\ meter'.level = level
    <3>1. m.index + 1 \in Nat \ {0} /\ m.sequence + 1 \in Nat
      BY <2>3
    <3> QED
      BY <1>1, <1>6, <2>3, <2>5, <2>7, <3>1 DEF Meter
  <2>10. Whole(m, samples)
    BY <1>5, <1>6, <1>8, <2>4, <2>6, <2>8, <2>9 DEF Whole
  <2> QED
    BY <2>10 DEF m
<1> QED
  BY <1>7, <1>8
-----------------------------------------------------------------------------
(* What each action does to what is known *)

LEMMA TailFacts ==
    ASSUME NEW S, NEW q \in Seq(S), q # <<>>
    PROVE  /\ Len(q) \in Nat \ {0} /\ DOMAIN q = 1..Len(q) /\ 1 \in DOMAIN q
           /\ Head(q) = q[1] /\ Head(q) \in S
           /\ Tail(q) \in Seq(S) /\ Len(Tail(q)) = Len(q) - 1
           /\ DOMAIN Tail(q) = 1..(Len(q) - 1)
           /\ \A i \in DOMAIN Tail(q) : i + 1 \in DOMAIN q /\ Tail(q)[i] = q[i + 1]
  OBVIOUS

LEMMA AppendFacts ==
    ASSUME NEW S, NEW q \in Seq(S), NEW a \in S
    PROVE  /\ Append(q, a) \in Seq(S) /\ Append(q, a) # <<>>
           /\ Len(q) \in Nat /\ DOMAIN q = 1..Len(q) /\ Len(Append(q, a)) = Len(q) + 1
           /\ DOMAIN Append(q, a) = 1..(Len(q) + 1)
           /\ Append(q, a)[Len(q) + 1] = a
           /\ \A i \in DOMAIN q : i \in DOMAIN Append(q, a) /\ Append(q, a)[i] = q[i]
           /\ \A i \in DOMAIN Append(q, a) : i \in DOMAIN q \/ i = Len(q) + 1
  OBVIOUS

LEMMA GateKnown ==
    ASSUME NEW r, Known(r), Gate
    PROVE  Known(r)' /\ log' = log
<1> DEFINE G == [enabled: BOOLEAN, generation: Nat]
<1>1. Typed /\ r \in Reader /\ Reads(log, r) /\ Told(r) /\ Abutting(meter, frame)
  BY DEF Known
<1>2. /\ gates \in Seq(G) /\ gates # <<>> /\ gates' = Tail(gates)
      /\ gate' = [gate EXCEPT !.enabled = Head(gates).enabled,
                              !.generation = Head(gates).generation]
      /\ meter' = Reset(meter)
      /\ frame' = frame /\ port' = port /\ monitor' = monitor /\ log' = log
  BY <1>1 DEF Gate, Typed
<1>3. /\ Len(gates) \in Nat \ {0} /\ DOMAIN gates = 1..Len(gates) /\ 1 \in DOMAIN gates
      /\ Head(gates) = gates[1] /\ Head(gates) \in G
      /\ gates' \in Seq(G) /\ Len(gates') = Len(gates) - 1
      /\ DOMAIN gates' = 1..(Len(gates) - 1)
      /\ \A i \in DOMAIN gates' : i + 1 \in DOMAIN gates /\ gates'[i] = gates[i + 1]
  BY <1>2, TailFacts
<1>4. /\ gate' \in [enabled: BOOLEAN, generation: Nat, failed: BOOLEAN]
      /\ gate'.generation = gates[1].generation
  BY <1>1, <1>2, <1>3 DEF Typed
<1>5. /\ meter \in Meter /\ meter' \in Meter /\ meter'.next = None /\ meter'.index = 1
      /\ meter'.start = meter.start /\ \A d \in Directions : Idle(meter'.level[d])
  BY <1>1, <1>2, ResetMeter DEF Typed
<1>6. Typed'
  BY <1>1, <1>2, <1>3, <1>4, <1>5 DEF Typed
<1>7. Abutting(meter', frame')
  BY <1>1, <1>2, <1>5 DEF Abutting
<1>8. Open' => Generations'
  <2> SUFFICES ASSUME Open' PROVE Generations'
    OBVIOUS
  <2>1. Generations
    BY <1>2 DEF Open, Known
  <2>2. gate.generation \in Nat /\ gate'.generation = gate.generation + 1
    BY <1>1, <1>3, <1>4, <2>1 DEF Generations, Typed
  <2>3. \A i \in DOMAIN gates' : gates'[i].generation = gate'.generation + i
    <3> TAKE i \in DOMAIN gates'
    <3>1. gates'[i].generation = gate.generation + (i + 1) /\ i \in Nat
      BY <1>3, <2>1 DEF Generations
    <3> QED
      BY <2>2, <3>1
  <2>4. monitor'.generation = gate'.generation + Len(gates')
    BY <1>2, <1>3, <2>1, <2>2 DEF Generations
  <2>5. \A i \in DOMAIN port' : port'[i].generation <= gate'.generation
    <3> TAKE i \in DOMAIN port'
    <3>1. port[i].generation <= gate.generation /\ i \in DOMAIN port
      BY <1>2, <2>1 DEF Generations
    <3>2. port[i] \in Notice \cup Batch
      BY <1>1, <3>1 DEF Typed
    <3>3. port[i].generation \in Nat
      BY <3>2 DEF Notice, Batch
    <3> QED
      BY <1>2, <2>2, <3>1, <3>3
  <2> QED
    BY <2>3, <2>4, <2>5 DEF Generations
<1>9. Told(r)'
  <2>1. ~monitor.anchored => ~Open
    BY <1>1, <1>2 DEF Told
  <2>2. Open' <=> Open
    BY <1>2 DEF Open
  <2> QED
    BY <1>1, <1>2, <2>1, <2>2 DEF Told
<1> QED
  BY <1>1, <1>2, <1>6, <1>7, <1>8, <1>9 DEF Known

LEMMA SkipKnown ==
    ASSUME NEW r, Known(r), Skip
    PROVE  Known(r)' /\ log' = log
<1>1. Typed /\ r \in Reader /\ Reads(log, r) /\ Told(r) /\ Abutting(meter, frame)
  BY DEF Known
<1>2. /\ frame \in Nat /\ frame' = frame + 128 /\ gate' = gate /\ meter' = meter
      /\ gates' = gates /\ port' = port /\ monitor' = monitor /\ log' = log
  BY <1>1 DEF Skip, workletVars, Typed
<1>3. Typed'
  BY <1>1, <1>2 DEF Typed
<1>4. Abutting(meter', frame')
  <2>1. meter \in Meter
    BY <1>1 DEF Typed
  <2>2. meter.start \in Nat /\ (meter.next # None => meter.next \in Nat)
    BY <2>1 DEF Meter
  <2>3. meter.start <= frame'
    BY <1>1, <1>2, <2>2 DEF Abutting
  <2>4. ASSUME meter.next # None PROVE meter.next <= frame'
    BY <1>1, <1>2, <2>2, <2>4 DEF Abutting
  <2> QED
    BY <1>1, <1>2, <2>3, <2>4 DEF Abutting
<1>5. (Open' => Generations') /\ Told(r)'
  BY <1>2, Zenon DEF Known, Told, Open, Generations
<1> QED
  BY <1>1, <1>2, <1>3, <1>4, <1>5 DEF Known

\* What the worklet writes is of the generation of its gate.
LEMMA PortGrows ==
    ASSUME Typed, NEW a \in Notice \cup Batch, a.generation = gate.generation,
           NEW q \in Seq(Notice \cup Batch),
           \A i \in DOMAIN q : q[i].generation <= gate.generation
    PROVE  /\ Append(q, a) \in Seq(Notice \cup Batch)
           /\ \A i \in DOMAIN Append(q, a) : Append(q, a)[i].generation <= gate.generation
<1>1. gate.generation <= gate.generation
  BY DEF Typed
<1> QED
  BY <1>1, AppendFacts

LEMMA ProcessKnown ==
    ASSUME NEW r, Known(r), Process
    PROVE  Known(r)' /\ log' = log
<1>1. Typed /\ r \in Reader /\ Reads(log, r) /\ Told(r) /\ Abutting(meter, frame)
  BY DEF Known
<1>2. gate.enabled /\ gate' = gate /\ gates' = gates /\ monitor' = monitor /\ log' = log
  BY DEF Process
<1>3. Halfway(Ready) \/ \E samples : Whole(Ready, samples)
  BY <1>1, ProcessWindow
<1>4. /\ Ready \in Meter /\ Ready.start <= frame /\ frame < WindowEnd(Ready)
      /\ Ready.start = Edge(Ready, Ready.index - 1)
      /\ frame \in Nat /\ Ready.start \in Nat
  BY <1>1, ReadyFacts DEF Typed, Meter
<1>5. meter' \in Meter /\ frame' \in Nat
  BY <1>3 DEF Halfway, Whole
<1>6. /\ Resumption \in Seq(Notice \cup Batch)
      /\ Generations => \A i \in DOMAIN Resumption : Resumption[i].generation <= gate.generation
  <2>1. Message("gap") \in Notice /\ Message("gap").generation = gate.generation
    BY <1>1 DEF Message, Notice, Typed
  <2>2. port \in Seq(Notice \cup Batch)
    BY <1>1 DEF Typed
  <2> QED
    BY <1>1, <2>1, <2>2, PortGrows, AppendFacts DEF Resumption, Generations
<1>7. /\ port' \in Seq(Notice \cup Batch)
      /\ Generations => \A i \in DOMAIN port' : port'[i].generation <= gate.generation
  <2>1. CASE Halfway(Ready)
    BY <1>6, <2>1 DEF Halfway
  <2>2. ASSUME NEW samples, Whole(Ready, samples)
        PROVE  /\ port' \in Seq(Notice \cup Batch)
               /\ Generations =>
                    \A i \in DOMAIN port' : port'[i].generation <= gate.generation
    <3> DEFINE a == [kind |-> "samples", generation |-> gate.generation, samples |-> samples]
    <3>1. samples \in Samples /\ port' = Append(Resumption, a)
      BY <2>2 DEF Whole
    <3>2. a \in Notice \cup Batch /\ a.generation = gate.generation
      BY <1>1, <3>1 DEF Batch, Typed
    <3> HIDE DEF a
    <3> QED
      BY <1>1, <1>6, <3>1, <3>2, PortGrows, AppendFacts
  <2> QED
    BY <1>3, <2>1, <2>2
<1>8. Typed'
  BY <1>1, <1>2, <1>5, <1>7 DEF Typed
<1>9. Open' => Generations'
  BY <1>2, <1>7, Zenon DEF Known, Open, Generations
<1>10. Abutting(meter', frame')
  <2>1. frame' # None
    BY <1>5, NoneIsNoOther
  <2>2. CASE Halfway(Ready)
    <3>1. /\ meter'.next = frame' /\ meter'.start = Ready.start /\ meter'.index = Ready.index
          /\ frame <= frame' /\ frame' < WindowEnd(Ready)
          /\ meter'.origin = Ready.origin
      BY <2>2 DEF Halfway
    <3>2. WindowEnd(meter') = WindowEnd(Ready)
          /\ Edge(meter', meter'.index - 1) = Edge(Ready, Ready.index - 1)
      BY <3>1 DEF WindowEnd, Edge
    <3>3. Ready.start <= frame' /\ frame' <= frame'
      BY <1>4, <1>5, <3>1
    <3> QED
      BY <1>4, <2>1, <3>1, <3>2, <3>3 DEF Abutting
  <2>3. ASSUME NEW samples, Whole(Ready, samples) PROVE Abutting(meter', frame')
    <3>1. /\ meter'.next = frame' /\ meter'.start = frame' /\ meter'.index = Ready.index + 1
          /\ frame' = WindowEnd(Ready) /\ meter'.origin = Ready.origin
      BY <2>3 DEF Whole
    <3>2. Ready.index \in Nat /\ meter'.index - 1 = Ready.index
      BY <1>4, <3>1 DEF Meter
    <3>3. frame' = Edge(meter', meter'.index - 1)
      BY <1>4, <3>1, <3>2, EdgeFacts DEF Edge
    <3>4. meter'.index - 1 \in Int /\ (meter'.index - 1) + 1 = meter'.index
      BY <3>1, <3>2
    <3>5. WindowEnd(meter') >= Edge(meter', meter'.index - 1) + 160
      BY <1>5, <3>4, EdgeFacts
    <3>6. WindowEnd(meter') \in Nat
      BY <1>5, EdgeFacts
    <3>7. frame' < WindowEnd(meter') /\ frame' <= frame'
      BY <1>5, <3>3, <3>5, <3>6
    <3> QED
      BY <2>1, <3>1, <3>3, <3>7 DEF Abutting
  <2> QED
    BY <1>3, <2>2, <2>3
<1>11. Told(r)'
  <2>1. ~monitor.anchored => ~Open
    BY <1>1, <1>2 DEF Told
  <2>2. Open' <=> Open
    BY <1>2 DEF Open
  <2> QED
    BY <1>1, <1>2, <2>1, <2>2 DEF Told
<1> QED
  BY <1>1, <1>2, <1>8, <1>9, <1>10, <1>11 DEF Known

LEMMA ProcessFailsKnown ==
    ASSUME NEW r, Known(r), ProcessFails
    PROVE  Known(r)' /\ log' = log
<1>1. Typed /\ r \in Reader /\ Reads(log, r) /\ Told(r) /\ Abutting(meter, frame)
  BY DEF Known
<1>2. /\ gate.enabled /\ gate' = [gate EXCEPT !.enabled = FALSE, !.failed = TRUE]
      /\ port' = Append(port, Message("failure")) /\ gates' = gates
      /\ monitor' = monitor /\ log' = log /\ frame' = frame /\ meter' = meter
  BY DEF ProcessFails
<1>3. Message("failure") \in Notice /\ Message("failure").generation = gate.generation
  BY <1>1 DEF Message, Notice, Typed
<1>4. /\ gate' \in [enabled: BOOLEAN, generation: Nat, failed: BOOLEAN]
      /\ gate'.generation = gate.generation
  BY <1>1, <1>2 DEF Typed
<1>5. /\ port \in Seq(Notice \cup Batch) /\ port' \in Seq(Notice \cup Batch)
      /\ Generations => \A i \in DOMAIN port' : port'[i].generation <= gate.generation
  BY <1>1, <1>2, <1>3, PortGrows, AppendFacts DEF Typed, Generations
<1>6. Typed'
  BY <1>1, <1>2, <1>4, <1>5 DEF Typed
<1>7. Open' => Generations'
  BY <1>2, <1>4, <1>5, Zenon DEF Known, Open, Generations
<1>8. Told(r)'
  <2>1. ~monitor.anchored => ~Open
    BY <1>1, <1>2 DEF Told
  <2>2. Open' <=> Open
    BY <1>2 DEF Open
  <2> QED
    BY <1>1, <1>2, <2>1, <2>2 DEF Told
<1> QED
  BY <1>1, <1>2, <1>6, <1>7, <1>8 DEF Known

LEMMA SetActiveKnown ==
    ASSUME NEW r, Known(r), SetActive
    PROVE  \E q : /\ Known(q)'
                  /\ Noted(r, q, IF monitor.active THEN "paused" ELSE "measuring")
                  /\ RecordedIn(log') = RecordedIn(log) /\ gates' # <<>>
<1> DEFINE on == ~monitor.active
           status == IF on THEN "measuring" ELSE "paused"
           request == IF ~on /\ monitor.request = "sent" THEN "aborted" ELSE monitor.request
           anchored == monitor.anchored \/ on
           generation == monitor.generation + 1
           m == [monitor EXCEPT !.active = on, !.anchored = anchored,
                                !.generation = generation, !.request = request]
           message == [enabled |-> on, generation |-> generation]
           G == [enabled: BOOLEAN, generation: Nat]
<1>1. /\ Typed /\ r \in Reader /\ Reads(log, r) /\ Told(r) /\ Abutting(meter, frame)
      /\ monitor \in Monitor /\ log \in Seq(Entry)
  BY DEF Known, Typed
<1>2. /\ Open /\ monitor' = m
      /\ log' = log \o (IF on /\ ~monitor.anchored THEN <<Anchor>> ELSE <<>>)
                    \o StatusOf(m, status)
      /\ gates' = Append(gates, [enabled |-> on, generation |-> m.generation])
      /\ frame' = frame /\ gate' = gate /\ meter' = meter /\ port' = port
  BY Zenon DEF SetActive, Open, workletVars
<1>3. /\ on \in BOOLEAN /\ anchored = TRUE /\ generation \in Nat
      /\ request \in {"none", "sent", "aborted"}
      /\ status \in Statuses /\ status \in {"measuring", "paused"}
      /\ (status = "measuring") <=> on
      /\ monitor.disposed \in BOOLEAN /\ monitor.failed \in BOOLEAN
  BY <1>1 DEF Monitor, Statuses, Told
<1> HIDE DEF on, status, request, anchored, generation
<1>4. /\ m \in Monitor /\ m.active = on /\ m.anchored = TRUE /\ m.generation = generation
      /\ m.failed = monitor.failed /\ m.disposed = monitor.disposed
  BY <1>1, <1>3 DEF Monitor
<1>5. StatusOf(m, status) = <<Status(status)>>
  BY <1>4 DEF StatusOf
<1> HIDE DEF m
<1>6. \E q : /\ Noted(r, q, status)
             /\ Reads(log', q)
             /\ Grown(log, log', {})
  <2>1. CASE monitor.anchored
    <3>1. (on /\ ~monitor.anchored) = FALSE
      BY <2>1
    <3>2. log' = log \o <<>> \o <<Status(status)>>
      BY <1>2, <1>5, <3>1, Zenon
    <3>3. log \o <<>> = log
      BY <1>1
    <3>4. log \o <<Status(status)>> = Append(log, Status(status))
      BY <1>1, <1>3, EntryTypes, EntryAppend
    <3>5. log # <<>>
      BY <1>1, <2>1 DEF Told
    <3>6. log' = Append(log, Status(status))
      BY <3>2, <3>3, <3>4
    <3> QED
      BY <1>1, <1>3, <3>5, <3>6, NotedAtEnd
  <2>2. CASE ~monitor.anchored
    <3>1. (on /\ ~monitor.anchored) = TRUE
      BY <1>1, <2>2 DEF Told, on
    <3>2. log' = log \o <<Anchor>> \o <<Status(status)>>
      BY <1>2, <1>5, <3>1, Zenon
    <3>3. log = <<>> /\ r = Unread
      BY <1>1, <2>2 DEF Told
    <3> DEFINE first == Append(log, Anchor)
    <3>4. log \o <<Anchor>> = first /\ first \in Seq(Entry) /\ first # <<>>
          /\ RecordedIn(first) = RecordedIn(log)
      BY <1>1, EntryTypes, EntryAppend
    <3>5. Reads(first, Read(r, Anchor, log = <<>>))
      BY <1>1, EntryTypes, ReadsAppend
    <3>6. (log = <<>>) = TRUE
      BY <3>3
    <3>7. Reads(first, r)
      BY <3>3, <3>5, <3>6, AnchorRead, Zenon
    <3> HIDE DEF first
    <3>8. first \o <<Status(status)>> = Append(first, Status(status))
      BY <1>3, <3>4, EntryTypes, EntryAppend
    <3>9. log' = Append(first, Status(status))
      BY <3>2, <3>4, <3>8
    <3>10. \E q : /\ Noted(r, q, status)
                  /\ Reads(Append(first, Status(status)), q)
                  /\ Grown(first, Append(first, Status(status)), {})
      BY <1>1, <1>3, <3>4, <3>7, NotedAtEnd
    <3> QED
      BY <3>4, <3>9, <3>10 DEF Grown
  <2> QED
    BY <2>1, <2>2
<1>7. PICK q : Noted(r, q, status) /\ Reads(log', q) /\ Grown(log, log', {})
  BY <1>6
<1>8. /\ gates \in Seq(G) /\ message \in G /\ message.generation = generation
      /\ gates' = Append(gates, message)
  BY <1>1, <1>2, <1>3, <1>4 DEF Typed
<1> HIDE DEF message
<1>9. Typed'
  <2>1. log' \in Seq(Entry)
    BY <1>7 DEF Grown
  <2>2. gates' \in Seq(G)
    BY <1>8, AppendFacts
  <2> QED
    BY <1>1, <1>2, <1>4, <2>1, <2>2 DEF Typed
<1>10. Generations'
  <2>1. Generations
    BY <1>2 DEF Known
  <2>2. gate.generation \in Nat /\ monitor.generation \in Nat
    BY <1>1 DEF Typed, Monitor
  <2>3. /\ Len(gates) \in Nat /\ DOMAIN gates = 1..Len(gates) /\ Len(gates') = Len(gates) + 1
        /\ gates'[Len(gates) + 1] = message
        /\ \A i \in DOMAIN gates : gates'[i] = gates[i]
        /\ \A i \in DOMAIN gates' : i \in DOMAIN gates \/ i = Len(gates) + 1
    BY <1>8, AppendFacts
  <2>4. generation = gate.generation + (Len(gates) + 1)
    <3>1. monitor.generation = gate.generation + Len(gates)
      BY <2>1 DEF Generations
    <3> QED
      BY <2>2, <2>3, <3>1 DEF generation
  <2>5. \A i \in DOMAIN gates' : gates'[i].generation = gate'.generation + i
    <3> TAKE i \in DOMAIN gates'
    <3>1. CASE i \in DOMAIN gates
      BY <1>2, <2>1, <2>3, <3>1 DEF Generations
    <3>2. CASE i = Len(gates) + 1
      BY <1>2, <1>8, <2>3, <2>4, <3>2
    <3> QED
      BY <2>3, <3>1, <3>2
  <2> QED
    BY <1>2, <1>4, <2>1, <2>3, <2>4, <2>5 DEF Generations
<1>11. Told(q)'
  <2>1. /\ q.status = status /\ q.in = r.in /\ (status # "measuring" => q.gap)
        /\ q.segment = IF status = "measuring" THEN r.segment + 1 ELSE r.segment
    BY <1>7 DEF Noted
  <2>2. /\ log' # <<>> /\ monitor'.anchored /\ (monitor'.active <=> on)
        /\ (Open' <=> Open)
    BY <1>2, <1>4, <1>7 DEF Grown, Open
  <2>3. \A d \in Directions : r.in[d] <= r.segment /\ r.in[d] \in Nat /\ r.segment \in Nat
    BY <1>1 DEF Told, Reader
  <2>4. \A d \in Directions : q.in[d] <= q.segment /\ (on => q.in[d] < q.segment)
    BY <1>3, <2>1, <2>3
  <2>5. q.status \notin {"closed", "error"} /\ (on => q.status = "measuring")
        /\ (~on => q.gap)
    BY <1>3, <2>1
  <2> QED
    BY <1>2, <2>2, <2>4, <2>5 DEF Told
<1>12. Known(q)'
  <2>1. q \in Reader
    BY <1>7 DEF Noted
  <2> QED
    BY <1>1, <1>2, <1>7, <1>9, <1>10, <1>11, <2>1 DEF Known
<1>13. RecordedIn(log') = RecordedIn(log)
  BY <1>7 DEF Grown
<1>14. Noted(r, q, IF monitor.active THEN "paused" ELSE "measuring")
  BY <1>3, <1>7 DEF status, on
<1>15. gates' # <<>>
  BY <1>8, AppendFacts
<1> QED
  BY <1>12, <1>13, <1>14, <1>15

\* The cases of receive.
Taken ==
    /\ port # <<>> /\ port' = Tail(port)
    /\ frame' = frame /\ gate' = gate /\ meter' = meter /\ gates' = gates

Dropped ==
    /\ Taken /\ monitor' = monitor /\ log' = log
    /\ Open => Head(port).kind # "failure" /\ ~Accepts(Head(port))

Collapsed ==
    /\ Taken /\ Open /\ Head(port).kind = "failure"
    /\ monitor' = Failed(monitor) /\ log' = log \o StatusOf(monitor, "error")

Interrupted ==
    /\ Taken /\ Open /\ Accepts(Head(port)) /\ Head(port).kind = "gap"
    /\ monitor' = monitor /\ log' = log \o <<Status("paused"), Status("measuring")>>

Heard ==
    /\ Taken /\ Open /\ Accepts(Head(port)) /\ Head(port).kind = "samples"
    /\ log' = log \o Flat(Head(port).samples)
    /\ monitor' \in {monitor, [monitor EXCEPT !.request = "sent"]}

LEMMA ReceiveCases ==
    ASSUME Typed, Receive
    PROVE  Dropped \/ Collapsed \/ Interrupted \/ Heard
<1>1. Taken
  BY DEF Receive, Taken, workletVars
<1>2. Head(port).kind \in {"gap", "failure", "samples"}
  <2>1. Head(port) \in Notice \cup Batch
    BY <1>1, TailFacts DEF Taken, Typed
  <2> QED
    BY <2>1 DEF Notice, Batch
<1>3. CASE ~Open
  BY <1>1, <1>3 DEF Receive, Open, Dropped
<1>4. CASE Open /\ Head(port).kind = "failure"
  BY <1>1, <1>4 DEF Receive, Open, Collapsed
<1>5. CASE Open /\ Head(port).kind # "failure" /\ ~Accepts(Head(port))
  BY <1>1, <1>5 DEF Receive, Open, Dropped
<1>6. CASE Open /\ Accepts(Head(port)) /\ Head(port).kind = "gap"
  BY <1>1, <1>6 DEF Receive, Open, Interrupted
<1>7. CASE Open /\ Accepts(Head(port)) /\ Head(port).kind = "samples"
  BY <1>1, <1>7 DEF Receive, Open, Heard
<1> QED
  BY <1>2, <1>3, <1>4, <1>5, <1>6, <1>7

LEMMA TakenFacts ==
    ASSUME Typed, Taken
    PROVE  /\ Len(port) \in Nat \ {0} /\ DOMAIN port = 1..Len(port) /\ 1 \in DOMAIN port
           /\ Head(port) = port[1] /\ Head(port) \in Notice \cup Batch
           /\ port' \in Seq(Notice \cup Batch) /\ Len(port') = Len(port) - 1
           /\ DOMAIN port' = 1..(Len(port) - 1)
           /\ \A i \in DOMAIN port' : i + 1 \in DOMAIN port /\ port'[i] = port[i + 1]
           /\ Generations =>
                /\ \A i \in DOMAIN port' : port'[i].generation <= gate.generation
                /\ Head(port).generation <= gate.generation
<1>1. port \in Seq(Notice \cup Batch) /\ port # <<>> /\ port' = Tail(port)
  BY DEF Typed, Taken
<1>2. /\ Len(port) \in Nat \ {0} /\ DOMAIN port = 1..Len(port) /\ 1 \in DOMAIN port
      /\ Head(port) = port[1] /\ Head(port) \in Notice \cup Batch
      /\ port' \in Seq(Notice \cup Batch) /\ Len(port') = Len(port) - 1
      /\ DOMAIN port' = 1..(Len(port) - 1)
      /\ \A i \in DOMAIN port' : i + 1 \in DOMAIN port /\ port'[i] = port[i + 1]
  BY <1>1, TailFacts
<1>3. Generations =>
        /\ \A i \in DOMAIN port' : port'[i].generation <= gate.generation
        /\ Head(port).generation <= gate.generation
  BY <1>2 DEF Generations
<1> QED
  BY <1>2, <1>3

\* With a gate message under way nothing on the port is of the monitor's generation.
LEMMA AcceptedIsCurrent ==
    ASSUME NEW r, Known(r), Taken, Open, Accepts(Head(port))
    PROVE  gates = <<>> /\ monitor.active /\ Head(port).generation = monitor.generation
<1>1. Typed /\ Generations
  BY DEF Known
<1>2. monitor.active /\ Head(port).generation = monitor.generation
  BY DEF Accepts
<1>3. Head(port).generation <= gate.generation
  BY <1>1, TakenFacts
<1>4. monitor.generation = gate.generation + Len(gates) /\ gate.generation \in Nat
  BY <1>1 DEF Generations, Typed
<1>5. gates \in Seq([enabled: BOOLEAN, generation: Nat])
  BY <1>1 DEF Typed
<1>6. Len(gates) \in Nat /\ (Len(gates) = 0 => gates = <<>>)
  BY <1>5
<1> QED
  BY <1>2, <1>3, <1>4, <1>6

\* What a message leaves as it was.
LEMMA TakenKnown ==
    ASSUME NEW r, Known(r), Taken, log' \in Seq(Entry),
           monitor' \in {monitor, [monitor EXCEPT !.request = "sent"]}
    PROVE  /\ Typed' /\ (Open' => Generations') /\ Abutting(meter', frame')
           /\ monitor'.active = monitor.active /\ monitor'.anchored = monitor.anchored
           /\ monitor'.generation = monitor.generation /\ (Open' <=> Open)
<1>1. Typed /\ Abutting(meter, frame) /\ monitor \in Monitor
  BY DEF Known, Typed
<1>2. /\ monitor' \in Monitor
      /\ monitor'.active = monitor.active /\ monitor'.anchored = monitor.anchored
      /\ monitor'.generation = monitor.generation
      /\ monitor'.failed = monitor.failed /\ monitor'.disposed = monitor.disposed
  BY <1>1 DEF Monitor
<1>3. frame' = frame /\ gate' = gate /\ meter' = meter /\ gates' = gates
  BY DEF Taken
<1>4. Typed'
  BY <1>1, <1>2, <1>3, TakenFacts DEF Typed
<1>5. Open' => Generations'
  BY <1>1, <1>2, <1>3, TakenFacts, Zenon DEF Known, Open, Generations
<1> QED
  BY <1>1, <1>2, <1>3, <1>4, <1>5 DEF Open

LEMMA DroppedKnown ==
    ASSUME NEW r, Known(r), Dropped
    PROVE  Known(r)' /\ log' = log
<1>1. Taken /\ log' = log /\ monitor' = monitor /\ gates' = gates /\ gate' = gate /\ port # <<>>
  BY DEF Dropped, Taken
<1>2. Typed /\ r \in Reader /\ Reads(log, r) /\ Told(r)
  BY DEF Known
<1>3. Typed' /\ (Open' => Generations') /\ Abutting(meter', frame') /\ (Open' <=> Open)
  BY <1>1, <1>2, TakenKnown DEF Typed
<1>4. Told(r)'
  <2>1. ~monitor.anchored => ~Open
    BY <1>1, <1>2 DEF Told
  <2> QED
    BY <1>1, <1>2, <1>3, <2>1 DEF Told
<1> QED
  BY <1>1, <1>2, <1>3, <1>4 DEF Known

\* A session that has failed is told of no more.
LEMMA ClosingKnown ==
    ASSUME NEW r, Known(r), NEW status \in {"error", "closed"}, ~Open', Typed',
           Abutting(meter', frame'),
           monitor'.active = FALSE, monitor'.anchored = monitor.anchored,
           log' = log \o StatusOf(monitor, status)
    PROVE  \E q : /\ Known(q)' /\ RecordedIn(log') = RecordedIn(log)
                  /\ q = r \/ Noted(r, q, status)
<1>1. Typed /\ r \in Reader /\ Reads(log, r) /\ Told(r) /\ (monitor.anchored <=> log # <<>>)
  BY DEF Known, Told
<1>2. status \in Statuses
  BY DEF Statuses
<1>3. PICK q \in Reader :
        /\ Reads(log', q)
        /\ RecordedIn(log') = RecordedIn(log)
        /\ monitor.anchored => Noted(r, q, status) /\ log' # <<>>
        /\ ~monitor.anchored => q = r /\ log' = <<>>
  BY <1>1, <1>2, StatusOfRead
<1>4. Told(q)'
  <2>1. monitor'.anchored <=> log' # <<>>
    BY <1>3
  <2>2. ~monitor'.anchored => q = Unread
    BY <1>1, <1>3 DEF Told
  <2>3. q.in = r.in /\ q.segment = r.segment
    BY <1>3 DEF Noted
  <2>4. \A d \in Directions : q.in[d] <= q.segment
    BY <1>1, <2>3 DEF Told
  <2> QED
    BY <2>1, <2>2, <2>4 DEF Told
<1> QED
  BY <1>3, <1>4 DEF Known

LEMMA FailedMonitor ==
    ASSUME monitor \in Monitor
    PROVE  /\ Failed(monitor) \in Monitor
           /\ Failed(monitor).failed /\ Failed(monitor).active = FALSE
           /\ Failed(monitor).anchored = monitor.anchored
           /\ [Failed(monitor) EXCEPT !.request = "none"] \in Monitor
           /\ [Failed(monitor) EXCEPT !.request = "none"].failed
           /\ [Failed(monitor) EXCEPT !.request = "none"].active = FALSE
           /\ [Failed(monitor) EXCEPT !.request = "none"].anchored = monitor.anchored
<1> DEFINE request == Abandoned(monitor.request)
<1>1. request \in {"none", "sent", "aborted"}
  BY DEF Abandoned, Monitor
<1>2. Failed(monitor) = [monitor EXCEPT !.failed = TRUE, !.active = FALSE, !.request = request]
  BY DEF Failed
<1> HIDE DEF request
<1>3. /\ Failed(monitor) \in Monitor
      /\ Failed(monitor).failed = TRUE /\ Failed(monitor).active = FALSE
      /\ Failed(monitor).anchored = monitor.anchored
  BY <1>1, <1>2 DEF Monitor
<1> QED
  BY <1>3 DEF Monitor

LEMMA CollapsedKnown ==
    ASSUME NEW r, Known(r), Collapsed
    PROVE  \E q : /\ Known(q)' /\ RecordedIn(log') = RecordedIn(log) /\ monitor'.failed
                  /\ r.gap => q.gap
<1>1. /\ Taken /\ monitor' = Failed(monitor) /\ log' = log \o StatusOf(monitor, "error")
      /\ frame' = frame /\ gate' = gate /\ meter' = meter /\ gates' = gates
  BY DEF Collapsed, Taken
<1>2. Typed /\ Abutting(meter, frame) /\ monitor \in Monitor
  BY DEF Known, Typed
<1>3. /\ monitor' \in Monitor /\ monitor'.failed /\ monitor'.active = FALSE
      /\ monitor'.anchored = monitor.anchored
  BY <1>1, <1>2, FailedMonitor
<1>4. log' \in Seq(Entry)
  BY <1>1, <1>2, StatusOfRead DEF Known, Told, Statuses
<1>5. Typed'
  BY <1>1, <1>2, <1>3, <1>4, TakenFacts DEF Typed
<1>6. ~Open' /\ Abutting(meter', frame')
  BY <1>1, <1>2, <1>3 DEF Open
<1> QED
  BY <1>1, <1>3, <1>5, <1>6, ClosingKnown DEF Noted

LEMMA InterruptedKnown ==
    ASSUME NEW r, Known(r), Interrupted
    PROVE  \E p, q : /\ Known(q)' /\ RecordedIn(log') = RecordedIn(log)
                     /\ Noted(r, p, "paused") /\ Noted(p, q, "measuring")
<1>1. /\ Taken /\ Open /\ Accepts(Head(port)) /\ monitor' = monitor /\ gates' = gates
      /\ log' = log \o <<Status("paused"), Status("measuring")>>
  BY DEF Interrupted, Taken
<1>2. Typed /\ r \in Reader /\ Reads(log, r) /\ Told(r) /\ log \in Seq(Entry)
  BY DEF Known, Typed
<1>3. gates = <<>> /\ monitor.active /\ monitor.anchored /\ log # <<>>
  BY <1>1, <1>2, AcceptedIsCurrent DEF Told
<1> DEFINE a == Status("paused")
           b == Status("measuring")
           first == Append(log, a)
<1>4. a \in Entry /\ b \in Entry
  BY EntryTypes DEF Statuses
<1>5. log' = Append(first, b)
  <2> HIDE DEF a, b
  <2>1. \A S : log \in Seq(S) /\ a \in S /\ b \in S
                 => log \o <<a, b>> = Append(Append(log, a), b)
    BY SMT
  <2>2. log' = log \o <<a, b>>
    BY <1>1 DEF a, b
  <2> QED
    BY <1>2, <1>4, <2>1, <2>2
<1>6. PICK p : Noted(r, p, "paused") /\ Reads(first, p) /\ Grown(log, first, {})
  BY <1>2, <1>3, NotedAtEnd DEF Statuses
<1>7. p \in Reader /\ first \in Seq(Entry) /\ first # <<>> /\ RecordedIn(first) = RecordedIn(log)
  BY <1>6 DEF Noted, Grown
<1> HIDE DEF first
<1>8. PICK q : Noted(p, q, "measuring") /\ Reads(log', q) /\ Grown(first, log', {})
  BY <1>5, <1>6, <1>7, NotedAtEnd DEF Statuses
<1>9. q \in Reader /\ log' \in Seq(Entry) /\ log' # <<>> /\ RecordedIn(log') = RecordedIn(log)
  BY <1>7, <1>8 DEF Noted, Grown
<1>10. Typed' /\ (Open' => Generations') /\ Abutting(meter', frame')
  BY <1>1, <1>9, TakenKnown
<1>11. Told(q)'
  <2>1. q.status = "measuring" /\ q.in = r.in /\ q.segment = r.segment + 1
    BY <1>6, <1>8 DEF Noted
  <2>2. \A d \in Directions : r.in[d] <= r.segment /\ r.in[d] \in Nat /\ r.segment \in Nat
    BY <1>2 DEF Told, Reader
  <2>3. \A d \in Directions : q.in[d] < q.segment /\ q.in[d] <= q.segment
    BY <2>1, <2>2
  <2>4. Open'
    BY <1>1 DEF Open
  <2> QED
    BY <1>1, <1>3, <1>9, <2>1, <2>3, <2>4 DEF Told
<1> QED
  BY <1>6, <1>8, <1>9, <1>10, <1>11 DEF Known

LEMMA HeardKnown ==
    ASSUME NEW r, Known(r), Heard
    PROVE  \E q : /\ Known(q)'
                  /\ Took(r, q, Head(port).samples, Directions)
                  /\ RecordedIn(log') =
                       RecordedIn(log) \cup {Head(port).samples[d] : d \in Directions}
<1> DEFINE samples == Head(port).samples
<1>1. /\ Taken /\ Open /\ Accepts(Head(port)) /\ log' = log \o Flat(samples)
      /\ monitor' \in {monitor, [monitor EXCEPT !.request = "sent"]} /\ gates' = gates
  BY DEF Heard, Taken
<1>2. Typed /\ r \in Reader /\ Reads(log, r) /\ Told(r) /\ log \in Seq(Entry)
  BY DEF Known, Typed
<1>3. gates = <<>> /\ monitor.active /\ monitor.anchored /\ log # <<>>
  BY <1>1, <1>2, AcceptedIsCurrent DEF Told
<1>4. samples \in Samples
  <2>1. Head(port) \in Notice \cup Batch /\ Head(port).kind = "samples"
    BY <1>1, <1>2, TakenFacts DEF Heard
  <2> QED
    BY <2>1 DEF Notice, Batch
<1> HIDE DEF samples
<1>5. PICK q : /\ Took(r, q, samples, Directions)
               /\ Reads(log', q)
               /\ Grown(log, log', {samples[d] : d \in Directions})
  BY <1>1, <1>2, <1>3, <1>4, FlatAtEnd
<1>6. q \in Reader /\ log' \in Seq(Entry) /\ log' # <<>>
  BY <1>5 DEF Took, Grown
<1>7. /\ Typed' /\ (Open' => Generations') /\ Abutting(meter', frame')
      /\ monitor'.active = monitor.active /\ monitor'.anchored = monitor.anchored
      /\ (Open' <=> Open)
  BY <1>1, <1>6, TakenKnown
<1>8. Told(q)'
  <2>1. q.status = r.status /\ q.segment = r.segment
        /\ \A d \in Directions : q.in[d] = r.segment
    BY <1>5 DEF Took
  <2>2. r.status = "measuring" /\ r.segment \in Nat
    BY <1>2, <1>3 DEF Told, Reader
  <2> QED
    BY <1>1, <1>3, <1>6, <1>7, <2>1, <2>2 DEF Told
<1> QED
  BY <1>5, <1>6, <1>7, <1>8 DEF Known, Grown, samples

LEMMA NotifiedKnown ==
    ASSUME NEW r, Known(r), Notified
    PROVE  \/ Known(r)' /\ log' = log
           \/ \E q : /\ Known(q)' /\ RecordedIn(log') = RecordedIn(log) /\ monitor'.failed
                     /\ r.gap => q.gap
<1>1. /\ frame' = frame /\ gate' = gate /\ meter' = meter /\ gates' = gates /\ port' = port
      /\ \/ monitor' = [monitor EXCEPT !.request = "none"] /\ log' = log
         \/ /\ monitor' = [Failed(monitor) EXCEPT !.request = "none"]
            /\ log' = log \o StatusOf(monitor, "error")
  BY DEF Notified, workletVars
<1>2. /\ Typed /\ Abutting(meter, frame) /\ monitor \in Monitor
      /\ r \in Reader /\ Reads(log, r) /\ Told(r)
  BY DEF Known, Typed
<1>3. CASE monitor' = [monitor EXCEPT !.request = "none"] /\ log' = log
  <2>1. /\ monitor' \in Monitor
        /\ monitor'.active = monitor.active /\ monitor'.anchored = monitor.anchored
        /\ monitor'.generation = monitor.generation
        /\ monitor'.failed = monitor.failed /\ monitor'.disposed = monitor.disposed
    BY <1>2, <1>3 DEF Monitor
  <2>2. Typed'
    BY <1>1, <1>2, <1>3, <2>1 DEF Typed
  <2>3. Open' <=> Open
    BY <2>1 DEF Open
  <2>4. (Open' => Generations') /\ Told(r)'
    BY <1>1, <1>3, <2>1, <2>3, Zenon DEF Known, Generations, Told
  <2> QED
    BY <1>1, <1>2, <1>3, <2>2, <2>4 DEF Known
<1>4. CASE /\ monitor' = [Failed(monitor) EXCEPT !.request = "none"]
           /\ log' = log \o StatusOf(monitor, "error")
  <2>1. /\ monitor' \in Monitor /\ monitor'.failed /\ monitor'.active = FALSE
        /\ monitor'.anchored = monitor.anchored
    BY <1>2, <1>4, FailedMonitor
  <2>2. log' \in Seq(Entry)
    BY <1>2, <1>4, StatusOfRead DEF Told, Statuses
  <2>3. Typed' /\ ~Open' /\ Abutting(meter', frame')
    BY <1>1, <1>2, <2>1, <2>2 DEF Typed, Open
  <2> QED
    BY <1>4, <2>1, <2>3, ClosingKnown DEF Noted
<1> QED
  BY <1>1, <1>3, <1>4

LEMMA DisposeKnown ==
    ASSUME NEW r, Known(r), Dispose
    PROVE  \E q : /\ Known(q)' /\ RecordedIn(log') = RecordedIn(log)
                  /\ q = r \/ Noted(r, q, "closed")
                  /\ ~Open' /\ monitor'.failed = monitor.failed
<1> DEFINE request == Abandoned(monitor.request)
<1>1. /\ frame' = frame /\ meter' = meter /\ gates' = <<>> /\ port' = <<>>
      /\ monitor' = [monitor EXCEPT !.disposed = TRUE, !.active = FALSE, !.request = request]
      /\ gate' = [gate EXCEPT !.enabled = FALSE, !.failed = TRUE]
      /\ log' = log \o StatusOf(monitor, "closed")
  BY DEF Dispose
<1>2. /\ Typed /\ Abutting(meter, frame) /\ monitor \in Monitor
      /\ r \in Reader /\ Reads(log, r) /\ Told(r)
  BY DEF Known, Typed
<1>3. request \in {"none", "sent", "aborted"}
  BY <1>2 DEF Abandoned, Monitor
<1> HIDE DEF request
<1>4. /\ monitor' \in Monitor /\ monitor'.disposed /\ monitor'.active = FALSE
      /\ monitor'.anchored = monitor.anchored /\ monitor'.failed = monitor.failed
  BY <1>1, <1>2, <1>3 DEF Monitor
<1>5. log' \in Seq(Entry)
  BY <1>1, <1>2, StatusOfRead DEF Told, Statuses
<1>6. gate' \in [enabled: BOOLEAN, generation: Nat, failed: BOOLEAN]
  BY <1>1, <1>2 DEF Typed
<1>7. /\ gates' \in Seq([enabled: BOOLEAN, generation: Nat])
      /\ port' \in Seq(Notice \cup Batch)
  BY <1>1
<1>8. Typed' /\ ~Open' /\ Abutting(meter', frame')
  BY <1>1, <1>2, <1>4, <1>5, <1>6, <1>7 DEF Typed, Open
<1> QED
  BY <1>1, <1>4, <1>8, ClosingKnown
-----------------------------------------------------------------------------
(* The windows keep the time *)

\* Of the messages q on their way, those of generation g: a gap, samples, and the
\* samples before which no gap is announced.
Gap(message, g) == message.kind = "gap" /\ message.generation = g
Windows(message, g) == message.kind = "samples" /\ message.generation = g
Broken(q, g) == \E i \in DOMAIN q : Gap(q[i], g)
Coming(q, g) == \E i \in DOMAIN q : Windows(q[i], g)
Unbroken(q, g) ==
    {q[i] : i \in {j \in DOMAIN q : /\ Windows(q[j], g)
                                    /\ \A h \in DOMAIN q : Gap(q[h], g) => h > j}}

Placed(s, o, k) == s.to = o + (2 * (s.sequence - k) * Rate + 50) \div 100

\* One run of the meter, from frame o on, whose windows are counted from k.
InTime(o, k) ==
    /\ \A b \in Unbroken(port, monitor.generation) :
         \A d \in Directions : Placed(b.samples[d], o, k)
    /\ ~Broken(port, monitor.generation) /\ gates = <<>> /\ meter.next # None =>
         meter.origin = o /\ meter.sequence + 1 - meter.index = k
    /\ ~Broken(port, monitor.generation) /\ (gates # <<>> \/ meter.next = None) =>
         RecordedIn(log) = {} /\ ~Coming(port, monitor.generation)

\* A record without gaps is one run of the meter.
Timed(r) ==
    ~r.gap => \E o, k \in Int :
                /\ \A s \in RecordedIn(log) : Placed(s, o, k)
                /\ Open => InTime(o, k)

LEMMA AppendedMessage ==
    ASSUME NEW q \in Seq(Notice \cup Batch), NEW a \in Notice \cup Batch, NEW g
    PROVE  LET t == Append(q, a) IN
           /\ Broken(t, g) <=> Broken(q, g) \/ Gap(a, g)
           /\ Coming(t, g) <=> Coming(q, g) \/ Windows(a, g)
           /\ \A b \in Unbroken(t, g) :
                b \in Unbroken(q, g) \/ (b = a /\ Windows(a, g) /\ ~Broken(q, g))
<1> DEFINE t == Append(q, a)
           l == Len(q)
<1>1. /\ l \in Nat /\ DOMAIN q = 1..l /\ DOMAIN t = 1..(l + 1) /\ t[l + 1] = a
      /\ \A i \in DOMAIN q : i \in DOMAIN t /\ t[i] = q[i]
      /\ \A i \in DOMAIN t : i \in DOMAIN q \/ i = l + 1
  BY AppendFacts
<1>2. l + 1 \in DOMAIN t
  BY <1>1
<1> HIDE DEF t
<1>3. Broken(t, g) <=> Broken(q, g) \/ Gap(a, g)
  BY <1>1, <1>2 DEF Broken
<1>4. Coming(t, g) <=> Coming(q, g) \/ Windows(a, g)
  BY <1>1, <1>2 DEF Coming
<1>5. ASSUME NEW b \in Unbroken(t, g)
      PROVE  b \in Unbroken(q, g) \/ (b = a /\ Windows(a, g) /\ ~Broken(q, g))
  <2>1. PICK j \in DOMAIN t : /\ b = t[j] /\ Windows(t[j], g)
                              /\ \A h \in DOMAIN t : Gap(t[h], g) => h > j
    BY <1>5 DEF Unbroken
  <2>2. CASE j \in DOMAIN q
    <3>1. /\ b = q[j] /\ Windows(q[j], g)
          /\ \A h \in DOMAIN q : Gap(q[h], g) => h > j
      BY <1>1, <2>1, <2>2
    <3> QED
      BY <2>2, <3>1 DEF Unbroken
  <2>3. CASE j = l + 1
    <3>1. ASSUME Broken(q, g) PROVE FALSE
      <4>1. PICK h \in DOMAIN q : Gap(q[h], g)
        BY <3>1 DEF Broken
      <4>2. h > l + 1
        BY <1>1, <2>1, <2>3, <4>1
      <4> QED
        BY <1>1, <4>2
    <3> QED
      BY <1>1, <2>1, <2>3, <3>1
  <2> QED
    BY <1>1, <2>1, <2>2, <2>3
<1> QED
  BY <1>3, <1>4, <1>5 DEF t

LEMMA TakenMessage ==
    ASSUME Typed, Taken, NEW g
    PROVE  /\ ~Gap(Head(port), g) =>
                /\ Broken(port', g) <=> Broken(port, g)
                /\ Unbroken(port', g) \subseteq Unbroken(port, g)
           /\ Coming(port', g) => Coming(port, g)
           /\ Windows(Head(port), g) => Head(port) \in Unbroken(port, g) /\ Coming(port, g)
<1> DEFINE l == Len(port)
<1>1. /\ l \in Nat \ {0} /\ DOMAIN port = 1..l /\ 1 \in DOMAIN port
      /\ Head(port) = port[1] /\ DOMAIN port' = 1..(l - 1)
      /\ \A i \in DOMAIN port' : i + 1 \in DOMAIN port /\ port'[i] = port[i + 1]
  BY TakenFacts
<1> HIDE DEF l
<1>2. \A i \in DOMAIN port : i = 1 \/ (i - 1 \in DOMAIN port' /\ port'[i - 1] = port[i])
  <2> TAKE i \in DOMAIN port
  <2>1. i = 1 \/ (i - 1 \in DOMAIN port' /\ (i - 1) + 1 = i)
    BY <1>1
  <2> QED
    BY <1>1, <2>1
<1>3. Coming(port', g) => Coming(port, g)
  BY <1>1 DEF Coming
<1>4. ASSUME ~Gap(Head(port), g)
      PROVE  /\ Broken(port', g) <=> Broken(port, g)
             /\ Unbroken(port', g) \subseteq Unbroken(port, g)
  <2>1. Broken(port', g) => Broken(port, g)
    BY <1>1 DEF Broken
  <2>2. Broken(port, g) => Broken(port', g)
    BY <1>1, <1>2, <1>4 DEF Broken
  <2>3. ASSUME NEW b \in Unbroken(port', g) PROVE b \in Unbroken(port, g)
    <3>1. PICK j \in DOMAIN port' : /\ b = port'[j] /\ Windows(port'[j], g)
                                    /\ \A h \in DOMAIN port' : Gap(port'[h], g) => h > j
      BY <2>3 DEF Unbroken
    <3>2. /\ j + 1 \in DOMAIN port /\ b = port[j + 1] /\ Windows(port[j + 1], g)
      BY <1>1, <3>1
    <3>3. ASSUME NEW h \in DOMAIN port, Gap(port[h], g) PROVE h > j + 1
      <4>1. h - 1 \in DOMAIN port' /\ port'[h - 1] = port[h]
        BY <1>1, <1>2, <1>4, <3>3
      <4>2. h - 1 > j
        BY <3>1, <3>3, <4>1
      <4> QED
        BY <1>1, <4>2
    <3> QED
      BY <3>2, <3>3 DEF Unbroken
  <2> QED
    BY <2>1, <2>2, <2>3
<1>5. ASSUME Windows(Head(port), g)
      PROVE  Head(port) \in Unbroken(port, g) /\ Coming(port, g)
  <2>1. ~Gap(port[1], g)
    BY <1>1, <1>5 DEF Windows, Gap
  <2>2. \A h \in DOMAIN port : Gap(port[h], g) => h > 1
    BY <1>1, <2>1
  <2> QED
    BY <1>1, <1>5, <2>2 DEF Unbroken, Coming
<1> QED
  BY <1>3, <1>4, <1>5

LEMMA NothingComing ==
    ASSUME NEW q, NEW g, ~Coming(q, g)
    PROVE  Unbroken(q, g) = {}
BY DEF Coming, Unbroken

\* After a call of process the run is that of the meter, unless a gap is announced.
LEMMA TimedProcess ==
    ASSUME NEW r, Known(r), Timed(r), Process
    PROVE  Timed(r)'
<1> DEFINE g == monitor.generation
           M == Notice \cup Batch
<1>1. /\ Typed /\ Abutting(meter, frame) /\ port \in Seq(M) /\ meter \in Meter
      /\ gate.generation \in Nat /\ gates \in Seq([enabled: BOOLEAN, generation: Nat])
  BY DEF Known, Typed
<1>2. gates' = gates /\ monitor' = monitor /\ log' = log
  BY DEF Process
<1> SUFFICES ASSUME ~r.gap, Open
             PROVE  \E o, k \in Int :
                      /\ \A s \in RecordedIn(log) : Placed(s, o, k)
                      /\ InTime(o, k)'
  BY <1>2 DEF Timed, Open
<1>3. PICK o \in Int, k \in Int :
        (\A s \in RecordedIn(log) : Placed(s, o, k)) /\ InTime(o, k)
  BY DEF Timed
<1>4. Generations
  BY DEF Known
<1>5. (gates = <<>>) <=> gate.generation = g
  <2>1. g = gate.generation + Len(gates)
    BY <1>4 DEF Generations
  <2>2. Len(gates) \in Nat /\ (gates = <<>> <=> Len(gates) = 0)
    BY <1>1
  <2> QED
    BY <1>1, <2>1, <2>2
<1>6. Halfway(Ready) \/ \E samples : Whole(Ready, samples)
  BY <1>1, ProcessWindow
<1>7. /\ Message("gap") \in M /\ Message("gap").generation = gate.generation
      /\ Message("gap").kind = "gap"
  BY <1>1 DEF Message, Notice
<1>8. /\ Resumption \in Seq(M)
      /\ Broken(Resumption, g) <=> Broken(port, g) \/ (Lost /\ gates = <<>>)
      /\ Coming(Resumption, g) <=> Coming(port, g)
      /\ Unbroken(Resumption, g) \subseteq Unbroken(port, g)
  <2>1. ~Windows(Message("gap"), g) /\ (Gap(Message("gap"), g) <=> gates = <<>>)
    BY <1>5, <1>7 DEF Windows, Gap
  <2>2. CASE Lost
    <3>1. Resumption = Append(port, Message("gap"))
      BY <2>2 DEF Resumption
    <3> QED
      BY <1>1, <1>7, <2>1, <2>2, <3>1, AppendFacts, AppendedMessage
  <2>3. CASE ~Lost
    BY <1>1, <2>3 DEF Resumption
  <2> QED
    BY <2>2, <2>3
<1>9. meter'.next # None
  <2>1. frame' \in Nat /\ meter'.next = frame'
    BY <1>6 DEF Halfway, Whole
  <2> QED
    BY <2>1, NoneIsNoOther
\* the samples of this call, if there are any
<1> DEFINE Continues ==
      /\ Broken(port', g) <=> Broken(Resumption, g)
      /\ gates # <<>> => (Coming(port', g) <=> Coming(port, g))
      /\ \A b \in Unbroken(port', g) :
           \/ b \in Unbroken(port, g)
           \/ /\ ~Broken(Resumption, g) /\ gates = <<>>
              /\ \A d \in Directions : /\ b.samples[d].sequence = Ready.sequence + 1
                                       /\ b.samples[d].to = WindowEnd(Ready)
      /\ meter'.origin = Ready.origin
      /\ meter'.sequence + 1 - meter'.index = Ready.sequence + 1 - Ready.index
<1>10. Continues
  <2>1. Ready \in Meter
    BY <1>1, ReadyFacts
  <2>2. Ready.sequence \in Nat /\ Ready.index \in Nat
    BY <2>1 DEF Meter
  <2>3. CASE Halfway(Ready)
    <3>1. /\ port' = Resumption /\ meter'.origin = Ready.origin
          /\ meter'.sequence = Ready.sequence /\ meter'.index = Ready.index
      BY <2>3 DEF Halfway
    <3> QED
      BY <1>8, <3>1
  <2>4. ASSUME NEW samples, Whole(Ready, samples) PROVE Continues
    <3> DEFINE a == [kind |-> "samples", generation |-> gate.generation, samples |-> samples]
    <3>1. /\ samples \in Samples /\ port' = Append(Resumption, a)
          /\ meter'.origin = Ready.origin
          /\ meter'.sequence = Ready.sequence + 1 /\ meter'.index = Ready.index + 1
          /\ \A d \in Directions : /\ samples[d].sequence = Ready.sequence + 1
                                   /\ samples[d].to = WindowEnd(Ready)
      BY <2>4 DEF Whole
    <3>2. /\ a \in M /\ a.samples = samples
          /\ a.kind = "samples" /\ a.generation = gate.generation
      BY <1>1, <3>1 DEF Batch
    <3> HIDE DEF a, M
    <3>3. ~Gap(a, g) /\ (Windows(a, g) <=> gates = <<>>)
      BY <1>5, <3>2 DEF Windows, Gap
    <3>4. /\ Broken(port', g) <=> Broken(Resumption, g) \/ Gap(a, g)
          /\ Coming(port', g) <=> Coming(Resumption, g) \/ Windows(a, g)
          /\ \A b \in Unbroken(port', g) :
               \/ b \in Unbroken(Resumption, g)
               \/ b = a /\ Windows(a, g) /\ ~Broken(Resumption, g)
      BY <1>8, <3>1, <3>2, AppendedMessage DEF M
    <3>5. meter'.sequence + 1 - meter'.index = Ready.sequence + 1 - Ready.index
      BY <2>2, <3>1
    <3> QED
      BY <1>8, <3>1, <3>2, <3>3, <3>4, <3>5
  <2> QED
    BY <1>6, <2>3, <2>4
<1>11. CASE gates # <<>> \/ Broken(Resumption, g)
  <2>1. Unbroken(port', g) \subseteq Unbroken(port, g)
    BY <1>10, <1>11
  <2>2. ~Broken(port', g) => gates # <<>> /\ ~Broken(port, g)
    BY <1>8, <1>10, <1>11
  <2>3. InTime(o, k)'
    <3>1. \A b \in Unbroken(port', g) : \A d \in Directions : Placed(b.samples[d], o, k)
      BY <1>3, <2>1 DEF InTime
    <3>2. ~Broken(port', g) /\ (gates # <<>> \/ meter'.next = None) =>
            RecordedIn(log) = {} /\ ~Coming(port', g)
      BY <1>3, <1>10, <2>2 DEF InTime
    <3> QED
      BY <1>2, <2>2, <3>1, <3>2 DEF InTime
  <2> QED
    BY <1>3, <2>3
<1>12. CASE gates = <<>> /\ ~Broken(Resumption, g)
  <2> DEFINE o1 == Ready.origin
             k1 == Ready.sequence + 1 - Ready.index
  <2>1. ~Lost /\ ~Broken(port, g)
    BY <1>8, <1>12
  <2>2. Ready \in Meter /\ WindowEnd(Ready) = Edge(Ready, Ready.index)
    BY <1>1, ReadyFacts, EdgeFacts
  <2>3. /\ o1 \in Int /\ k1 \in Int /\ (Ready.sequence + 1) - k1 = Ready.index
    BY <2>2 DEF Meter
  <2>4. \/ o1 = o /\ k1 = k
        \/ RecordedIn(log) = {} /\ Unbroken(port, g) = {}
    <3>1. CASE meter.next = None
      BY <1>3, <2>1, <3>1, NothingComing DEF InTime
    <3>2. CASE meter.next # None
      <4>1. Ready = meter
        BY <1>1, <2>1, <3>2, ReadyFacts
      <4> QED
        BY <1>3, <1>12, <2>1, <3>2, <4>1 DEF InTime
    <3> QED
      BY <3>1, <3>2
  <2>5. \A s \in RecordedIn(log) : Placed(s, o1, k1)
    BY <1>3, <2>4
  <2>6. ASSUME NEW b \in Unbroken(port', g), NEW d \in Directions
        PROVE  Placed(b.samples[d], o1, k1)
    <3>1. CASE b \in Unbroken(port, g)
      <4>1. Placed(b.samples[d], o, k)
        BY <1>3, <2>6, <3>1 DEF InTime
      <4> QED
        BY <2>4, <3>1, <4>1
    <3>2. CASE /\ b.samples[d].sequence = Ready.sequence + 1
               /\ b.samples[d].to = WindowEnd(Ready)
      <4>1. b.samples[d].sequence - k1 = Ready.index
        BY <2>3, <3>2
      <4> HIDE DEF k1
      <4> QED
        BY <2>2, <3>2, <4>1 DEF Placed, Edge
    <3> QED
      BY <1>10, <2>6, <3>1, <3>2
  <2>7. meter'.origin = o1 /\ meter'.sequence + 1 - meter'.index = k1
    BY <1>10
  <2> HIDE DEF o1, k1
  <2>8. PICK o2 \in Int, k2 \in Int : o2 = o1 /\ k2 = k1
    BY <2>3
  <2>9. InTime(o2, k2)'
    BY <1>2, <1>9, <1>12, <2>6, <2>7, <2>8 DEF InTime
  <2> QED
    BY <2>5, <2>8, <2>9
<1> QED
  BY <1>11, <1>12

\* Nothing more is recorded of a session that is closed or has failed.
LEMMA TimedClosing ==
    ASSUME NEW r, Timed(r), NEW q, ~Open', RecordedIn(log') = RecordedIn(log), r.gap => q.gap
    PROVE  Timed(q)'
BY DEF Timed

LEMMA TimedGate ==
    ASSUME NEW r, Known(r), Timed(r), Gate
    PROVE  Timed(r)'
<1>1. Typed /\ meter \in Meter
  BY DEF Known, Typed
<1>2. /\ gates # <<>> /\ meter' = Reset(meter)
      /\ port' = port /\ monitor' = monitor /\ log' = log
  BY DEF Gate
<1>3. meter'.next = None
  BY <1>1, <1>2, ResetMeter
<1>4. ASSUME NEW o, NEW k, InTime(o, k) PROVE InTime(o, k)'
  BY <1>2, <1>3, <1>4 DEF InTime
<1> QED
  BY <1>2, <1>4 DEF Timed, Open

LEMMA TimedProcessFails ==
    ASSUME NEW r, Known(r), Timed(r), ProcessFails
    PROVE  Timed(r)'
<1>1. Typed /\ port \in Seq(Notice \cup Batch)
  BY DEF Known, Typed
<1>2. /\ port' = Append(port, Message("failure")) /\ gates' = gates
      /\ monitor' = monitor /\ log' = log /\ meter' = meter
  BY DEF ProcessFails
<1>3. Message("failure") \in Notice \cup Batch /\ Message("failure").kind = "failure"
  BY <1>1 DEF Message, Notice, Typed
<1>4. ~Gap(Message("failure"), monitor.generation)
      /\ ~Windows(Message("failure"), monitor.generation)
  BY <1>3 DEF Gap, Windows
<1>5. /\ Broken(port', monitor.generation) <=> Broken(port, monitor.generation)
      /\ Coming(port', monitor.generation) <=> Coming(port, monitor.generation)
      /\ Unbroken(port', monitor.generation) \subseteq Unbroken(port, monitor.generation)
  BY <1>1, <1>2, <1>3, <1>4, AppendedMessage
<1>6. ASSUME NEW o, NEW k, InTime(o, k) PROVE InTime(o, k)'
  BY <1>2, <1>5, <1>6 DEF InTime
<1> QED
  BY <1>2, <1>6 DEF Timed, Open

LEMMA TimedSetActive ==
    ASSUME NEW r, Known(r), Timed(r), SetActive, NEW q,
           Noted(r, q, IF monitor.active THEN "paused" ELSE "measuring"),
           RecordedIn(log') = RecordedIn(log), gates' # <<>>
    PROVE  Timed(q)'
<1> SUFFICES ASSUME ~q.gap
             PROVE  \E o, k \in Int :
                      /\ \A s \in RecordedIn(log) : Placed(s, o, k)
                      /\ InTime(o, k)'
  BY DEF Timed
<1>1. ~monitor.active /\ ~r.gap
  BY DEF Noted
<1>2. Open /\ port' = port
  BY DEF SetActive, Open
<1>3. ~monitor.anchored /\ port = <<>> /\ log = <<>>
  BY <1>1, <1>2 DEF Known, Told
<1>4. RecordedIn(log) = {}
  BY <1>3 DEF RecordedIn
<1>5. ~Coming(port', monitor'.generation)
  BY <1>2, <1>3 DEF Coming
<1>6. InTime(0, 0)'
  BY <1>4, <1>5, NothingComing DEF InTime
<1> QED
  BY <1>4, <1>6

LEMMA TimedTaken ==
    ASSUME NEW r, Known(r), Timed(r), Taken, Open, ~r.gap, NEW q, NEW fresh,
           monitor'.generation = monitor.generation,
           ~Gap(Head(port), monitor.generation),
           RecordedIn(log') = RecordedIn(log) \cup fresh,
           fresh = {} \/ (/\ Windows(Head(port), monitor.generation)
                          /\ fresh = {Head(port).samples[d] : d \in Directions})
    PROVE  Timed(q)'
<1> DEFINE g == monitor.generation
<1>1. Typed
  BY DEF Known
<1>2. PICK o \in Int, k \in Int :
        (\A s \in RecordedIn(log) : Placed(s, o, k)) /\ InTime(o, k)
  BY DEF Timed
<1>3. gates' = gates /\ meter' = meter
  BY DEF Taken
<1>4. /\ Broken(port', g) <=> Broken(port, g)
      /\ Unbroken(port', g) \subseteq Unbroken(port, g)
      /\ Coming(port', g) => Coming(port, g)
      /\ Windows(Head(port), g) => Head(port) \in Unbroken(port, g) /\ Coming(port, g)
  BY <1>1, TakenMessage
<1>5. \A s \in fresh : Placed(s, o, k)
  BY <1>2, <1>4 DEF InTime
<1>6. \A s \in RecordedIn(log') : Placed(s, o, k)
  BY <1>2, <1>5
<1>7. InTime(o, k)'
  <2>1. \A b \in Unbroken(port', g) : \A d \in Directions : Placed(b.samples[d], o, k)
    BY <1>2, <1>4 DEF InTime
  <2>2. ~Broken(port', g) /\ gates' = <<>> /\ meter'.next # None =>
          meter'.origin = o /\ meter'.sequence + 1 - meter'.index = k
    BY <1>2, <1>3, <1>4 DEF InTime
  <2>3. ~Broken(port', g) /\ (gates' # <<>> \/ meter'.next = None) =>
          RecordedIn(log') = {} /\ ~Coming(port', g)
    <3> SUFFICES ASSUME ~Broken(port', g), gates' # <<>> \/ meter'.next = None
                 PROVE  RecordedIn(log') = {} /\ ~Coming(port', g)
      OBVIOUS
    <3>1. RecordedIn(log) = {} /\ ~Coming(port, g)
      BY <1>2, <1>3, <1>4 DEF InTime
    <3> QED
      BY <1>4, <3>1
  <2> QED
    BY <2>1, <2>2, <2>3 DEF InTime
<1> QED
  BY <1>6, <1>7 DEF Timed

LEMMA TimedDropped ==
    ASSUME NEW r, Known(r), Timed(r), Dropped
    PROVE  Timed(r)'
<1>1. Taken /\ monitor' = monitor /\ log' = log /\ port # <<>>
  BY DEF Dropped, Taken
<1>2. CASE ~Open \/ r.gap
  BY <1>1, <1>2 DEF Timed, Open
<1>3. CASE Open /\ ~r.gap
  <2>1. monitor.active
    BY <1>1, <1>3 DEF Known, Told
  <2>2. ~Gap(Head(port), monitor.generation)
    BY <1>3, <2>1 DEF Dropped, Accepts, Gap
  <2>3. RecordedIn(log') = RecordedIn(log) \cup {}
    BY <1>1
  <2> QED
    BY <1>1, <1>3, <2>2, <2>3, TimedTaken
<1> QED
  BY <1>2, <1>3

LEMMA TimedHeard ==
    ASSUME NEW r, Known(r), Timed(r), Heard, NEW q,
           Took(r, q, Head(port).samples, Directions),
           RecordedIn(log') =
             RecordedIn(log) \cup {Head(port).samples[d] : d \in Directions}
    PROVE  Timed(q)'
<1>1. CASE q.gap
  BY <1>1 DEF Timed
<1>2. CASE ~q.gap
  <2>1. ~r.gap
    BY <1>2 DEF Took
  <2>2. Taken /\ Open /\ Windows(Head(port), monitor.generation)
    BY DEF Heard, Accepts, Windows
  <2>3. ~Gap(Head(port), monitor.generation)
    BY <2>2 DEF Gap, Windows
  <2>4. monitor'.generation = monitor.generation
    BY DEF Heard, Known, Typed, Monitor
  <2> DEFINE fresh == {Head(port).samples[d] : d \in Directions}
  <2>5. RecordedIn(log') = RecordedIn(log) \cup fresh
    OBVIOUS
  <2>6. fresh = {} \/ (/\ Windows(Head(port), monitor.generation)
                       /\ fresh = {Head(port).samples[d] : d \in Directions})
    BY <2>2
  <2> HIDE DEF fresh
  <2> QED
    BY <2>1, <2>2, <2>3, <2>4, <2>5, <2>6, TimedTaken
<1> QED
  BY <1>1, <1>2

LEMMA TimedNotified ==
    ASSUME NEW r, Known(r), Timed(r), Notified, log' = log, Known(r)'
    PROVE  Timed(r)'
<1>1. gates' = gates /\ port' = port /\ meter' = meter
  BY DEF Notified, workletVars
<1>2. CASE monitor' = [monitor EXCEPT !.request = "none"]
  <2>1. /\ monitor'.generation = monitor.generation
        /\ monitor'.failed = monitor.failed /\ monitor'.disposed = monitor.disposed
    BY <1>2 DEF Known, Typed, Monitor
  <2>2. ASSUME NEW o, NEW k, InTime(o, k) PROVE InTime(o, k)'
    BY <1>1, <2>1, <2>2 DEF InTime
  <2> QED
    BY <2>1, <2>2 DEF Timed, Open
<1>3. CASE monitor' = [Failed(monitor) EXCEPT !.request = "none"]
  <2>1. monitor'.failed
    BY <1>3, FailedMonitor DEF Known, Typed
  <2> QED
    BY <2>1, TimedClosing DEF Open
<1> QED
  BY <1>2, <1>3 DEF Notified

LEMMA KnownInit == Init => \E r : Known(r) /\ Timed(r)
<1> SUFFICES ASSUME Init PROVE Known(Unread) /\ Timed(Unread)
  OBVIOUS
<1> DEFINE none == {}
<1>1. /\ frame = 0 /\ gates = <<>> /\ port = <<>> /\ log = <<>>
      /\ gate = [enabled |-> FALSE, generation |-> 0, failed |-> FALSE]
      /\ meter = [next |-> None, origin |-> 0, start |-> 0, index |-> 1, sequence |-> 0,
                  loud |-> none, level |-> Quiet]
      /\ monitor = [active |-> FALSE, generation |-> 0, anchored |-> FALSE, failed |-> FALSE,
                    disposed |-> FALSE, request |-> "none"]
  BY DEF Init
<1>2. none \in SUBSET Directions
  OBVIOUS
<1> HIDE DEF none
<1>3. meter \in Meter
  BY <1>1, <1>2, QuietLevels DEF Meter
<1>4. monitor \in Monitor
  BY <1>1 DEF Monitor
<1>5. Typed
  BY <1>1, <1>3, <1>4 DEF Typed
<1>6. Reads(log, Unread)
  BY <1>1, ReadsNone
<1>7. Generations
  BY <1>1 DEF Generations
<1>8. Abutting(meter, frame)
  BY <1>1, QuietLevels DEF Abutting, Idle
<1>9. Told(Unread)
  <2>1. Unread.status = None /\ \A d \in Directions : Unread.in[d] <= Unread.segment
    BY DEF Unread
  <2> QED
    BY <1>1, <2>1, NoneAssumption DEF Told
<1>10. Timed(Unread)
  <2>1. RecordedIn(log) = {} /\ ~Coming(port, monitor.generation)
    BY <1>1 DEF RecordedIn, Coming
  <2>2. InTime(0, 0)
    BY <1>1, <2>1, NothingComing DEF InTime
  <2> QED
    BY <2>1, <2>2 DEF Timed
<1> QED
  BY <1>5, <1>6, <1>7, <1>8, <1>9, <1>10, UnreadReader DEF Known

LEMMA KnownStep ==
    ASSUME NEW r, Known(r), Timed(r), [Next]_vars
    PROVE  \E q : Known(q)' /\ Timed(q)'
<1>1. CASE Gate
  BY <1>1, GateKnown, TimedGate
<1>2. CASE Process
  BY <1>2, ProcessKnown, TimedProcess
<1>3. CASE Skip
  <2>1. Timed(r)'
    <3>1. gates' = gates /\ port' = port /\ meter' = meter /\ monitor' = monitor /\ log' = log
      BY <1>3 DEF Skip
    <3> QED
      BY <3>1, Zenon DEF Timed, InTime, Open
  <2> QED
    BY <1>3, <2>1, SkipKnown
<1>4. CASE ProcessFails
  BY <1>4, ProcessFailsKnown, TimedProcessFails
<1>5. CASE SetActive
  BY <1>5, SetActiveKnown, TimedSetActive
<1>6. CASE Receive
  <2>1. Dropped \/ Collapsed \/ Interrupted \/ Heard
    BY <1>6, ReceiveCases DEF Known
  <2>2. CASE Dropped
    BY <2>2, DroppedKnown, TimedDropped
  <2>3. CASE Collapsed
    <3>1. PICK q : /\ Known(q)' /\ RecordedIn(log') = RecordedIn(log) /\ monitor'.failed
                   /\ r.gap => q.gap
      BY <2>3, CollapsedKnown
    <3>2. ~Open'
      BY <3>1 DEF Open
    <3> QED
      BY <3>1, <3>2, TimedClosing
  <2>4. CASE Interrupted
    <3>1. PICK p, q : Known(q)' /\ Noted(r, p, "paused") /\ Noted(p, q, "measuring")
      BY <2>4, InterruptedKnown
    <3>2. q.gap
      BY <3>1 DEF Noted
    <3> QED
      BY <3>1, <3>2 DEF Timed
  <2>5. CASE Heard
    BY <2>5, HeardKnown, TimedHeard
  <2> QED
    BY <2>1, <2>2, <2>3, <2>4, <2>5
<1>7. CASE Notified
  <2>1. CASE Known(r)' /\ log' = log
    BY <1>7, <2>1, TimedNotified
  <2>2. ASSUME NEW q, Known(q)', RecordedIn(log') = RecordedIn(log), monitor'.failed,
               r.gap => q.gap
        PROVE  Timed(q)'
    <3>1. ~Open'
      BY <2>2 DEF Open
    <3> QED
      BY <2>2, <3>1, TimedClosing
  <2> QED
    BY <1>7, <2>1, <2>2, NotifiedKnown
<1>8. CASE Dispose
  <2>1. PICK q : /\ Known(q)' /\ RecordedIn(log') = RecordedIn(log) /\ ~Open'
                 /\ q = r \/ Noted(r, q, "closed")
    BY <1>8, DisposeKnown
  <2>2. r.gap => q.gap
    BY <2>1 DEF Noted
  <2> QED
    BY <2>1, <2>2, TimedClosing
<1>9. CASE UNCHANGED vars
  <2>1. /\ frame' = frame /\ gate' = gate /\ meter' = meter /\ gates' = gates
        /\ port' = port /\ monitor' = monitor /\ log' = log
    BY <1>9 DEF vars, workletVars
  <2>2. Known(r)'
    BY <2>1, Zenon DEF Known, Typed, Open, Generations, Told
  <2>3. Timed(r)'
    BY <2>1, Zenon DEF Timed, InTime, Open
  <2> QED
    BY <2>2, <2>3
<1> QED
  BY <1>1, <1>2, <1>3, <1>4, <1>5, <1>6, <1>7, <1>8, <1>9 DEF Next

LEMMA Rounded ==
    ASSUME NEW a \in Int, NEW b \in Int
    PROVE  LET e == (2 * a * Rate + 50) \div 100
               f == (2 * b * Rate + 50) \div 100
           IN e \in Int /\ f \in Int /\ Abs(50 * (f - e) - (b - a) * Rate) <= 50
<1> DEFINE p == a * Rate
           q == b * Rate
           e == (2 * p + 50) \div 100
           f == (2 * q + 50) \div 100
<1>1. /\ p \in Int /\ q \in Int /\ (b - a) * Rate = q - p
      /\ 2 * a * Rate = 2 * p /\ 2 * b * Rate = 2 * q
  BY Sizes
<1> HIDE DEF p, q
<1>2. /\ e \in Int /\ 100 * e <= 2 * p + 50 /\ 2 * p + 50 < 100 * e + 100
      /\ f \in Int /\ 100 * f <= 2 * q + 50 /\ 2 * q + 50 < 100 * f + 100
  BY <1>1
<1> HIDE DEF e, f
<1>3. Abs(50 * (f - e) - (q - p)) <= 50
  BY <1>1, <1>2 DEF Abs
<1> QED
  BY <1>1, <1>2, <1>3 DEF e, f

LEMMA SampleEntries ==
    ASSUME Typed, NEW i \in DOMAIN log, log[i].type = "sample"
    PROVE  log[i] \in SampleRecord /\ log[i] \in RecordedIn(log)
<1>1. log[i] \in Entry
  BY DEF Typed
<1>2. log[i] \in SampleRecord
  BY <1>1 DEF Entry, Anchor, StatusEntry
<1> QED
  BY <1>2 DEF RecordedIn

LEMMA TimedKeepsTime ==
    ASSUME NEW r, Known(r), Timed(r)
    PROVE  WindowsKeepTime
<1> SUFFICES ASSUME ~r.gap,
                    NEW i \in {n \in DOMAIN log : log[n].type = "sample"},
                    NEW j \in {n \in DOMAIN log : log[n].type = "sample"}
             PROVE  Abs(50 * (log[j].to - log[i].to)
                          - (log[j].sequence - log[i].sequence) * Rate) <= 50
  BY InspectedIs DEF WindowsKeepTime, Known
<1>1. PICK o \in Int, k \in Int : \A s \in RecordedIn(log) : Placed(s, o, k)
  BY DEF Timed
<1> DEFINE s == log[i]
           t == log[j]
           a == s.sequence - k
           b == t.sequence - k
           e == (2 * a * Rate + 50) \div 100
           f == (2 * b * Rate + 50) \div 100
<1>2. /\ s \in SampleRecord /\ s \in RecordedIn(log)
      /\ t \in SampleRecord /\ t \in RecordedIn(log)
  BY SampleEntries DEF Known
<1>3. s.to = o + e /\ t.to = o + f
  BY <1>1, <1>2 DEF Placed
<1>4. s.sequence \in Nat /\ t.sequence \in Nat
  BY <1>2 DEF SampleRecord
<1> HIDE DEF s, t
<1>5. a \in Int /\ b \in Int /\ b - a = t.sequence - s.sequence
  BY <1>4
<1> HIDE DEF a, b
<1>6. e \in Int /\ f \in Int /\ Abs(50 * (f - e) - (b - a) * Rate) <= 50
  BY <1>5, Rounded
<1> HIDE DEF e, f
<1>7. t.to - s.to = f - e
  BY <1>3, <1>6
<1> QED
  BY <1>5, <1>6, <1>7 DEF s, t

\* In a record that no gap interrupts, the number of windows between two samples is
\* the time between them to a frame: the edges of PcmWindowMeter are rounded each by
\* itself and never drift, whatever the rate and however the frames arrive, and no
\* skipped quantum, pause or message under way goes unnoticed by inspect.
THEOREM TimeCorrect == Spec => []WindowsKeepTime
<1> DEFINE Inv == \E r : Known(r) /\ Timed(r)
<1>1. Init => Inv
  BY KnownInit
<1>2. Inv /\ [Next]_vars => Inv'
  BY KnownStep
<1>3. Inv => WindowsKeepTime
  BY TimedKeepsTime
<1> QED
  BY <1>1, <1>2, <1>3, PTL DEF Spec
-----------------------------------------------------------------------------
(* Windows are recorded in the order of their numbers and of their times *)

IsBatch(q, i) == i \in DOMAIN q /\ q[i].kind = "samples"

\* The samples on their way follow one another, and the meter and the reader them.
Row(q) ==
    \A i, j \in DOMAIN q : IsBatch(q, i) /\ IsBatch(q, j) /\ i < j =>
      \A d \in Directions : /\ q[i].samples[d].sequence < q[j].samples[d].sequence
                            /\ q[i].samples[d].to <= q[j].samples[d].from
Behind(q, m) ==
    \A i \in DOMAIN q : IsBatch(q, i) => \A d \in Directions :
      /\ q[i].samples[d].sequence <= m.sequence
      /\ q[i].samples[d].to <= m.start
Ahead(q, r) ==
    \A i \in DOMAIN q : IsBatch(q, i) => \A d \in Directions :
      /\ r.sequence[d] < q[i].samples[d].sequence
      /\ r.to[d] # None => r.to[d] <= q[i].samples[d].from
Caught(r, m) ==
    \A d \in Directions : /\ r.sequence[d] <= m.sequence
                          /\ r.to[d] # None => r.to[d] <= m.start
Ordered(r) == Row(port) /\ Behind(port, meter) /\ Ahead(port, r) /\ Caught(r, meter)

LEMMA BatchSamples ==
    ASSUME NEW q \in Seq(Notice \cup Batch), NEW i \in DOMAIN q, IsBatch(q, i),
           NEW d \in Directions
    PROVE  /\ q[i].samples \in Samples
           /\ q[i].samples[d] \in SampleRecord
           /\ q[i].samples[d].sequence \in Nat
           /\ q[i].samples[d].from \in Nat /\ q[i].samples[d].to \in Nat
<1>1. q[i] \in Batch
  <2>1. q[i] \in Notice \cup Batch
    OBVIOUS
  <2> QED
    BY <2>1 DEF IsBatch, Notice
<1>2. q[i].samples \in Samples
  BY <1>1 DEF Batch
<1>3. q[i].samples[d] \in SampleRecord
  BY <1>2 DEF Samples
<1> QED
  BY <1>2, <1>3 DEF SampleRecord

LEMMA NoBatchAppended ==
    ASSUME NEW q \in Seq(Notice \cup Batch), NEW a \in Notice, NEW r, NEW m
    PROVE  /\ Row(q) => Row(Append(q, a))
           /\ Behind(q, m) => Behind(Append(q, a), m)
           /\ Ahead(q, r) => Ahead(Append(q, a), r)
           /\ \A i \in DOMAIN Append(q, a) : IsBatch(Append(q, a), i) =>
                IsBatch(q, i) /\ Append(q, a)[i] = q[i]
<1> DEFINE t == Append(q, a)
<1>1. /\ DOMAIN q = 1..Len(q) /\ t[Len(q) + 1] = a
      /\ \A i \in DOMAIN q : i \in DOMAIN t /\ t[i] = q[i]
      /\ \A i \in DOMAIN t : i \in DOMAIN q \/ i = Len(q) + 1
  BY AppendFacts
<1>2. a.kind # "samples"
  BY DEF Notice
<1> HIDE DEF t
<1>3. \A i \in DOMAIN t : IsBatch(t, i) => i \in DOMAIN q /\ IsBatch(q, i) /\ t[i] = q[i]
  BY <1>1, <1>2 DEF IsBatch
<1>4. Row(q) => Row(t)
  BY <1>3 DEF Row
<1>5. Behind(q, m) => Behind(t, m)
  BY <1>3 DEF Behind
<1>6. Ahead(q, r) => Ahead(t, r)
  BY <1>3 DEF Ahead
<1> QED
  BY <1>3, <1>4, <1>5, <1>6 DEF t

\* Samples written later are of later windows.
LEMMA BatchAppended ==
    ASSUME NEW q \in Seq(Notice \cup Batch), NEW a \in Batch, NEW r \in Reader,
           NEW m \in Meter, NEW n \in Meter, Row(q), Behind(q, m), Ahead(q, r), Caught(r, m),
           m.start <= n.start, m.sequence < n.sequence,
           \A d \in Directions : /\ a.samples[d].sequence = m.sequence + 1
                                 /\ m.start <= a.samples[d].from
                                 /\ a.samples[d].to = n.start
    PROVE  /\ Row(Append(q, a)) /\ Behind(Append(q, a), n) /\ Ahead(Append(q, a), r)
           /\ Caught(r, n)
<1> DEFINE t == Append(q, a)
           l == Len(q)
<1>1. /\ l \in Nat /\ DOMAIN q = 1..l /\ t[l + 1] = a /\ DOMAIN t = 1..(l + 1)
      /\ \A i \in DOMAIN q : i \in DOMAIN t /\ t[i] = q[i]
      /\ \A i \in DOMAIN t : i \in DOMAIN q \/ i = l + 1
  BY AppendFacts
<1>2. /\ m.sequence \in Nat /\ n.sequence \in Nat /\ m.start \in Nat /\ n.start \in Nat
  BY DEF Meter
<1>3. /\ a.samples \in Samples
      /\ \A d \in Directions : a.samples[d].from \in Nat
  BY DEF Batch, Samples, SampleRecord
<1>4. ASSUME NEW i \in DOMAIN q, IsBatch(q, i), NEW d \in Directions
      PROVE  /\ q[i].samples[d].sequence \in Nat
             /\ q[i].samples[d].from \in Nat /\ q[i].samples[d].to \in Nat
  BY <1>4, BatchSamples
<1>5. \A d \in Directions : r.sequence[d] \in Nat /\ (r.to[d] # None => r.to[d] \in Nat)
  BY DEF Reader
<1> HIDE DEF t, l
<1>6. \A i \in DOMAIN t : IsBatch(t, i) =>
        (i \in DOMAIN q /\ IsBatch(q, i) /\ t[i] = q[i]) \/ (i = l + 1 /\ t[i] = a)
  BY <1>1 DEF IsBatch
<1>7. Row(t)
  <2> SUFFICES ASSUME NEW i \in DOMAIN t, NEW j \in DOMAIN t, IsBatch(t, i), IsBatch(t, j),
                      i < j, NEW d \in Directions
               PROVE  /\ t[i].samples[d].sequence < t[j].samples[d].sequence
                      /\ t[i].samples[d].to <= t[j].samples[d].from
    BY DEF Row
  <2>1. i \in DOMAIN q /\ IsBatch(q, i) /\ t[i] = q[i]
    BY <1>1, <1>6
  <2>2. CASE j \in DOMAIN q /\ IsBatch(q, j) /\ t[j] = q[j]
    BY <2>1, <2>2 DEF Row
  <2>3. CASE j = l + 1 /\ t[j] = a
    <3>1. q[i].samples[d].sequence <= m.sequence /\ q[i].samples[d].to <= m.start
      BY <2>1 DEF Behind
    <3> QED
      BY <1>2, <1>3, <1>4, <2>1, <2>3, <3>1
  <2> QED
    BY <1>6, <2>2, <2>3
<1>8. Behind(t, n)
  <2> SUFFICES ASSUME NEW i \in DOMAIN t, IsBatch(t, i), NEW d \in Directions
               PROVE  /\ t[i].samples[d].sequence <= n.sequence
                      /\ t[i].samples[d].to <= n.start
    BY DEF Behind
  <2>1. CASE i \in DOMAIN q /\ IsBatch(q, i) /\ t[i] = q[i]
    <3>1. q[i].samples[d].sequence <= m.sequence /\ q[i].samples[d].to <= m.start
      BY <2>1 DEF Behind
    <3> QED
      BY <1>2, <1>4, <2>1, <3>1
  <2>2. CASE i = l + 1 /\ t[i] = a
    BY <1>2, <2>2
  <2> QED
    BY <1>6, <2>1, <2>2
<1>9. Ahead(t, r)
  <2> SUFFICES ASSUME NEW i \in DOMAIN t, IsBatch(t, i), NEW d \in Directions
               PROVE  /\ r.sequence[d] < t[i].samples[d].sequence
                      /\ r.to[d] # None => r.to[d] <= t[i].samples[d].from
    BY DEF Ahead
  <2>1. CASE i \in DOMAIN q /\ IsBatch(q, i) /\ t[i] = q[i]
    BY <2>1 DEF Ahead
  <2>2. CASE i = l + 1 /\ t[i] = a
    <3>1. r.sequence[d] <= m.sequence /\ (r.to[d] # None => r.to[d] <= m.start)
      BY DEF Caught
    <3> QED
      BY <1>2, <1>3, <1>5, <2>2, <3>1
  <2> QED
    BY <1>6, <2>1, <2>2
<1>10. Caught(r, n)
  <2> SUFFICES ASSUME NEW d \in Directions
               PROVE  /\ r.sequence[d] <= n.sequence
                      /\ r.to[d] # None => r.to[d] <= n.start
    BY DEF Caught
  <2>1. r.sequence[d] <= m.sequence /\ (r.to[d] # None => r.to[d] <= m.start)
    BY DEF Caught
  <2> QED
    BY <1>2, <1>5, <2>1
<1> QED
  BY <1>7, <1>8, <1>9, <1>10 DEF t

LEMMA OrderedProcess ==
    ASSUME NEW r, Known(r), Ordered(r), Process
    PROVE  Ordered(r)'
<1>1. /\ Typed /\ Abutting(meter, frame) /\ port \in Seq(Notice \cup Batch) /\ meter \in Meter
      /\ r \in Reader /\ gate.generation \in Nat /\ frame \in Nat
  BY DEF Known, Typed
<1>2. /\ Ready \in Meter /\ Ready.sequence = meter.sequence /\ meter.start <= Ready.start
      /\ Ready.start <= frame
  BY <1>1, ReadyFacts
<1>3. /\ meter.start \in Nat /\ Ready.start \in Nat /\ meter.sequence \in Nat
  BY <1>1, <1>2 DEF Meter
<1>4. /\ Resumption \in Seq(Notice \cup Batch)
      /\ Row(Resumption) /\ Behind(Resumption, meter) /\ Ahead(Resumption, r)
  <2>1. Message("gap") \in Notice
    BY <1>1 DEF Message, Notice
  <2> QED
    BY <1>1, <2>1, NoBatchAppended, AppendFacts DEF Ordered, Resumption
<1>5. Halfway(Ready) \/ \E samples : Whole(Ready, samples)
  BY <1>1, ProcessWindow
<1>6. CASE Halfway(Ready)
  <2>1. /\ port' = Resumption /\ meter'.sequence = meter.sequence
        /\ meter'.start = Ready.start
    BY <1>2, <1>6 DEF Halfway
  <2>2. Behind(port', meter')
    <3> SUFFICES ASSUME NEW i \in DOMAIN Resumption, IsBatch(Resumption, i),
                        NEW d \in Directions
                 PROVE  /\ Resumption[i].samples[d].sequence <= meter'.sequence
                        /\ Resumption[i].samples[d].to <= meter'.start
      BY <2>1 DEF Behind
    <3>1. /\ Resumption[i].samples[d].sequence <= meter.sequence
          /\ Resumption[i].samples[d].to <= meter.start
      BY <1>4 DEF Behind
    <3>2. Resumption[i].samples[d].to \in Nat
      BY <1>4, BatchSamples
    <3> QED
      BY <1>2, <1>3, <2>1, <3>1, <3>2
  <2>3. Caught(r, meter')
    <3> SUFFICES ASSUME NEW d \in Directions
                 PROVE  /\ r.sequence[d] <= meter'.sequence
                        /\ r.to[d] # None => r.to[d] <= meter'.start
      BY DEF Caught
    <3>1. r.sequence[d] <= meter.sequence /\ (r.to[d] # None => r.to[d] <= meter.start)
      BY DEF Ordered, Caught
    <3>2. r.to[d] # None => r.to[d] \in Nat
      BY <1>1 DEF Reader
    <3> QED
      BY <1>2, <1>3, <2>1, <3>1, <3>2
  <2> QED
    BY <1>4, <2>1, <2>2, <2>3 DEF Ordered
<1>7. ASSUME NEW samples, Whole(Ready, samples) PROVE Ordered(r)'
  <2> DEFINE a == [kind |-> "samples", generation |-> gate.generation, samples |-> samples]
  <2>1. /\ samples \in Samples /\ port' = Append(Resumption, a)
        /\ meter' \in Meter /\ meter'.start = frame' /\ frame' \in Nat /\ frame <= frame'
        /\ meter'.sequence = meter.sequence + 1
        /\ \A d \in Directions : /\ samples[d].sequence = meter.sequence + 1
                                 /\ samples[d].from = Ready.start /\ samples[d].to = frame'
    BY <1>2, <1>7 DEF Whole
  <2>2. a \in Batch /\ a.samples = samples
    BY <1>1, <2>1 DEF Batch
  <2> HIDE DEF a
  <2>3. meter.start <= meter'.start /\ meter.sequence < meter'.sequence
    BY <1>1, <1>2, <1>3, <2>1
  <2>4. \A d \in Directions : /\ a.samples[d].sequence = meter.sequence + 1
                              /\ meter.start <= a.samples[d].from
                              /\ a.samples[d].to = meter'.start
    BY <1>2, <2>1, <2>2
  <2>5. Caught(r, meter)
    BY DEF Ordered
  <2>6. /\ Row(Append(Resumption, a)) /\ Behind(Append(Resumption, a), meter')
        /\ Ahead(Append(Resumption, a), r) /\ Caught(r, meter')
    BY <1>1, <1>4, <2>1, <2>2, <2>3, <2>4, <2>5, BatchAppended
  <2> QED
    BY <2>1, <2>6 DEF Ordered
<1> QED
  BY <1>5, <1>6, <1>7

\* A message taken from the port, with or without its samples recorded.
LEMMA OrderedTaken ==
    ASSUME NEW r, Known(r), Ordered(r), Taken, NEW q, q \in Reader,
           \/ q.sequence = r.sequence /\ q.to = r.to
           \/ /\ Head(port).kind = "samples"
              /\ \A d \in Directions : /\ q.sequence[d] = Head(port).samples[d].sequence
                                       /\ q.to[d] = Head(port).samples[d].to
    PROVE  Ordered(q)'
<1>1. Typed
  BY DEF Known
<1>2. /\ DOMAIN port = 1..Len(port) /\ Len(port) \in Nat /\ 1 \in DOMAIN port
      /\ Head(port) = port[1] /\ DOMAIN port' = 1..(Len(port) - 1)
      /\ \A i \in DOMAIN port' : i + 1 \in DOMAIN port /\ port'[i] = port[i + 1]
  BY <1>1, TakenFacts
<1>3. meter' = meter
  BY DEF Taken
<1>4. \A i \in DOMAIN port' : IsBatch(port', i) => IsBatch(port, i + 1)
  BY <1>2 DEF IsBatch
<1>5. Row(port')
  <2> SUFFICES ASSUME NEW i \in DOMAIN port', NEW j \in DOMAIN port', IsBatch(port', i),
                      IsBatch(port', j), i < j, NEW d \in Directions
               PROVE  /\ port'[i].samples[d].sequence < port'[j].samples[d].sequence
                      /\ port'[i].samples[d].to <= port'[j].samples[d].from
    BY DEF Row
  <2>1. i + 1 < j + 1
    BY <1>2
  <2> QED
    BY <1>2, <1>4, <2>1 DEF Ordered, Row
<1>6. Behind(port', meter')
  BY <1>2, <1>3, <1>4 DEF Ordered, Behind
<1>7. CASE q.sequence = r.sequence /\ q.to = r.to
  <2>1. Ahead(port', q)
    BY <1>2, <1>4, <1>7 DEF Ordered, Ahead
  <2>2. Caught(q, meter')
    BY <1>3, <1>7 DEF Ordered, Caught
  <2> QED
    BY <1>5, <1>6, <2>1, <2>2 DEF Ordered
<1>8. CASE /\ Head(port).kind = "samples"
           /\ \A d \in Directions : /\ q.sequence[d] = Head(port).samples[d].sequence
                                    /\ q.to[d] = Head(port).samples[d].to
  <2>1. IsBatch(port, 1)
    BY <1>2, <1>8 DEF IsBatch
  <2>2. Ahead(port', q)
    <3> SUFFICES ASSUME NEW i \in DOMAIN port', IsBatch(port', i), NEW d \in Directions
                 PROVE  /\ q.sequence[d] < port'[i].samples[d].sequence
                        /\ q.to[d] <= port'[i].samples[d].from
      BY DEF Ahead
    <3>1. i + 1 \in DOMAIN port /\ IsBatch(port, i + 1) /\ 1 < i + 1
      BY <1>2, <1>4
    <3>2. /\ port[1].samples[d].sequence < port[i + 1].samples[d].sequence
          /\ port[1].samples[d].to <= port[i + 1].samples[d].from
      BY <1>2, <2>1, <3>1 DEF Ordered, Row
    <3> QED
      BY <1>2, <1>8, <3>2
  <2>3. Caught(q, meter')
    <3> SUFFICES ASSUME NEW d \in Directions
                 PROVE  q.sequence[d] <= meter.sequence /\ q.to[d] <= meter.start
      BY <1>3 DEF Caught
    <3>1. /\ port[1].samples[d].sequence <= meter.sequence
          /\ port[1].samples[d].to <= meter.start
      BY <1>2, <2>1 DEF Ordered, Behind
    <3> QED
      BY <1>2, <1>8, <3>1
  <2> QED
    BY <1>5, <1>6, <2>2, <2>3 DEF Ordered
<1> QED
  BY <1>7, <1>8
-----------------------------------------------------------------------------
(* A transition is a streak of its length back *)

\* The reader's tolerance covers the rounding of the windows.
Exact == Rate % 50 = 0 \/ (Near(ActiveWindows) /\ Near(SilentWindows))

TimelySample(s) ==
    s.since # None => Near((s.to - s.since) - (s.to - s.from) * Length(s))
Streak(m, count, candidate) ==
    count < m.index /\ candidate = Edge(m, m.index - 1 - count)
Streaks(m) ==
    \A d \in Directions : LET h == m.level[d] IN
      /\ ~h.active => h.above < ActiveWindows
      /\ h.active => h.below < SilentWindows
      /\ ~h.active /\ h.above > 0 => Streak(m, h.above, h.candidate)
      /\ h.active /\ h.below > 0 => Streak(m, h.below, h.candidate)
TimelyIn(q) ==
    \A i \in DOMAIN q : IsBatch(q, i) => \A d \in Directions : TimelySample(q[i].samples[d])
Timely == TimelyIn(port) /\ Streaks(meter)

\* The rounding of the edges of one run of windows, against that of its last.
LEMMA RoundedRun ==
    ASSUME Exact, NEW m \in Meter, NEW i \in Int, NEW w \in {ActiveWindows, SilentWindows}
    PROVE  Near((Edge(m, i) - Edge(m, i - w)) - (Edge(m, i) - Edge(m, i - 1)) * w)
<1>1. /\ m.origin \in Nat /\ Rate \in Nat /\ Rate >= 8000 /\ w \in Nat \ {0}
  BY Sizes DEF Meter
<1> DEFINE o == m.origin
           p == i * Rate
           x == (Edge(m, i) - Edge(m, i - w)) - (Edge(m, i) - Edge(m, i - 1)) * w
<1>2. CASE Rate % 50 = 0
  <2>1. PICK c \in Int : Rate = 50 * c
    <3>1. Rate = 50 * (Rate \div 50) /\ Rate \div 50 \in Int
      BY <1>1, <1>2
    <3> QED
      BY <3>1
  <2>2. ASSUME NEW j \in Int PROVE Edge(m, j) = o + j * c
    <3> DEFINE y == j * c
    <3>1. y \in Int /\ 2 * j * Rate = 100 * y
      BY <2>1
    <3> HIDE DEF y
    <3>2. (100 * y + 50) \div 100 = y
      BY <3>1
    <3> QED
      BY <3>1, <3>2 DEF Edge, y
  <2>3. i - w \in Int /\ i - 1 \in Int
    BY <1>1
  <2>4. Edge(m, i) = o + i * c /\ Edge(m, i - w) = o + (i - w) * c
        /\ Edge(m, i - 1) = o + (i - 1) * c
    BY <2>2, <2>3
  <2>5. (i - w) * c = i * c - w * c /\ (i - 1) * c = i * c - c
        /\ i * c \in Int /\ w * c \in Int /\ c * w = w * c
    BY <1>1
  <2>6. Edge(m, i) - Edge(m, i - w) = w * c /\ Edge(m, i) - Edge(m, i - 1) = c
    BY <1>1, <2>4, <2>5
  <2>7. x = 0
    BY <2>5, <2>6
  <2> HIDE DEF x
  <2>8. Near(x)
    BY <1>1, <2>7 DEF Near, Abs
  <2> QED
    BY <2>8 DEF x
<1>3. CASE Near(ActiveWindows) /\ Near(SilentWindows)
  <2> DEFINE q == w * Rate
             e == (2 * p + 50) \div 100
             f == (2 * (p - q) + 50) \div 100
             g == (2 * (p - Rate) + 50) \div 100
             u == 2 * p + 50 - 100 * e
             v == 2 * (p - q) + 50 - 100 * f
             z == 2 * (p - Rate) + 50 - 100 * g
  <2>1. /\ p \in Int /\ q \in Int
        /\ 2 * i * Rate = 2 * p /\ 2 * (i - w) * Rate = 2 * (p - q)
        /\ 2 * (i - 1) * Rate = 2 * (p - Rate)
    BY <1>1
  <2>2. Edge(m, i) = o + e /\ Edge(m, i - w) = o + f /\ Edge(m, i - 1) = o + g
    BY <2>1 DEF Edge
  <2> HIDE DEF p
  <2>3. /\ e \in Int /\ f \in Int /\ g \in Int
        /\ u \in 0..99 /\ v \in 0..99 /\ z \in 0..99
    <3> HIDE DEF q
    <3>1. /\ e \in Int /\ f \in Int /\ g \in Int
      BY <1>1, <2>1
    <3>2. 100 * e <= 2 * p + 50 /\ 2 * p + 50 < 100 * e + 100
      BY <2>1
    <3>3. 100 * f <= 2 * (p - q) + 50 /\ 2 * (p - q) + 50 < 100 * f + 100
      BY <2>1
    <3>4. 100 * g <= 2 * (p - Rate) + 50 /\ 2 * (p - Rate) + 50 < 100 * g + 100
      BY <1>1, <2>1
    <3> HIDE DEF e, f, g
    <3> QED
      BY <1>1, <2>1, <3>1, <3>2, <3>3, <3>4
  <2>4. x = (e - f) - (e - g) * w
    <3> HIDE DEF e, f, g
    <3> QED
      BY <1>1, <2>2, <2>3
  <2>5. /\ 100 * (e - f) = 2 * q - (u - v) /\ 100 * (e - g) = 2 * Rate - (u - z)
    <3> HIDE DEF e, f, g, q
    <3> QED
      BY <1>1, <2>1, <2>3
  <2> HIDE DEF e, f, g, u, v, z, x
  <2>6. 100 * ((e - g) * w) = 2 * q - (u - z) * w
    <3>1. 100 * ((e - g) * w) = (100 * (e - g)) * w
      BY <1>1, <2>3
    <3>2. (2 * Rate - (u - z)) * w = 2 * q - (u - z) * w
      BY <1>1, <2>3
    <3> QED
      BY <2>5, <3>1, <3>2
  <2> HIDE DEF q
  <2>7. -99 * w <= (u - z) * w /\ (u - z) * w <= 99 * w /\ (u - z) * w \in Int
    <3>1. u - z \in Int /\ -99 <= u - z /\ u - z <= 99
      BY <2>3
    <3>2. \A n \in Int : -99 <= n /\ n <= 99 => -99 * w <= n * w /\ n * w <= 99 * w /\ n * w \in Int
      BY <1>1
    <3> QED
      BY <3>1, <3>2
  <2>8. (e - g) * w \in Int /\ x \in Int
    BY <1>1, <2>3, <2>4
  <2>9. 100 * x = (u - z) * w - (u - v)
    BY <2>1, <2>3, <2>4, <2>5, <2>6, <2>7, <2>8
  <2>10. x <= w /\ -w <= x
    BY <1>1, <2>3, <2>7, <2>8, <2>9
  <2>11. w * 100000 <= 13 * Rate
    BY <1>1, <1>3, Sizes DEF Near, Abs
  <2>12. Near(x)
    BY <1>1, <2>8, <2>10, <2>11 DEF Near, Abs
  <2> QED
    BY <2>12 DEF x
<1> QED
  BY <1>2, <1>3 DEF Exact

\* One window more of one direction.
LEMMA WindowTimely ==
    ASSUME Exact, NEW m \in Meter, m.start = Edge(m, m.index - 1),
           NEW h \in Level, NEW s \in SampleRecord, NEW g,
           s.from = m.start, s.to = WindowEnd(m), Heeds(h, s, g),
           ~h.active => h.above < ActiveWindows,
           h.active => h.below < SilentWindows,
           ~h.active /\ h.above > 0 => Streak(m, h.above, h.candidate),
           h.active /\ h.below > 0 => Streak(m, h.below, h.candidate),
           NEW n, n.origin = m.origin, n.index = m.index + 1
    PROVE  /\ TimelySample(s)
           /\ ~g.active => g.above < ActiveWindows
           /\ g.active => g.below < SilentWindows
           /\ ~g.active /\ g.above > 0 => Streak(n, g.above, g.candidate)
           /\ g.active /\ g.below > 0 => Streak(n, g.below, g.candidate)
<1> DEFINE A == ActiveWindows
           S == SilentWindows
           i == m.index
<1>1. /\ A \in Nat \ {0} /\ S \in Nat \ {0} /\ i \in Nat \ {0} /\ m.start \in Nat
      /\ h.above \in Nat /\ h.below \in Nat /\ h.active \in BOOLEAN
      /\ s.above \in BOOLEAN
  BY Sizes DEF Meter, Level, SampleRecord
<1>2. /\ g.above = IF s.above THEN Smaller(A, h.above + 1) ELSE 0
      /\ g.below = IF s.above THEN 0 ELSE Smaller(S, h.below + 1)
      /\ g.candidate = IF (IF s.above THEN g.above ELSE g.below) = 1 THEN m.start
                       ELSE h.candidate
      /\ g.active <=> (h.active \/ g.above = A) /\ ~(h.active /\ g.below = S)
      /\ g \in Level
  <2> DEFINE above == s.above
             start == m.start
             f == Judge(h, above, start)
  <2>1. g = f
    BY DEF Heeds
  <2>2. above \in BOOLEAN /\ start \in Nat
    BY <1>1
  <2> HIDE DEF above, start
  <2>3. /\ f.above = IF above THEN Smaller(A, h.above + 1) ELSE 0
        /\ f.below = IF above THEN 0 ELSE Smaller(S, h.below + 1)
        /\ f.candidate = IF (IF above THEN f.above ELSE f.below) = 1 THEN start
                         ELSE h.candidate
        /\ f.active <=> (h.active \/ f.above = A) /\ ~(h.active /\ f.below = S)
        /\ f \in Level
    BY <2>2, JudgeFields
  <2> HIDE DEF f
  <2> QED
    BY <2>1, <2>3 DEF above, start
<1>3. /\ s.transition = Transition(h, g)
      /\ s.since = IF h.active = g.active THEN None ELSE g.candidate
  BY DEF Heeds
<1>4. g.active \in BOOLEAN /\ g.candidate \in Nat
  BY <1>2 DEF Level
<1>5. \A k \in Int : Edge(n, k) = Edge(m, k)
  BY DEF Edge
<1>6. WindowEnd(m) = Edge(m, i)
  BY EdgeFacts
\* a streak of count windows, the last of which is this one
<1>7. ASSUME NEW count \in Nat \ {0}, NEW last \in Nat, count = last + 1,
             last > 0 => Streak(m, last, h.candidate),
             g.candidate = IF count = 1 THEN m.start ELSE h.candidate
      PROVE  g.candidate = Edge(m, i - count) /\ count < i + 1 /\ Streak(n, count, g.candidate)
  <2>1. CASE last = 0
    <3>1. g.candidate = Edge(m, i - 1) /\ count = 1 /\ (i + 1) - 1 - count = i - 1
      BY <1>1, <1>7, <2>1
    <3>2. i - 1 \in Int
      BY <1>1
    <3> QED
      BY <1>1, <1>5, <3>1, <3>2 DEF Streak
  <2>2. CASE last > 0
    <3>1. last < i /\ h.candidate = Edge(m, i - 1 - last)
      BY <1>7, <2>2 DEF Streak
    <3>2. /\ i - 1 - last = i - count /\ (i + 1) - 1 - count = i - count /\ i - count \in Int
          /\ count # 1 /\ count < i + 1
      BY <1>1, <1>7, <2>2, <3>1
    <3>3. g.candidate = Edge(m, i - count)
      BY <1>7, <3>1, <3>2
    <3> QED
      BY <1>5, <3>2, <3>3 DEF Streak
  <2> QED
    BY <1>7, <2>1, <2>2
<1>8. ASSUME NEW w \in {A, S}, g.candidate = Edge(m, i - w), Length(s) = w, s.since = g.candidate
      PROVE  TimelySample(s)
  <2>1. Near((Edge(m, i) - Edge(m, i - w)) - (Edge(m, i) - Edge(m, i - 1)) * w)
    BY <1>1, <1>8, RoundedRun
  <2>2. s.to = Edge(m, i) /\ s.from = Edge(m, i - 1)
    BY <1>6
  <2> QED
    BY <1>8, <2>1, <2>2 DEF TimelySample
<1>9. CASE s.above /\ ~h.active
  <2>1. /\ g.above = h.above + 1 /\ g.below = 0 /\ (g.active <=> g.above = A)
        /\ g.above <= A /\ g.above \in Nat \ {0}
        /\ g.candidate = IF g.above = 1 THEN m.start ELSE h.candidate
    BY <1>1, <1>2, <1>9 DEF Smaller
  <2>2. /\ g.candidate = Edge(m, i - g.above) /\ Streak(n, g.above, g.candidate)
    BY <1>1, <1>7, <1>9, <2>1
  <2>3. CASE g.active
    <3>1. s.transition = "start" /\ s.since = g.candidate
      BY <1>1, <1>3, <1>4, <1>9, <2>3 DEF Transition
    <3>2. Length(s) = A
      BY <3>1 DEF Length
    <3>3. TimelySample(s)
      BY <1>8, <2>1, <2>2, <2>3, <3>1, <3>2
    <3> QED
      BY <1>1, <2>1, <2>3, <3>3
  <2>4. CASE ~g.active
    <3>1. s.since = None
      BY <1>1, <1>3, <1>4, <1>9, <2>4
    <3> QED
      BY <1>1, <2>1, <2>2, <2>4, <3>1 DEF TimelySample
  <2> QED
    BY <2>3, <2>4
<1>10. CASE ~s.above /\ h.active
  <2>1. /\ g.below = h.below + 1 /\ g.above = 0 /\ (g.active <=> g.below # S)
        /\ g.below <= S /\ g.below \in Nat \ {0}
        /\ g.candidate = IF g.below = 1 THEN m.start ELSE h.candidate
    BY <1>1, <1>2, <1>10 DEF Smaller
  <2>2. /\ g.candidate = Edge(m, i - g.below) /\ Streak(n, g.below, g.candidate)
    BY <1>1, <1>7, <1>10, <2>1
  <2>3. CASE ~g.active
    <3>1. s.transition = "stop" /\ s.since = g.candidate
      BY <1>1, <1>3, <1>4, <1>10, <2>3 DEF Transition
    <3>2. Length(s) = S
      BY <3>1 DEF Length
    <3>3. TimelySample(s)
      BY <1>8, <2>1, <2>2, <2>3, <3>1, <3>2
    <3> QED
      BY <1>1, <2>1, <2>3, <3>3
  <2>4. CASE g.active
    <3>1. s.since = None
      BY <1>1, <1>3, <1>4, <1>10, <2>4
    <3> QED
      BY <1>1, <2>1, <2>2, <2>4, <3>1 DEF TimelySample
  <2> QED
    BY <2>3, <2>4
<1>11. CASE s.above <=> h.active
  <2>1. /\ g.active <=> h.active
        /\ h.active => g.below = 0
        /\ ~h.active => g.above = 0
    BY <1>1, <1>2, <1>11
  <2>2. s.since = None
    BY <1>1, <1>3, <1>4, <2>1
  <2> QED
    BY <1>1, <2>1, <2>2 DEF TimelySample
<1> QED
  BY <1>1, <1>9, <1>10, <1>11

LEMMA IdleStreaks ==
    ASSUME NEW m, \A d \in Directions : Idle(m.level[d])
    PROVE  Streaks(m)
BY Sizes DEF Streaks, Idle

LEMMA ReadyStreaks ==
    ASSUME Typed, Abutting(meter, frame), Streaks(meter)
    PROVE  Streaks(Ready)
<1>1. CASE Lost
  BY <1>1, ReadyFacts, IdleStreaks
<1>2. CASE ~Lost /\ meter.next = None
  <2>1. \A d \in Directions : Idle(Ready.level[d])
    BY <1>2, ReadyFacts DEF Abutting
  <2> QED
    BY <2>1, IdleStreaks
<1>3. CASE ~Lost /\ meter.next # None
  BY <1>3, ReadyFacts
<1> QED
  BY <1>1, <1>2, <1>3

LEMMA TimelyProcess ==
    ASSUME Exact, NEW r, Known(r), Timely, Process
    PROVE  Timely'
<1>1. /\ Typed /\ Abutting(meter, frame) /\ port \in Seq(Notice \cup Batch)
      /\ gate.generation \in Nat
  BY DEF Known, Typed
<1>2. /\ Ready \in Meter /\ Ready.start = Edge(Ready, Ready.index - 1) /\ Streaks(Ready)
  BY <1>1, ReadyFacts, ReadyStreaks DEF Timely
<1>3. Resumption \in Seq(Notice \cup Batch) /\ TimelyIn(Resumption)
  <2>1. Message("gap") \in Notice
    BY <1>1 DEF Message, Notice
  <2>2. TimelyIn(port)
    BY DEF Timely
  <2>3. TimelyIn(Append(port, Message("gap")))
    BY <1>1, <2>1, <2>2, NoBatchAppended DEF TimelyIn, IsBatch
  <2> QED
    BY <1>1, <2>1, <2>2, <2>3, AppendFacts DEF Resumption
<1>4. Halfway(Ready) \/ \E samples : Whole(Ready, samples)
  BY <1>1, ProcessWindow
<1>5. CASE Halfway(Ready)
  <2>1. /\ port' = Resumption /\ meter'.level = Ready.level /\ meter'.index = Ready.index
        /\ meter'.origin = Ready.origin
    BY <1>5 DEF Halfway
  <2>2. Streaks(meter')
    BY <1>2, <2>1 DEF Streaks, Streak, Edge
  <2> QED
    BY <1>3, <2>1, <2>2 DEF Timely
<1>6. ASSUME NEW samples, Whole(Ready, samples) PROVE Timely'
  <2> DEFINE a == [kind |-> "samples", generation |-> gate.generation, samples |-> samples]
             m == Ready
  <2>1. /\ samples \in Samples /\ port' = Append(Resumption, a)
        /\ meter' \in Meter /\ meter'.origin = m.origin /\ meter'.index = m.index + 1
        /\ \A d \in Directions : /\ samples[d].from = m.start /\ samples[d].to = WindowEnd(m)
                                 /\ Heeds(m.level[d], samples[d], meter'.level[d])
    BY <1>6 DEF Whole
  <2>2. a \in Batch /\ a.samples = samples
    BY <1>1, <2>1 DEF Batch
  <2> HIDE DEF a, m
  <2>3. ASSUME NEW d \in Directions
        PROVE  /\ TimelySample(samples[d])
               /\ LET g == meter'.level[d] IN
                  /\ ~g.active => g.above < ActiveWindows
                  /\ g.active => g.below < SilentWindows
                  /\ ~g.active /\ g.above > 0 => Streak(meter', g.above, g.candidate)
                  /\ g.active /\ g.below > 0 => Streak(meter', g.below, g.candidate)
    <3> DEFINE h == m.level[d]
               s == samples[d]
               g == meter'.level[d]
    <3>1. /\ m \in Meter /\ m.start = Edge(m, m.index - 1) /\ h \in Level /\ s \in SampleRecord
      BY <1>2, <2>1 DEF m, Meter, Levels, Samples
    <3>2. /\ ~h.active => h.above < ActiveWindows
          /\ h.active => h.below < SilentWindows
          /\ ~h.active /\ h.above > 0 => Streak(m, h.above, h.candidate)
          /\ h.active /\ h.below > 0 => Streak(m, h.below, h.candidate)
      BY <1>2 DEF m, Streaks
    <3>3. s.from = m.start /\ s.to = WindowEnd(m) /\ Heeds(h, s, g)
      BY <2>1
    <3> HIDE DEF h, s, g
    <3>4. /\ TimelySample(s)
          /\ ~g.active => g.above < ActiveWindows
          /\ g.active => g.below < SilentWindows
          /\ ~g.active /\ g.above > 0 => Streak(meter', g.above, g.candidate)
          /\ g.active /\ g.below > 0 => Streak(meter', g.below, g.candidate)
      BY <2>1, <3>1, <3>2, <3>3, WindowTimely
    <3> QED
      BY <3>4 DEF s, g
  <2>4. Streaks(meter')
    BY <2>3 DEF Streaks
  <2>5. TimelyIn(port')
    <3> SUFFICES ASSUME NEW i \in DOMAIN port', IsBatch(port', i), NEW d \in Directions
                 PROVE  TimelySample(port'[i].samples[d])
      BY DEF TimelyIn
    <3>1. \/ i \in DOMAIN Resumption /\ port'[i] = Resumption[i]
          \/ port'[i] = a
      BY <1>3, <2>1, <2>2, AppendFacts
    <3> QED
      BY <1>3, <2>2, <2>3, <3>1 DEF TimelyIn, IsBatch
  <2> QED
    BY <2>4, <2>5 DEF Timely
<1> QED
  BY <1>4, <1>5, <1>6

LEMMA TimelyTaken ==
    ASSUME NEW r, Known(r), Timely, Taken
    PROVE  Timely'
<1>1. \A i \in DOMAIN port' : i + 1 \in DOMAIN port /\ port'[i] = port[i + 1]
  BY TakenFacts DEF Known
<1>2. meter' = meter
  BY DEF Taken
<1>3. TimelyIn(port')
  BY <1>1 DEF Timely, TimelyIn, IsBatch
<1> QED
  BY <1>2, <1>3 DEF Timely

LEMMA TimelyGate ==
    ASSUME NEW r, Known(r), Timely, Gate
    PROVE  Timely'
<1>1. meter' = Reset(meter) /\ port' = port /\ meter \in Meter
  BY DEF Gate, Known, Typed
<1>2. Streaks(meter')
  BY <1>1, ResetMeter, IdleStreaks
<1> QED
  BY <1>1, <1>2 DEF Timely

LEMMA TimelyProcessFails ==
    ASSUME NEW r, Known(r), Timely, ProcessFails
    PROVE  Timely'
<1>1. port' = Append(port, Message("failure")) /\ meter' = meter
  BY DEF ProcessFails
<1>2. Message("failure") \in Notice /\ port \in Seq(Notice \cup Batch)
  BY DEF Known, Typed, Message, Notice
<1>3. TimelyIn(port')
  BY <1>1, <1>2, NoBatchAppended DEF Timely, TimelyIn, IsBatch
<1> QED
  BY <1>1, <1>3 DEF Timely
-----------------------------------------------------------------------------
(* What is on its way takes the levels of the reader to those of the meter *)

Alike(h, g) ==
    /\ h.above = g.above /\ h.below = g.below /\ (h.active <=> g.active)
    /\ h.above + h.below > 0 => h.candidate = g.candidate
AllAlike(l, m) == \A d \in Directions : Alike(l[d], m[d])

\* What a message does to the levels of a reader of generation g.
Carries(g, l, message, l2) ==
    IF message.generation # g \/ message.kind = "failure" THEN l2 = l
    ELSE IF message.kind = "gap" THEN l2 = Quiet
    ELSE \A d \in Directions : Heeds(l[d], message.samples[d], l2[d])
Turns(q, g, l, l2) ==
    \E lv \in [0..Len(q) -> Levels] :
      /\ lv[0] = l /\ lv[Len(q)] = l2
      /\ \A i \in DOMAIN q : Carries(g, lv[i - 1], q[i], lv[i])
Echoes(r) ==
    Open /\ monitor.active /\ gates = <<>> =>
      \E l \in Levels : /\ Turns(port, monitor.generation, Held(r), l)
                        /\ AllAlike(l, meter.level)

LEMMA TurnsAppend ==
    ASSUME NEW M, NEW q \in Seq(M), NEW a \in M, NEW g, NEW l, NEW l2, NEW l3 \in Levels,
           Turns(q, g, l, l2), Carries(g, l2, a, l3)
    PROVE  Turns(Append(q, a), g, l, l3)
<1> DEFINE t == Append(q, a)
           n == Len(q)
<1>1. /\ n \in Nat /\ DOMAIN q = 1..n /\ t[n + 1] = a /\ DOMAIN t = 1..(n + 1)
      /\ Len(t) = n + 1 /\ \A i \in 1..n : t[i] = q[i]
  BY AppendFacts
<1>2. PICK lv \in [0..n -> Levels] :
        /\ lv[0] = l /\ lv[n] = l2
        /\ \A i \in DOMAIN q : Carries(g, lv[i - 1], q[i], lv[i])
  BY DEF Turns
<1> HIDE DEF t, n
<1> DEFINE mv == [i \in 0..(n + 1) |-> IF i = n + 1 THEN l3 ELSE lv[i]]
<1>3. /\ mv \in [0..(n + 1) -> Levels]
      /\ mv[n + 1] = l3 /\ \A i \in 0..n : mv[i] = lv[i]
  BY <1>1, <1>2
<1> HIDE DEF mv
<1>4. 0 \in 0..n /\ mv[0] = l
  <2>1. 0 \in 0..n
    BY <1>1
  <2> QED
    BY <1>2, <1>3, <2>1
<1>5. ASSUME NEW i \in 1..(n + 1) PROVE Carries(g, mv[i - 1], t[i], mv[i])
  <2>1. CASE i = n + 1
    <3>1. i - 1 = n /\ n \in 0..n
      BY <1>1, <2>1
    <3> QED
      BY <1>1, <1>2, <1>3, <2>1, <3>1
  <2>2. CASE i # n + 1
    <3>1. i \in 1..n /\ i \in 0..n /\ i - 1 \in 0..n
      BY <1>1, <2>2
    <3> QED
      BY <1>1, <1>2, <1>3, <3>1
  <2> QED
    BY <2>1, <2>2
<1>6. Turns(t, g, l, l3)
  BY <1>1, <1>3, <1>4, <1>5 DEF Turns
<1> QED
  BY <1>6 DEF t

LEMMA TurnsTaken ==
    ASSUME Typed, Taken, NEW g, NEW l, NEW l2, Turns(port, g, l, l2)
    PROVE  \E l1 \in Levels : Carries(g, l, Head(port), l1) /\ Turns(port', g, l1, l2)
<1> DEFINE n == Len(port)
<1>1. /\ n \in Nat \ {0} /\ DOMAIN port = 1..n /\ Head(port) = port[1]
      /\ Len(port') = n - 1 /\ DOMAIN port' = 1..(n - 1)
      /\ \A i \in DOMAIN port' : i + 1 \in DOMAIN port /\ port'[i] = port[i + 1]
  BY TakenFacts
<1>2. PICK lv \in [0..n -> Levels] :
        /\ lv[0] = l /\ lv[n] = l2
        /\ \A i \in DOMAIN port : Carries(g, lv[i - 1], port[i], lv[i])
  BY DEF Turns
<1> HIDE DEF n
<1> DEFINE mv == [i \in 0..(n - 1) |-> lv[i + 1]]
<1>3. /\ mv \in [0..(n - 1) -> Levels] /\ \A i \in 0..(n - 1) : mv[i] = lv[i + 1]
  BY <1>1, <1>2
<1> HIDE DEF mv
<1>4. 0 \in 0..(n - 1) /\ n - 1 \in 0..(n - 1) /\ 1 \in 1..n /\ 1 \in 0..n /\ (n - 1) + 1 = n
  BY <1>1
<1>5. mv[0] = lv[1] /\ mv[n - 1] = l2
  BY <1>2, <1>3, <1>4
<1>6. ASSUME NEW i \in 1..(n - 1) PROVE Carries(g, mv[i - 1], port'[i], mv[i])
  <2>1. /\ i + 1 \in 1..n /\ (i + 1) - 1 = i /\ i \in 0..(n - 1) /\ i - 1 \in 0..(n - 1)
        /\ (i - 1) + 1 = i
    BY <1>1
  <2>2. mv[i] = lv[i + 1] /\ mv[i - 1] = lv[i] /\ port'[i] = port[i + 1]
    BY <1>1, <1>3, <2>1
  <2>3. Carries(g, lv[(i + 1) - 1], port[i + 1], lv[i + 1])
    BY <1>1, <1>2, <2>1
  <2> QED
    BY <2>1, <2>2, <2>3
<1>7. lv[1] \in Levels /\ Carries(g, l, Head(port), lv[1])
  <2>1. 1 - 1 = 0
    OBVIOUS
  <2>2. Carries(g, lv[1 - 1], port[1], lv[1])
    BY <1>1, <1>2, <1>4
  <2> QED
    BY <1>1, <1>2, <1>4, <2>1, <2>2
<1>8. Turns(port', g, lv[1], l2)
  BY <1>1, <1>3, <1>5, <1>6 DEF Turns
<1> QED
  BY <1>7, <1>8

\* Messages of earlier generations turn nothing.
LEMMA TurnsNothing ==
    ASSUME NEW M, NEW q \in Seq(M), NEW g, NEW l \in Levels,
           \A i \in DOMAIN q : q[i].generation # g
    PROVE  Turns(q, g, l, l)
<1> DEFINE n == Len(q)
           lv == [i \in 0..n |-> l]
<1>1. n \in Nat /\ DOMAIN q = 1..n
  OBVIOUS
<1> HIDE DEF n
<1>2. lv \in [0..n -> Levels] /\ 0 \in 0..n /\ n \in 0..n
  <2>1. 0 \in 0..n /\ n \in 0..n
    BY <1>1
  <2> QED
    BY <2>1
<1>3. \A i \in 0..n : lv[i] = l
  OBVIOUS
<1> HIDE DEF lv
<1>4. ASSUME NEW i \in 1..n PROVE Carries(g, lv[i - 1], q[i], lv[i])
  <2>1. i \in 0..n /\ i - 1 \in 0..n
    BY <1>1
  <2> QED
    BY <1>1, <1>3, <2>1 DEF Carries
<1> QED
  BY <1>1, <1>2, <1>3, <1>4 DEF Turns, n

LEMMA AlikeHeeds ==
    ASSUME NEW h \in Level, NEW h2 \in Level, Alike(h2, h), NEW s \in SampleRecord, NEW g,
           Heeds(h, s, g)
    PROVE  LET g2 == Judge(h2, s.above, s.from) IN
           g2 \in Level /\ Heeds(h2, s, g2) /\ Alike(g2, g)
<1> DEFINE g2 == Judge(h2, s.above, s.from)
           A == ActiveWindows
           S == SilentWindows
<1>1. s.above \in BOOLEAN /\ s.from \in Nat
  BY DEF SampleRecord
<1>2. g = Judge(h, s.above, s.from)
  BY DEF Heeds
<1>3. /\ g.above = IF s.above THEN Smaller(A, h.above + 1) ELSE 0
      /\ g.below = IF s.above THEN 0 ELSE Smaller(S, h.below + 1)
      /\ g.candidate = IF (IF s.above THEN g.above ELSE g.below) = 1 THEN s.from
                       ELSE h.candidate
      /\ g.active <=> (h.active \/ g.above = A) /\ ~(h.active /\ g.below = S)
      /\ g \in Level
  BY <1>1, <1>2, JudgeFields
<1>4. /\ g2.above = IF s.above THEN Smaller(A, h2.above + 1) ELSE 0
      /\ g2.below = IF s.above THEN 0 ELSE Smaller(S, h2.below + 1)
      /\ g2.candidate = IF (IF s.above THEN g2.above ELSE g2.below) = 1 THEN s.from
                        ELSE h2.candidate
      /\ g2.active <=> (h2.active \/ g2.above = A) /\ ~(h2.active /\ g2.below = S)
      /\ g2 \in Level
  BY <1>1, JudgeFields
<1>5. g2 = Judge(h2, s.above, s.from)
  OBVIOUS
<1> HIDE DEF g2
<1>6. g2.above = g.above /\ g2.below = g.below /\ (g2.active <=> g.active)
  BY <1>3, <1>4 DEF Alike
<1>7. /\ h.above \in Nat /\ h.below \in Nat /\ g.above \in Nat /\ g.below \in Nat
      /\ h.active \in BOOLEAN /\ h2.active \in BOOLEAN
      /\ g.active \in BOOLEAN /\ g2.active \in BOOLEAN
  BY <1>3, <1>4 DEF Level
<1>8. g.above + g.below > 0 => g2.candidate = g.candidate
  <2>1. CASE s.above
    <3>1. CASE g.above = 1
      BY <1>3, <1>4, <1>6, <2>1, <3>1
    <3>2. CASE g.above # 1
      <4>1. h.above > 0
        BY <1>3, <1>7, <2>1, <3>2, Sizes DEF Smaller
      <4>2. h2.candidate = h.candidate
        BY <1>7, <4>1 DEF Alike
      <4> QED
        BY <1>3, <1>4, <1>6, <2>1, <3>2, <4>2
    <3> QED
      BY <3>1, <3>2
  <2>2. CASE ~s.above
    <3>1. CASE g.below = 1
      BY <1>3, <1>4, <1>6, <2>2, <3>1
    <3>2. CASE g.below # 1
      <4>1. h.below > 0
        BY <1>3, <1>7, <2>2, <3>2, Sizes DEF Smaller
      <4>2. h2.candidate = h.candidate
        BY <1>7, <4>1 DEF Alike
      <4> QED
        BY <1>3, <1>4, <1>6, <2>2, <3>2, <4>2
    <3> QED
      BY <3>1, <3>2
  <2> QED
    BY <1>1, <2>1, <2>2
<1>9. h2.active = h.active /\ g2.active = g.active
  BY <1>6, <1>7 DEF Alike
<1>10. h.active # g.active => g.above + g.below > 0
  BY <1>3, <1>7, Sizes
<1>11. Heeds(h2, s, g2)
  <2>1. s.active = g2.active /\ s.transition = Transition(h2, g2)
    BY <1>9 DEF Heeds, Transition
  <2>2. s.since = IF h2.active = g2.active THEN None ELSE g2.candidate
    BY <1>8, <1>9, <1>10 DEF Heeds
  <2> QED
    BY <1>5, <2>1, <2>2 DEF Heeds
<1>12. Alike(g2, g)
  BY <1>6, <1>8 DEF Alike
<1> QED
  BY <1>4, <1>11, <1>12 DEF g2

LEMMA QuietAlike ==
    ASSUME NEW m, \A d \in Directions : Idle(m[d])
    PROVE  AllAlike(Quiet, m)
BY QuietLevels DEF AllAlike, Alike, Idle

LEMMA EchoesGate ==
    ASSUME NEW r, Known(r), Gate
    PROVE  Echoes(r)'
<1>1. /\ Typed /\ r \in Reader /\ port \in Seq(Notice \cup Batch) /\ meter \in Meter
      /\ gates \in Seq([enabled: BOOLEAN, generation: Nat])
  BY DEF Known, Typed
<1>2. gates # <<>> /\ meter' = Reset(meter) /\ port' = port /\ monitor' = monitor
  BY DEF Gate
<1> SUFFICES ASSUME Open, monitor.active
             PROVE  \E l \in Levels : /\ Turns(port, monitor.generation, Held(r), l)
                                      /\ AllAlike(l, meter'.level)
  BY <1>2 DEF Echoes, Open
<1>3. \A i \in DOMAIN port : port[i].generation # monitor.generation
  <2>1. Generations
    BY DEF Known
  <2>2. monitor.generation = gate.generation + Len(gates) /\ gate.generation \in Nat
    BY <1>1, <2>1 DEF Generations, Typed
  <2>3. Len(gates) \in Nat \ {0}
    BY <1>1, <1>2
  <2> SUFFICES ASSUME NEW i \in DOMAIN port PROVE port[i].generation # monitor.generation
    OBVIOUS
  <2>4. port[i].generation <= gate.generation
    BY <2>1 DEF Generations
  <2>5. port[i].generation \in Nat
    <3>1. port[i] \in Notice \cup Batch
      BY <1>1
    <3> QED
      BY <3>1 DEF Notice, Batch
  <2> QED
    BY <2>2, <2>3, <2>4, <2>5
<1>4. Held(r) = Quiet
  <2>1. \A d \in Directions : r.in[d] < r.segment /\ r.in[d] \in Nat /\ r.segment \in Nat
    BY <1>1, <1>2 DEF Known, Told, Reader
  <2>2. \A d \in Directions : Held(r)[d] = Quiet[d]
    BY <1>1, <2>1, HeldLevels
  <2> QED
    BY <1>1, <2>2, HeldLevels, QuietLevels DEF Levels
<1>5. Turns(port, monitor.generation, Quiet, Quiet)
  BY <1>1, <1>3, QuietLevels, TurnsNothing
<1>6. AllAlike(Quiet, meter'.level)
  BY <1>1, <1>2, ResetMeter, QuietAlike
<1> QED
  BY <1>4, <1>5, <1>6, QuietLevels

LEMMA EchoesProcess ==
    ASSUME NEW r, Known(r), Echoes(r), Process
    PROVE  Echoes(r)'
<1> DEFINE g == monitor.generation
           M == Notice \cup Batch
<1>1. /\ Typed /\ Abutting(meter, frame) /\ port \in Seq(M) /\ meter \in Meter
      /\ gate.generation \in Nat
  BY DEF Known, Typed
<1>2. gates' = gates /\ monitor' = monitor
  BY DEF Process
<1> SUFFICES ASSUME Open, monitor.active, gates = <<>>
             PROVE  \E l \in Levels : Turns(port', g, Held(r), l) /\ AllAlike(l, meter'.level)
  BY <1>2 DEF Echoes, Open
<1>3. PICK l \in Levels : Turns(port, g, Held(r), l) /\ AllAlike(l, meter.level)
  BY DEF Echoes
<1>4. gate.generation = g
  <2>1. g = gate.generation + Len(gates)
    BY DEF Known, Generations
  <2>2. Len(gates) = 0
    OBVIOUS
  <2> QED
    BY <1>1, <2>1, <2>2
<1>5. Ready \in Meter
  BY <1>1, ReadyFacts
<1>6. PICK l1 \in Levels : Turns(Resumption, g, Held(r), l1) /\ AllAlike(l1, Ready.level)
  <2>1. CASE Lost
    <3> DEFINE a == Message("gap")
    <3>1. a \in M /\ a.kind = "gap" /\ a.generation = gate.generation
      BY <1>1 DEF Message, Notice
    <3> HIDE DEF a
    <3>2. Carries(g, l, a, Quiet)
      BY <1>4, <3>1 DEF Carries
    <3>3. Turns(Append(port, a), g, Held(r), Quiet)
      <4> HIDE DEF M, g
      <4> QED
        BY <1>1, <1>3, <3>1, <3>2, QuietLevels, TurnsAppend
    <3>4. AllAlike(Quiet, Ready.level)
      BY <1>1, <2>1, ReadyFacts, QuietAlike
    <3>5. Resumption = Append(port, a)
      BY <2>1 DEF Resumption, a
    <3> QED
      BY <3>3, <3>4, <3>5, QuietLevels
  <2>2. CASE ~Lost
    <3>1. Resumption = port /\ Ready.level = meter.level
      BY <1>1, <2>2, ReadyFacts DEF Resumption
    <3> QED
      BY <1>3, <3>1
  <2> QED
    BY <2>1, <2>2
<1>7. Halfway(Ready) \/ \E samples : Whole(Ready, samples)
  BY <1>1, ProcessWindow
<1>8. CASE Halfway(Ready)
  <2>1. port' = Resumption /\ meter'.level = Ready.level
    BY <1>8 DEF Halfway
  <2> QED
    BY <1>6, <2>1
<1>9. ASSUME NEW samples, Whole(Ready, samples)
      PROVE  \E l2 \in Levels : Turns(port', g, Held(r), l2) /\ AllAlike(l2, meter'.level)
  <2> DEFINE a == [kind |-> "samples", generation |-> gate.generation, samples |-> samples]
             l2 == [d \in Directions |-> Judge(l1[d], samples[d].above, samples[d].from)]
             m == Ready
  <2>1. /\ samples \in Samples /\ port' = Append(Resumption, a)
        /\ \A d \in Directions : Heeds(m.level[d], samples[d], meter'.level[d])
    BY <1>9 DEF Whole
  <2>2. /\ a \in M /\ a.samples = samples /\ a.kind = "samples"
        /\ a.generation = gate.generation
    BY <1>1, <2>1 DEF Batch
  <2>3. \A d \in Directions : l2[d] = Judge(l1[d], samples[d].above, samples[d].from)
    OBVIOUS
  <2>4. l2 = [d \in Directions |-> l2[d]]
    OBVIOUS
  <2> HIDE DEF a, l2, m
  <2>5. ASSUME NEW d \in Directions
        PROVE  /\ l2[d] \in Level /\ Heeds(l1[d], samples[d], l2[d])
               /\ Alike(l2[d], meter'.level[d])
    <3>1. /\ m.level[d] \in Level /\ l1[d] \in Level /\ samples[d] \in SampleRecord
          /\ Alike(l1[d], m.level[d])
      BY <1>5, <1>6, <2>1 DEF m, Meter, Levels, Samples, AllAlike
    <3> DEFINE h == m.level[d]
               h2 == l1[d]
               s == samples[d]
               n == meter'.level[d]
               g2 == Judge(h2, s.above, s.from)
    <3>2. /\ h \in Level /\ h2 \in Level /\ s \in SampleRecord /\ Alike(h2, h)
          /\ Heeds(h, s, n) /\ l2[d] = g2
      BY <2>1, <2>3, <3>1
    <3> HIDE DEF h, h2, s, n
    <3>3. g2 \in Level /\ Heeds(h2, s, g2) /\ Alike(g2, n)
      BY <3>2, AlikeHeeds
    <3> QED
      BY <3>2, <3>3 DEF h2, s, n
  <2>6. l2 \in Levels
    BY <2>4, <2>5 DEF Levels
  <2>7. Carries(g, l1, a, l2)
    BY <1>4, <2>2, <2>5 DEF Carries
  <2>8. Resumption \in Seq(M)
    BY <1>1, AppendFacts DEF Resumption, Message, Notice
  <2>9. Turns(Append(Resumption, a), g, Held(r), l2)
    <3> HIDE DEF M, g
    <3> QED
      BY <1>6, <2>2, <2>6, <2>7, <2>8, TurnsAppend
  <2>10. AllAlike(l2, meter'.level)
    BY <2>5 DEF AllAlike
  <2> QED
    BY <2>1, <2>6, <2>9, <2>10
<1> QED
  BY <1>7, <1>8, <1>9

LEMMA EchoesProcessFails ==
    ASSUME NEW r, Known(r), Echoes(r), ProcessFails
    PROVE  Echoes(r)'
<1> DEFINE M == Notice \cup Batch
           a == Message("failure")
<1>1. port' = Append(port, a) /\ meter' = meter /\ monitor' = monitor /\ gates' = gates
  BY DEF ProcessFails
<1>2. a \in M /\ a.kind = "failure" /\ port \in Seq(M)
  BY DEF Known, Typed, Message, Notice
<1> HIDE DEF a, M
<1>3. ASSUME NEW l \in Levels, Turns(port, monitor.generation, Held(r), l)
      PROVE  Turns(port', monitor.generation, Held(r), l)
  <2>1. Carries(monitor.generation, l, a, l)
    BY <1>2 DEF Carries
  <2> QED
    BY <1>1, <1>2, <1>3, <2>1, TurnsAppend
<1> QED
  BY <1>1, <1>3 DEF Echoes, Open

\* A message taken: what it does to the levels the reader does as well.
LEMMA EchoesTaken ==
    ASSUME NEW r, Known(r), Echoes(r), Taken, NEW q,
           monitor'.active = monitor.active, monitor'.generation = monitor.generation,
           Open' <=> Open,
           Open /\ monitor.active /\ gates = <<>> =>
             \A l1 \in Levels : Carries(monitor.generation, Held(r), Head(port), l1)
                                  => l1 = Held(q)
    PROVE  Echoes(q)'
<1>1. Typed /\ gates' = gates /\ meter' = meter
  BY DEF Known, Taken
<1> SUFFICES ASSUME Open, monitor.active, gates = <<>>
             PROVE  \E l \in Levels : /\ Turns(port', monitor.generation, Held(q), l)
                                      /\ AllAlike(l, meter.level)
  BY <1>1 DEF Echoes
<1>2. PICK l \in Levels : /\ Turns(port, monitor.generation, Held(r), l)
                          /\ AllAlike(l, meter.level)
  BY DEF Echoes
<1>3. PICK l1 \in Levels : /\ Carries(monitor.generation, Held(r), Head(port), l1)
                           /\ Turns(port', monitor.generation, l1, l)
  BY <1>1, <1>2, TurnsTaken
<1>4. l1 = Held(q)
  BY <1>3
<1> QED
  BY <1>2, <1>3, <1>4

LEMMA EchoesDropped ==
    ASSUME NEW r, Known(r), Echoes(r), Dropped
    PROVE  Echoes(r)'
<1>1. Taken /\ monitor' = monitor
  BY DEF Dropped
<1>2. ASSUME Open, monitor.active, NEW l1,
             Carries(monitor.generation, Held(r), Head(port), l1)
      PROVE  l1 = Held(r)
  BY <1>2 DEF Dropped, Accepts, Carries
<1> QED
  BY <1>1, <1>2, EchoesTaken DEF Open

LEMMA EchoesInterrupted ==
    ASSUME NEW r, Known(r), Echoes(r), Interrupted, NEW p, Noted(r, p, "paused"),
           NEW q, Noted(p, q, "measuring")
    PROVE  Echoes(q)'
<1>1. /\ Taken /\ monitor' = monitor /\ Head(port).kind = "gap"
      /\ Head(port).generation = monitor.generation
  BY DEF Interrupted, Accepts
<1>2. Held(q) = Quiet
  <2>1. /\ q \in Reader /\ q.in = r.in /\ q.segment = r.segment + 1 /\ r \in Reader
    BY DEF Noted, Known
  <2>2. \A d \in Directions : r.in[d] <= r.segment /\ r.in[d] \in Nat /\ r.segment \in Nat
    BY <2>1 DEF Known, Told, Reader
  <2>3. \A d \in Directions : q.in[d] # q.segment
    BY <2>1, <2>2
  <2>4. \A d \in Directions : Held(q)[d] = Quiet[d]
    BY <2>1, <2>3, HeldLevels
  <2> QED
    BY <2>1, <2>4, HeldLevels, QuietLevels DEF Levels
<1>3. ASSUME NEW l1, Carries(monitor.generation, Held(r), Head(port), l1)
      PROVE  l1 = Held(q)
  BY <1>1, <1>2, <1>3 DEF Carries
<1> QED
  BY <1>1, <1>3, EchoesTaken DEF Open

LEMMA EchoesHeard ==
    ASSUME NEW r, Known(r), Echoes(r), Heard, NEW q,
           Took(r, q, Head(port).samples, Directions)
    PROVE  Echoes(q)'
<1>1. /\ Taken /\ Head(port).kind = "samples"
      /\ Head(port).generation = monitor.generation
  BY DEF Heard, Accepts
<1>2. /\ monitor'.active = monitor.active /\ monitor'.generation = monitor.generation
      /\ Open' <=> Open
  BY DEF Heard, Known, Typed, Monitor, Open
<1>3. q \in Reader /\ \A d \in Directions :
                        LET s == Head(port).samples[d] IN
                        q.in[d] = q.segment /\ q.level[d] = Judge(Held(r)[d], s.above, s.from)
  BY DEF Took
<1>4. ASSUME NEW l1 \in Levels, Carries(monitor.generation, Held(r), Head(port), l1)
      PROVE  l1 = Held(q)
  <2>1. \A d \in Directions : Heeds(Held(r)[d], Head(port).samples[d], l1[d])
    BY <1>1, <1>4 DEF Carries
  <2>2. \A d \in Directions : l1[d] = q.level[d]
    BY <1>3, <2>1 DEF Heeds
  <2>3. \A d \in Directions : l1[d] = Held(q)[d]
    BY <1>3, <2>2, HeldLevels
  <2> QED
    BY <1>3, <2>3, HeldLevels DEF Levels
<1> QED
  BY <1>1, <1>2, <1>4, EchoesTaken
-----------------------------------------------------------------------------
(* The record is evidence *)

\* No sample that the monitor accepts is refused.
LEMMA HeardNotRefused ==
    ASSUME NEW r, Known(r), Echoes(r), Ordered(r), Timely, Heard, NEW d \in Directions
    PROVE  ~Refuses(r, Head(port).samples[d])
<1> DEFINE s == Head(port).samples[d]
           h == Held(r)[d]
           g == monitor.generation
<1>1. /\ Typed /\ Taken /\ Open /\ Accepts(Head(port)) /\ Head(port).kind = "samples"
      /\ r \in Reader
  BY DEF Heard, Known
<1>2. gates = <<>> /\ monitor.active /\ Head(port).generation = g
  BY <1>1, AcceptedIsCurrent
<1>3. 1 \in DOMAIN port /\ Head(port) = port[1] /\ IsBatch(port, 1)
  BY <1>1, TakenFacts DEF IsBatch
<1>4. /\ s \in SampleRecord /\ s.direction = d /\ s.sequence \in Nat /\ s.from \in Nat
  <2>1. port \in Seq(Notice \cup Batch)
    BY <1>1 DEF Typed
  <2>2. port[1].samples \in Samples /\ port[1].samples[d] \in SampleRecord
    BY <1>3, <2>1, BatchSamples
  <2> QED
    BY <1>3, <2>2 DEF Samples, SampleRecord
<1>5. r.status = "measuring"
  BY <1>2 DEF Known, Told
<1>6. r.sequence[d] < s.sequence /\ (r.to[d] # None => r.to[d] <= s.from)
  BY <1>3 DEF Ordered, Ahead
<1>7. r.sequence[d] \in Nat /\ (r.to[d] # None => r.to[d] \in Nat)
  BY <1>1 DEF Reader
<1>8. PICK l \in Levels : Turns(port, g, Held(r), l)
  BY <1>1, <1>2 DEF Echoes
<1>9. PICK l1 \in Levels : Carries(g, Held(r), Head(port), l1)
  BY <1>1, <1>8, TurnsTaken
<1>10. Heeds(h, s, l1[d])
  BY <1>1, <1>2, <1>9 DEF Carries
<1>11. TimelySample(s)
  BY <1>3 DEF Timely, TimelyIn
<1>12. l1[d] \in Level
  BY DEF Levels
<1> HIDE DEF s, h
<1>13. ~Clashes(h, s)
  <2> DEFINE n == l1[d]
  <2>1. /\ n = Judge(h, s.above, s.from)
        /\ s.active = n.active /\ s.transition = Transition(h, n)
        /\ s.since = IF h.active = n.active THEN None ELSE n.candidate
    BY <1>10 DEF Heeds
  <2>2. n.candidate \in Nat
    BY <1>12 DEF Level
  <2> HIDE DEF n
  <2>3. n.candidate # None /\ n.candidate - n.candidate = 0
    BY <2>2, NoneIsNoOther
  <2>4. Near(0)
    BY Sizes DEF Near, Abs
  <2>5. s.transition # None => s.since # None /\ Near(s.since - n.candidate)
    BY <2>1, <2>3, <2>4 DEF Transition
  <2> QED
    BY <1>11, <2>1, <2>5 DEF Clashes, TimelySample
<1>14. ~(s.sequence <= r.sequence[d]) /\ ~(r.to[d] # None /\ s.from < r.to[d])
  BY <1>4, <1>6, <1>7
<1> QED
  BY <1>4, <1>5, <1>13, <1>14 DEF Refuses, s, h

Evident(r) ==
    /\ Known(r) /\ Timely /\ Echoes(r)
    /\ Open => Ordered(r)
    /\ ~monitor.failed => ~r.refused

LEMMA EvidentInit == Init => \E r : Evident(r)
<1> SUFFICES ASSUME Init PROVE Evident(Unread)
  OBVIOUS
<1>1. Known(Unread)
  <2>1. \A r : Known(r) => r = Unread
    BY DEF Init, Known, Told
  <2> QED
    BY <2>1, KnownInit
<1>2. /\ port = <<>> /\ gates = <<>> /\ ~monitor.active
      /\ meter.level = Quiet /\ meter.sequence = 0
  BY DEF Init
<1>3. Timely
  <2>1. \A d \in Directions : Idle(meter.level[d])
    BY <1>2, QuietLevels DEF Idle
  <2> QED
    BY <1>2, <2>1, IdleStreaks DEF Timely, TimelyIn
<1>4. Echoes(Unread)
  BY <1>2 DEF Echoes
<1>5. Ordered(Unread)
  <2>1. \A d \in Directions : Unread.sequence[d] = 0 /\ Unread.to[d] = None
    BY DEF Unread
  <2>2. Caught(Unread, meter)
    BY <1>2, <2>1 DEF Caught
  <2> QED
    BY <1>2, <2>2 DEF Ordered, Row, Behind, Ahead
<1>6. ~Unread.refused
  BY DEF Unread
<1> QED
  BY <1>1, <1>3, <1>4, <1>5, <1>6 DEF Evident

\* The orders are kept by whatever leaves the port, the meter and the reader's places.
LEMMA OrderedKept ==
    ASSUME NEW r, NEW q, Ordered(r), port' = port,
           meter'.sequence = meter.sequence, meter'.start = meter.start,
           q.sequence = r.sequence, q.to = r.to
    PROVE  Ordered(q)'
BY DEF Ordered, Row, Behind, Ahead, Caught

LEMMA EvidentStep ==
    ASSUME Exact, NEW r, Evident(r), [Next]_vars
    PROVE  \E q : Evident(q)'
<1>0. /\ Known(r) /\ Timely /\ Echoes(r) /\ (Open => Ordered(r))
      /\ (~monitor.failed => ~r.refused) /\ r \in Reader
      /\ meter \in Meter /\ port \in Seq(Notice \cup Batch)
  BY DEF Evident, Known, Typed
<1>1. CASE Gate
  <2>1. Known(r)' /\ Timely' /\ Echoes(r)'
    BY <1>0, <1>1, GateKnown, TimelyGate, EchoesGate
  <2>2. monitor' = monitor /\ port' = port /\ meter' = Reset(meter)
    BY <1>1 DEF Gate
  <2>3. Open' => Ordered(r)'
    BY <1>0, <2>2, ResetMeter, OrderedKept DEF Open
  <2> QED
    BY <1>0, <2>1, <2>2, <2>3 DEF Evident
<1>2. CASE Process
  <2>1. Known(r)' /\ Timely' /\ Echoes(r)'
    BY <1>0, <1>2, ProcessKnown, TimelyProcess, EchoesProcess
  <2>2. monitor' = monitor
    BY <1>2 DEF Process
  <2>3. Open' => Ordered(r)'
    BY <1>0, <1>2, <2>2, OrderedProcess DEF Open
  <2> QED
    BY <1>0, <2>1, <2>2, <2>3 DEF Evident
<1>3. CASE Skip
  <2>1. Known(r)'
    BY <1>0, <1>3, SkipKnown
  <2>2. gates' = gates /\ port' = port /\ meter' = meter /\ monitor' = monitor
    BY <1>3 DEF Skip
  <2>3. Timely' /\ Echoes(r)'
    BY <1>0, <2>2, Zenon DEF Timely, Echoes, Open
  <2>4. Open' => Ordered(r)'
    BY <1>0, <2>2, OrderedKept DEF Open
  <2> QED
    BY <1>0, <2>1, <2>2, <2>3, <2>4 DEF Evident
<1>4. CASE ProcessFails
  <2>1. Known(r)' /\ Timely' /\ Echoes(r)'
    BY <1>0, <1>4, ProcessFailsKnown, TimelyProcessFails, EchoesProcessFails
  <2>2. monitor' = monitor /\ port' = Append(port, Message("failure")) /\ meter' = meter
    BY <1>4 DEF ProcessFails
  <2>3. Message("failure") \in Notice
    BY <1>0 DEF Known, Typed, Message, Notice
  <2>4. Open' => Ordered(r)'
    BY <1>0, <2>2, <2>3, NoBatchAppended DEF Open, Ordered
  <2> QED
    BY <1>0, <2>1, <2>2, <2>4 DEF Evident
<1>5. CASE SetActive
  <2>1. PICK q : /\ Known(q)'
                 /\ Noted(r, q, IF monitor.active THEN "paused" ELSE "measuring")
                 /\ gates' # <<>>
    BY <1>0, <1>5, SetActiveKnown
  <2>2. Open /\ port' = port /\ meter' = meter
    BY <1>5 DEF SetActive, Open, workletVars
  <2>3. Timely'
    BY <1>0, <2>2 DEF Timely
  <2>4. Echoes(q)'
    BY <2>1 DEF Echoes
  <2>5. q.sequence = r.sequence /\ q.to = r.to
    BY <2>1 DEF Noted
  <2>6. Ordered(q)'
    BY <1>0, <2>2, <2>5, OrderedKept
  <2>7. ~q.refused
    <3>1. r.status \notin {"closed", "error"} /\ ~r.refused
      BY <1>0, <2>2 DEF Known, Told, Open
    <3> QED
      BY <2>1, <3>1 DEF Noted
  <2> QED
    BY <2>1, <2>3, <2>4, <2>6, <2>7 DEF Evident
<1>6. CASE Receive
  <2>1. Dropped \/ Collapsed \/ Interrupted \/ Heard
    BY <1>0, <1>6, ReceiveCases DEF Known
  <2>2. Timely'
    <3>1. Taken
      BY <2>1 DEF Dropped, Collapsed, Interrupted, Heard
    <3> QED
      BY <1>0, <3>1, TimelyTaken
  <2>3. CASE Dropped
    <3>1. Known(r)' /\ Echoes(r)'
      BY <1>0, <2>3, DroppedKnown, EchoesDropped
    <3>2. Taken /\ monitor' = monitor
      BY <2>3 DEF Dropped
    <3>3. Open' => Ordered(r)'
      BY <1>0, <3>2, OrderedTaken DEF Open
    <3> QED
      BY <1>0, <2>2, <3>1, <3>2, <3>3 DEF Evident
  <2>4. CASE Collapsed
    <3>1. PICK q : Known(q)' /\ monitor'.failed
      BY <1>0, <2>4, CollapsedKnown
    <3> QED
      BY <2>2, <3>1 DEF Evident, Echoes, Open
  <2>5. CASE Interrupted
    <3>1. PICK p, q : Known(q)' /\ Noted(r, p, "paused") /\ Noted(p, q, "measuring")
      BY <1>0, <2>5, InterruptedKnown
    <3>2. Taken /\ Open /\ monitor' = monitor
      BY <2>5 DEF Interrupted
    <3>3. Echoes(q)'
      BY <1>0, <2>5, <3>1, EchoesInterrupted
    <3>4. q.sequence = r.sequence /\ q.to = r.to /\ q \in Reader
      BY <3>1 DEF Noted
    <3>5. Ordered(q)'
      BY <1>0, <3>2, <3>4, OrderedTaken
    <3>6. ~q.refused
      <4>1. ~r.refused
        BY <1>0, <3>2 DEF Open
      <4>2. p.status = "paused" /\ ~p.refused
        BY <3>1, <4>1 DEF Noted
      <4> QED
        BY <3>1, <4>2 DEF Noted
    <3> QED
      BY <2>2, <3>1, <3>3, <3>5, <3>6 DEF Evident
  <2>6. CASE Heard
    <3>1. PICK q : Known(q)' /\ Took(r, q, Head(port).samples, Directions)
      BY <1>0, <2>6, HeardKnown
    <3>2. Taken /\ Open /\ Head(port).kind = "samples"
      BY <2>6 DEF Heard
    <3>3. Echoes(q)'
      BY <1>0, <2>6, <3>1, EchoesHeard
    <3>4. /\ q \in Reader
          /\ \A d \in Directions : /\ q.sequence[d] = Head(port).samples[d].sequence
                                   /\ q.to[d] = Head(port).samples[d].to
      BY <3>1 DEF Took
    <3>5. Ordered(q)'
      BY <1>0, <3>2, <3>4, OrderedTaken
    <3>6. ~q.refused
      <4>1. ~r.refused
        BY <1>0, <3>2 DEF Open
      <4>2. \A d \in Directions : ~Refuses(r, Head(port).samples[d])
        BY <1>0, <2>6, <3>2, HeardNotRefused
      <4> QED
        BY <3>1, <4>1, <4>2 DEF Took
    <3> QED
      BY <2>2, <3>1, <3>3, <3>5, <3>6 DEF Evident
  <2> QED
    BY <2>1, <2>3, <2>4, <2>5, <2>6
<1>7. CASE Notified
  <2>1. gates' = gates /\ port' = port /\ meter' = meter
    BY <1>7 DEF Notified, workletVars
  <2>2. Timely'
    BY <1>0, <2>1 DEF Timely
  <2>3. CASE Known(r)' /\ log' = log
    <3>1. CASE monitor' = [monitor EXCEPT !.request = "none"]
      <4>1. /\ monitor'.generation = monitor.generation /\ monitor'.active = monitor.active
            /\ monitor'.failed = monitor.failed /\ monitor'.disposed = monitor.disposed
        BY <1>0, <3>1 DEF Known, Typed, Monitor
      <4>2. Echoes(r)'
        BY <1>0, <2>1, <4>1 DEF Echoes, Open
      <4>3. Open' => Ordered(r)'
        BY <1>0, <2>1, <4>1, OrderedKept DEF Open
      <4> QED
        BY <1>0, <2>2, <2>3, <4>1, <4>2, <4>3 DEF Evident
    <3>2. CASE monitor' = [Failed(monitor) EXCEPT !.request = "none"]
      <4>1. monitor'.failed
        BY <1>0, <3>2, FailedMonitor DEF Known, Typed
      <4> QED
        BY <2>2, <2>3, <4>1 DEF Evident, Echoes, Open
    <3> QED
      BY <1>7, <3>1, <3>2 DEF Notified
  <2>4. ASSUME NEW q, Known(q)', monitor'.failed PROVE Evident(q)'
    BY <2>2, <2>4 DEF Evident, Echoes, Open
  <2> QED
    BY <1>0, <1>7, <2>3, <2>4, NotifiedKnown
<1>8. CASE Dispose
  <2>1. PICK q : /\ Known(q)' /\ ~Open' /\ monitor'.failed = monitor.failed
                 /\ q = r \/ Noted(r, q, "closed")
    BY <1>0, <1>8, DisposeKnown
  <2>2. port' = <<>> /\ meter' = meter
    BY <1>8 DEF Dispose
  <2>3. Timely'
    BY <1>0, <2>2 DEF Timely, TimelyIn
  <2>4. q.refused => r.refused
    BY <2>1 DEF Noted
  <2> QED
    BY <1>0, <2>1, <2>3, <2>4 DEF Evident, Echoes
<1>9. CASE UNCHANGED vars
  <2>1. /\ frame' = frame /\ gate' = gate /\ meter' = meter /\ gates' = gates
        /\ port' = port /\ monitor' = monitor /\ log' = log
    BY <1>9 DEF vars, workletVars
  <2>2. Known(r)'
    BY <1>0, <2>1, Zenon DEF Known, Typed, Open, Generations, Told
  <2>3. Timely' /\ Echoes(r)'
    BY <1>0, <2>1, Zenon DEF Timely, Echoes, Open
  <2>4. Open' => Ordered(r)'
    BY <1>0, <2>1, OrderedKept DEF Open
  <2> QED
    BY <1>0, <2>1, <2>2, <2>3, <2>4 DEF Evident
<1> QED
  BY <1>1, <1>2, <1>3, <1>4, <1>5, <1>6, <1>7, <1>8, <1>9 DEF Next

\* Where the tolerance of inspect covers the rounding of the windows, the record of a
\* monitor that has not failed is never refused: whatever audioActivity.ts let
\* through across pauses, skipped quanta and generations, the reader's hysteresis is
\* the worklet's, and every transition is where its streak began.
THEOREM EvidenceCorrect ==
    ASSUME Exact
    PROVE  Spec => []EvidenceIsAccepted
<1> DEFINE Inv == \E r : Evident(r)
<1>1. Init => Inv
  BY EvidentInit
<1>2. Inv /\ [Next]_vars => Inv'
  BY EvidentStep
<1>3. Inv => EvidenceIsAccepted
  BY InspectedIs DEF Evident, Known, EvidenceIsAccepted
<1> QED
  BY <1>1, <1>2, <1>3, PTL DEF Spec
=============================================================================
