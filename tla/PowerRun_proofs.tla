-------------------------- MODULE PowerRun_proofs --------------------------
(***************************************************************************)
(* Proofs about PowerRun for every configuration, any number of gaps in    *)
(* the stream and with or without the retry of the flash: the record that  *)
(* is published is the measured launch's own, and none is missed.          *)
(***************************************************************************)
EXTENDS PowerRun, SequenceTheorems, WellFoundedInduction, TLAPS

\* Max of a bounded set of positions is its last member.
LEMMA LastPosition ==
  ASSUME NEW n \in Nat, NEW S, S \subseteq 1 .. n, S # {}
  PROVE  Max(S) \in S /\ \A y \in S : Max(S) >= y
<1> DEFINE T == {n - i : i \in S}
<1>1. T \subseteq Nat /\ T # {}
  <2>1. \A i \in S : i \in 1 .. n
    OBVIOUS
  <2>2. \A i \in S : n - i \in Nat
    BY <2>1
  <2> QED
    BY <2>2
<1>2. PICK t \in T : \A u \in T : ~(<<u, t>> \in OpToRel(<, Nat))
  BY <1>1, NatLessThanWellFounded, WFMin
<1>3. \A u \in T : t <= u
  <2> SUFFICES ASSUME NEW u \in T PROVE t <= u
    OBVIOUS
  <2>1. t \in Nat /\ u \in Nat
    BY <1>1
  <2>2. u < t => <<u, t>> \in OpToRel(<, Nat)
    BY <2>1 DEF OpToRel
  <2>3. ~(<<u, t>> \in OpToRel(<, Nat))
    BY <1>2, Zenon
  <2>4. ~(u < t)
    BY <2>2, <2>3, Zenon
  <2> QED
    BY <2>1, <2>4
<1>4. PICK i \in S : t = n - i
  OBVIOUS
<1>5. \A y \in S : i >= y
  <2> SUFFICES ASSUME NEW y \in S PROVE i >= y
    OBVIOUS
  <2>1. n - y \in T
    OBVIOUS
  <2> QED
    BY <1>3, <1>4, <2>1
<1> QED
  BY <1>5, Zenon DEF Max

\* The first of one position is that position.
LEMMA OnlyPosition ==
  ASSUME NEW n \in Nat
  PROVE  Min({n}) = n
<1>1. n \in {n} /\ \A y \in {n} : n =< y
  OBVIOUS
<1>2. Min({n}) \in {n}
  BY <1>1, Zenon DEF Min
<1> QED
  BY <1>2

\* Where no END is kept, a new line that is an END is the first.
LEMMA EndIsTheLast ==
  ASSUME NEW b \in Seq(Line), NEW l \in Line, \A i \in DOMAIN b : b[i].key # "END"
  PROVE  EndAt(Append(b, l)) = IF l.key = "END" THEN Len(b) + 1 ELSE 0
<1> DEFINE c == Append(b, l)
           I == {i \in 1 .. Len(c) : c[i].key = "END"}
<1>1. EndAt(c) = IF I # {} THEN Min(I) ELSE 0
  BY DEF EndAt, SelectInSeq
<1>2. Len(c) = Len(b) + 1 /\ c[Len(b) + 1] = l /\ \A i \in 1 .. Len(b) : c[i] = b[i]
  OBVIOUS
<1>3. I = IF l.key = "END" THEN {Len(b) + 1} ELSE {}
  BY <1>2
<1>4. EndAt(c) = IF l.key = "END" THEN Len(b) + 1 ELSE 0
  <2> HIDE DEF I, c
  <2>1. CASE l.key = "END"
    BY <1>1, <1>3, <2>1, OnlyPosition
  <2>2. CASE l.key # "END"
    BY <1>1, <1>3, <2>2
  <2> QED
    BY <2>1, <2>2
<1> QED
  BY <1>4

\* A record on the wire: the START first, the END last, in between neither, all of one launch,
\* and a charge only if there was a measurement.
IsRecord(f, n, m) ==
  /\ f \in Seq(Line) /\ Len(f) \in {5, 9}
  /\ f[1].key = "START" /\ f[Len(f)].key = "END"
  /\ \A i \in 2 .. Len(f) - 1 : f[i].key # "START" /\ f[i].key # "END"
  /\ \A i \in 1 .. Len(f) : f[i].launch = n /\ (f[i].key = "CHARGE" => m)

LEMMA FrameShape ==
  ASSUME NEW n \in Nat, NEW m \in BOOLEAN, NEW f, f = FrameOf(n, m)
  PROVE  IsRecord(f, n, m)
<1> USE DEF IsRecord
<1> DEFINE Shape(k, g) ==
             /\ g \in Seq(Line) /\ Len(g) = k /\ k \in {5, 9}
             /\ g[1].key = "START" /\ g[k].key = "END"
             /\ \A i \in 2 .. k - 1 : g[i].key # "START" /\ g[i].key # "END"
             /\ \A i \in 1 .. k : g[i].launch = n /\ (g[i].key = "CHARGE" => m)
<1>1. CASE m
  <2>0. DOMAIN Measured = 1 .. 9
    BY DEF Measured
  <2>1. /\ Measured[1] = "START" /\ Measured[2] = "COUNTS"
        /\ Measured[3] = "CLOCK" /\ Measured[4] = "FLAGS" /\ Measured[5] = "SOURCE"
        /\ Measured[6] = "ENERGY" /\ Measured[7] = "SPAN" /\ Measured[8] = "CHARGE"
        /\ Measured[9] = "END"
    BY DEF Measured
  <2>2. f = [i \in 1 .. 9 |-> [key |-> Measured[i], launch |-> n]]
    <3>1. f = Lines(Measured, n)
      BY <1>1 DEF FrameOf
    <3>2. Lines(Measured, n) = [i \in DOMAIN Measured |-> [key |-> Measured[i], launch |-> n]]
      BY DEF Lines
    <3> QED
      BY <2>0, <3>1, <3>2
  <2>3. \A i \in 1 .. 9 : Measured[i] \in Keys
    <3> SUFFICES ASSUME NEW i \in 1 .. 9 PROVE Measured[i] \in Keys
      OBVIOUS
    <3>1. i = 1 \/ i = 2 \/ i = 3 \/ i = 4 \/ i = 5 \/ i = 6 \/ i = 7 \/ i = 8 \/ i = 9
      OBVIOUS
    <3> QED
      BY <2>1, <3>1 DEF Keys
  <2>4. \A i \in 1 .. 9 : f[i] = [key |-> Measured[i], launch |-> n]
    BY <2>2
  <2>5. f \in Seq(Line) /\ Len(f) = 9
    BY <2>2, <2>3 DEF Line
  <2>6. \A i \in 2 .. 8 : f[i].key # "START" /\ f[i].key # "END"
    BY <2>1, <2>4
  <2>7. f[1].key = "START" /\ f[9].key = "END" /\ \A i \in 1 .. 9 : f[i].launch = n
    BY <2>1, <2>4
  <2>8. 9 - 1 = 8 /\ 9 \in {5, 9}
    OBVIOUS
  <2>9. Shape(9, f)
    BY <1>1, <2>5, <2>6, <2>7, <2>8, Zenon
  <2> QED
    BY <2>5, <2>9
<1>2. CASE ~m
  <2>0. DOMAIN Plain = 1 .. 5
    BY DEF Plain
  <2>1. /\ Plain[1] = "START" /\ Plain[2] = "COUNTS"
        /\ Plain[3] = "CLOCK" /\ Plain[4] = "FLAGS" /\ Plain[5] = "END"
    BY DEF Plain
  <2>2. f = [i \in 1 .. 5 |-> [key |-> Plain[i], launch |-> n]]
    <3>1. f = Lines(Plain, n)
      BY <1>2 DEF FrameOf
    <3>2. Lines(Plain, n) = [i \in DOMAIN Plain |-> [key |-> Plain[i], launch |-> n]]
      BY DEF Lines
    <3> QED
      BY <2>0, <3>1, <3>2
  <2>3. \A i \in 1 .. 5 : Plain[i] \in Keys
    <3> SUFFICES ASSUME NEW i \in 1 .. 5 PROVE Plain[i] \in Keys
      OBVIOUS
    <3>1. i = 1 \/ i = 2 \/ i = 3 \/ i = 4 \/ i = 5
      OBVIOUS
    <3> QED
      BY <2>1, <3>1 DEF Keys
  <2>4. Shape(5, f)
    BY <1>2, <2>1, <2>2, <2>3 DEF Line
  <2> QED
    BY <2>4
<1> QED
  BY <1>1, <1>2

\* A line that is no END is kept, and nothing is found.
LEMMA ScanGoesOn ==
  ASSUME NEW b \in Seq(Line), NEW l \in Line, NEW r, \A i \in DOMAIN b : b[i].key # "END",
         l.key # "END"
  PROVE  Scan(Append(b, l), r) = [got |-> Refused, rest |-> Append(b, l), frame |-> FALSE]
<1>1. EndAt(Append(b, l)) = 0
  BY EndIsTheLast
<1> QED
  BY <1>1, Zenon DEF Scan

\* An END empties what is kept.  What is parsed, if anything, are lines kept before it; and
\* where the last START kept is known, those after it.
Closes(b, c, r, scan) ==
  /\ scan.rest = <<>>
  /\ \/ scan.got = Refused
     \/ \E s \in 1 .. Len(b) : scan.got = Parse(SubSeq(c, s + 1, Len(b)), r)
  /\ \A s \in 1 .. Len(b) :
       b[s].key = "START" /\ (\A i \in s + 1 .. Len(b) : b[i].key # "START") =>
         scan.got = Parse(SubSeq(c, s + 1, Len(b)), r)

LEMMA ScanCloses ==
  ASSUME NEW b \in Seq(Line), NEW l \in Line, NEW r, \A i \in DOMAIN b : b[i].key # "END",
         l.key = "END", NEW c, c = Append(b, l), NEW scan, scan = Scan(c, r)
  PROVE  Closes(b, c, r, scan)
<1> DEFINE n == Len(b)
           start == StartFor(c, n + 1)
           I == {i \in 1 .. n : c[i].key = "START"}
<1>0. n \in Nat /\ c \in Seq(Line) /\ Len(c) = n + 1 /\ \A i \in 1 .. n : c[i] = b[i]
  OBVIOUS
<1>1. EndAt(c) = n + 1
  BY EndIsTheLast
<1>2. start = IF I # {} THEN Max(I) ELSE 0
  <2>1. (n + 1) - 1 = n
    BY <1>0
  <2> QED
    BY <2>1, Zenon DEF StartFor, StartBefore, SelectLastInSubSeq
<1>3. scan = LET rest == SubSeq(c, n + 1 + 1, Len(c))
             IN IF start = 0 THEN [got |-> Refused, rest |-> rest, frame |-> FALSE]
                ELSE [got |-> Parse(SubSeq(c, start + 1, n + 1 - 1), r), rest |-> rest,
                      frame |-> TRUE]
  <2>1. n + 1 # 0
    BY <1>0
  <2>2. EndAt(c) # 0 /\ StartFor(c, EndAt(c)) = start
    BY <1>1, <2>1, Zenon
  <2> HIDE DEF start
  <2>3. CASE start = 0
    BY <1>1, <2>2, <2>3 DEF Scan
  <2>4. CASE start # 0
    <3>1. scan = [got |-> Parse(SubSeq(c, start + 1, EndAt(c) - 1), r),
                  rest |-> SubSeq(c, EndAt(c) + 1, Len(c)), frame |-> TRUE]
      BY <2>2, <2>4, Zenon DEF Scan
    <3>2. EndAt(c) - 1 = n + 1 - 1 /\ EndAt(c) + 1 = n + 1 + 1
      BY <1>1
    <3> QED
      BY <2>4, <3>1, <3>2
  <2> QED
    BY <2>3, <2>4
<1>4. SubSeq(c, n + 1 + 1, Len(c)) = <<>>
  BY <1>0
<1>5. n + 1 - 1 = n
  BY <1>0
<1>6. I # {} => start \in I /\ \A y \in I : start >= y
  <2> HIDE DEF start
  <2>1. I \subseteq 1 .. n
    OBVIOUS
  <2> HIDE DEF I
  <2> QED
    BY <1>0, <1>2, <2>1, LastPosition
<1>7. I = {} => start = 0
  BY <1>2, Zenon
<1> HIDE DEF start
<1>8. start # 0 => start \in 1 .. n
  BY <1>6, <1>7
<1>9. start # 0 => scan.got = Parse(SubSeq(c, start + 1, n), r)
  BY <1>3, <1>5
<1>10. \A s \in 1 .. n :
         b[s].key = "START" /\ (\A i \in s + 1 .. n : b[i].key # "START") => start = s
  BY <1>0, <1>6
<1>11. scan.rest = <<>>
  BY <1>3, <1>4
<1>12. start = 0 => scan.got = Refused
  BY <1>3
<1>13. \A s \in 1 .. n :
         b[s].key = "START" /\ (\A i \in s + 1 .. n : b[i].key # "START") =>
           scan.got = Parse(SubSeq(c, s + 1, n), r)
  <2> HIDE DEF n
  <2> SUFFICES ASSUME NEW s \in 1 .. n, b[s].key = "START",
                      \A i \in s + 1 .. n : b[i].key # "START"
               PROVE  scan.got = Parse(SubSeq(c, s + 1, n), r)
    OBVIOUS
  <2>1. start = s /\ s # 0
    BY <1>0, <1>10
  <2> QED
    BY <1>9, <2>1
<1> QED
  BY <1>8, <1>9, <1>11, <1>12, <1>13, Zenon DEF Closes

\* An accepted record is of the launch that wrote its lines, and has a charge only if one of
\* them carries it.
WrittenBy(lines, n, m) ==
  \A i \in DOMAIN lines : lines[i].launch = n /\ (lines[i].key = "CHARGE" => m)
AcceptedOf(p, n, m) == p.launch = n /\ (p.charge => m)

LEMMA ParsedIsOfItsLines ==
  ASSUME NEW lines \in Seq(Line), NEW r, NEW n, NEW m \in BOOLEAN, WrittenBy(lines, n, m),
         NEW p, p = Parse(lines, r), p.ok
  PROVE  AcceptedOf(p, n, m)
<1>1. \/ p = Refused
      \/ /\ lines # <<>>
         /\ p = [ok |-> TRUE, launch |-> lines[1].launch,
                 measured |-> "SOURCE" \in {lines[i].key : i \in DOMAIN lines},
                 charge |-> "CHARGE" \in {lines[i].key : i \in DOMAIN lines}]
  BY Zenon DEF Parse
<1>2. p # Refused
  BY DEF Refused
<1>3. lines # <<>> => 1 \in DOMAIN lines
  OBVIOUS
<1> QED
  BY <1>1, <1>2, <1>3 DEF WrittenBy, AcceptedOf

\* A frame followed from its START to the line before its END: the START is the last one kept,
\* and what lies behind it is the record.
IsKept(f, b, c, s) ==
  /\ s \in 1 .. Len(b) /\ b[s].key = "START"
  /\ \A i \in s + 1 .. Len(b) : b[i].key # "START"
  /\ SubSeq(c, s + 1, Len(b)) = SubSeq(f, 2, Len(f) - 1)

LEMMA FrameIsKept ==
  ASSUME NEW f \in Seq(Line), Len(f) \in {5, 9}, f[1].key = "START",
         \A i \in 2 .. Len(f) - 1 : f[i].key # "START",
         NEW b \in Seq(Line), NEW l \in Line, NEW k, k = Len(f) - 1, k <= Len(b),
         \A i \in 1 .. k : b[Len(b) - k + i] = f[i],
         NEW s, s = Len(b) - k + 1
  PROVE  IsKept(f, b, Append(b, l), s)
<1>0. k \in {4, 8} /\ Len(b) \in Nat
  OBVIOUS
<1>1. s \in 1 .. Len(b)
  BY <1>0
<1>2. b[s] = f[1]
  BY <1>0
<1>3. \A i \in s .. Len(b) : i - s + 1 \in 1 .. k /\ b[i] = f[i - s + 1]
  <2> SUFFICES ASSUME NEW i \in s .. Len(b)
               PROVE  i - s + 1 \in 1 .. k /\ b[i] = f[i - s + 1]
    OBVIOUS
  <2>1. i - s + 1 \in 1 .. k /\ Len(b) - k + (i - s + 1) = i
    BY <1>0, <1>1
  <2> QED
    BY <2>1
<1>4. \A i \in s + 1 .. Len(b) : b[i].key # "START"
  <2> SUFFICES ASSUME NEW i \in s + 1 .. Len(b) PROVE b[i].key # "START"
    OBVIOUS
  <2>1. i \in s .. Len(b) /\ i - s + 1 \in 2 .. Len(f) - 1
    BY <1>0, <1>1
  <2> QED
    BY <1>3, <2>1
<1>5. SubSeq(Append(b, l), s + 1, Len(b)) = SubSeq(f, 2, Len(f) - 1)
  <2> DEFINE x == SubSeq(Append(b, l), s + 1, Len(b))
             y == SubSeq(f, 2, Len(f) - 1)
  <2>1. x \in Seq(Line) /\ Len(x) = k - 1 /\ \A i \in 1 .. k - 1 : x[i] = b[s + i]
    BY <1>0, <1>1
  <2>2. y \in Seq(Line) /\ Len(y) = k - 1 /\ \A i \in 1 .. k - 1 : y[i] = f[1 + i]
    BY <1>0
  <2>3. \A i \in 1 .. k - 1 : b[s + i] = f[1 + i]
    <3> SUFFICES ASSUME NEW i \in 1 .. k - 1 PROVE b[s + i] = f[1 + i]
      OBVIOUS
    <3>1. s + i \in s .. Len(b) /\ (s + i) - s + 1 = 1 + i
      BY <1>0, <1>1
    <3> QED
      BY <1>3, <3>1
  <2> HIDE DEF x, y
  <2>6. Len(x) = k - 1 /\ Len(y) = k - 1
    BY <2>1, <2>2, Zenon
  <2>7. \A i \in 1 .. k - 1 : x[i] = y[i]
    <3> SUFFICES ASSUME NEW i \in 1 .. k - 1 PROVE x[i] = y[i]
      OBVIOUS
    <3>1. x[i] = b[s + i] /\ y[i] = f[1 + i] /\ b[s + i] = f[1 + i]
      BY <2>1, <2>2, <2>3, Zenon
    <3> QED
      BY <3>1, Zenon
  <2>4. Len(x) = Len(y) /\ \A i \in 1 .. Len(x) : x[i] = y[i]
    BY <2>6, <2>7, Zenon
  <2>5. x = y
    BY <2>1, <2>2, <2>4, SeqEqual, Zenon
  <2> QED
    BY <2>5 DEF x, y
<1> QED
  BY <1>1, <1>2, <1>4, <1>5 DEF IsKept

-----------------------------------------------------------------------------
\* The configuration of a run, field by field.
LEMMA ConfigurationTypes ==
  ASSUME PowerTypes
  PROVE  /\ cfg.internal \in BOOLEAN /\ cfg.dedicated \in BOOLEAN /\ cfg.busy \in BOOLEAN
         /\ cfg.want \in Nat /\ cfg.ref \in BOOLEAN /\ cfg.repeats \in BOOLEAN
         /\ PlannedCount \in Nat
<1>1. cfg \in Configurations
  BY PowerRunAssumption DEF PowerTypes
<1>2. cfg.want \in Nat /\ cfg.dedicated \in BOOLEAN /\ cfg.busy \in BOOLEAN
  BY <1>1 DEF Configurations
<1>3. PlannedCount \in {0, 1, Guided, cfg.want}
  BY <1>2, Zenon DEF PlannedCount
<1> QED
  BY <1>1, <1>2, <1>3 DEF Configurations, Guided

\* The board is started by the flash, the retry's power cycle or a reset.
LEMMA StartTypes ==
  ASSUME PowerTypes, NEW img \in {"profile", "power"}, Starts(img)
  PROVE  /\ images' \in Seq({"profile", "power"}) /\ Launch' = Launch + 1 /\ phase' = "boot"
         /\ record' = Unreported
BY DEF PowerTypes, Starts, Launch

\* What lies before the host listens, the types apart.
EarlyParts ==
  /\ TypeOK /\ PowerTypes /\ StageFollows
  /\ phase = "reporting" => Running = "power"
  /\ pc \notin {"check", "published", "rejected"}
  /\ pc = "collect" => cfg.internal \/ run.observed = Launch

\* Before the host listens nothing is kept, so that only these parts can be disturbed.
LEMMA BeforeListening ==
  ASSUME PowerIInv, at = 0, UNCHANGED wire, EarlyParts'
  PROVE  PowerIInv'
<1> USE DEF wire, EarlyParts
<1>1. at' = 0 /\ buffer' = <<>> /\ ~whole' /\ ~heard'
  BY DEF PowerIInv, ListensToTheReport
<1>2. ListensToTheReport'
  BY <1>1 DEF ListensToTheReport
<1>3. KeepsItsLines' /\ FollowsTheFrame'
  BY <1>1 DEF KeepsItsLines, FollowsTheFrame
<1>4. AcceptsItsOwn'
  BY DEF AcceptsItsOwn
<1>5. PublishedIsSound'
  BY <1>1 DEF PublishedIsSound, RecordIsOfTheCapture, PublishedIsPlausible, IntactIsFound
<1> QED
  BY <1>2, <1>3, <1>4, <1>5 DEF PowerIInv

\* The stages before the collection.
LEMMA StageStep ==
  ASSUME PowerIInv, Plan \/ Build \/ Flash \/ Reset \/ Observe \/ Unseen
  PROVE  PowerIInv'
<1> USE PowerRunAssumption
<1>0. at = 0 /\ UNCHANGED wire /\ TypeOK /\ PowerTypes
  <2>1. pc \in {"plan", "build", "flash", "capture", "watch"} /\ UNCHANGED wire
    BY DEF Plan, Build, Flash, Reset, Observe, Unseen
  <2>2. at \in Nat
    BY DEF PowerIInv, PublishedIsSound, TypeOK
  <2> QED
    BY <2>1, <2>2 DEF PowerIInv, ListensToTheReport, PublishedIsSound
<1>c. /\ cfg.internal \in BOOLEAN /\ cfg.dedicated \in BOOLEAN /\ cfg.busy \in BOOLEAN
      /\ PlannedCount \in Nat
  BY <1>0, ConfigurationTypes
<1>l. Launch \in Nat /\ Launch > 0
  BY <1>0 DEF PowerTypes, Launch
<1>r. run \in PowerRuns /\ run.count \in Nat /\ run.observed \in 0 .. Launch
  BY <1>0 DEF PowerTypes, TypeOK
<1>1. phase = "reporting" => Running = "power"
  BY DEF PowerIInv, ListensToTheReport
<1>2. StageFollows
  BY DEF PowerIInv
<1> USE DEF wire, board, flash
<1> DEFINE Kept == UNCHANGED <<cfg, images, phase, record, attempt, at, gaps, buffer, whole, heard,
                              got>>
<1>3. ASSUME Plan PROVE EarlyParts'
  <2>1. /\ run' = run \/ run' = [NoRun EXCEPT !.count = PlannedCount]
        /\ pc' \in {"capture", "flash", "build", "refused"} /\ Kept /\ recipe' = recipe
    BY <1>3, Zenon DEF Plan
  <2>2. /\ pc' = "capture" => ~cfg.dedicated
        /\ pc' \in {"flash", "build"} => cfg.dedicated
    BY <1>0, <1>3, Zenon DEF Plan
  <2>3. run' \in PowerRuns
        /\ run'.observed \in 0 .. Launch
    <3>1. \/ run' = run
          \/ run' = [count |-> PlannedCount, built |-> FALSE, deployed |-> FALSE, observed |-> 0]
      BY <2>1 DEF NoRun
    <3>2. run' = run \/ (run' \in PowerRuns /\ run'.observed = 0)
      <4>1. CASE run' = [count |-> PlannedCount, built |-> FALSE, deployed |-> FALSE,
                         observed |-> 0]
        <5>1. 0 \in Nat /\ PlannedCount \in Nat
          BY <1>c
        <5> QED
          BY <4>1, <5>1, Zenon DEF PowerRuns
      <4> QED
        BY <3>1, <4>1, Zenon
    <3> QED
      BY <1>l, <1>r, <3>2
  <2> QED
    BY <1>0, <1>1, <1>2, <1>l, <2>1, <2>2, <2>3
       DEF EarlyParts, TypeOK, PowerTypes, PowerRuns, StageFollows, Launch, Running, Over, Failed
<1>4. ASSUME Build PROVE EarlyParts'
  <2>1. PICK built \in BOOLEAN :
          /\ run' = [NoRun EXCEPT !.count = run.count, !.built = built]
          /\ pc' = IF built THEN "flash" ELSE "refused"
          /\ recipe' \in IF built THEN {"good", "stale", "unarmed", "absent"} ELSE {"unread"}
    BY <1>4, Zenon DEF Build
  <2>2. pc = "build" /\ Kept
    BY <1>4 DEF Build
  <2>3. run' \in PowerRuns
        /\ run'.observed \in 0 .. Launch
    <3>1. run' = [count |-> run.count, built |-> built, deployed |-> FALSE, observed |-> 0]
      BY <2>1 DEF NoRun
    <3>2. run' \in PowerRuns /\ run'.observed = 0
      BY <1>r, <3>1, Zenon DEF PowerRuns
    <3> QED
      BY <1>l, <3>2
  <2>4. recipe' \in {"unread", "good", "stale", "unarmed", "absent"} /\ pc' \in {"flash", "refused"}
    BY <2>1
  <2> QED
    BY <1>0, <1>1, <1>2, <1>l, <2>2, <2>3, <2>4
       DEF EarlyParts, TypeOK, PowerTypes, PowerRuns, StageFollows, Launch, Running, Over, Failed
<1>5. ASSUME Flash PROVE EarlyParts'
  <2>0. pc = "flash" /\ cfg.dedicated /\ UNCHANGED <<cfg, at, gaps, buffer, whole, heard, got>>
    BY <1>2, <1>5 DEF Flash, StageFollows
  <2>1. CASE Vetted /\ Programs
    <3>1. PICK img \in {"profile", "power"} : Starts(img)
      BY <1>0, <2>1 DEF Programs, Vetted, PowerTypes, Launch, Running
    <3>2. images' \in Seq({"profile", "power"}) /\ Launch' = Launch + 1 /\ phase' = "boot"
          /\ record' = Unreported
      BY <1>0, <3>1, StartTypes
    <3>3. /\ run' = [run EXCEPT !.deployed = TRUE] /\ recipe' = "unread" /\ attempt' = 1
          /\ pc' = IF cfg.internal THEN "collect" ELSE "capture"
      BY <2>1 DEF Programs
    <3>4. run' \in PowerRuns
          /\ run'.observed \in 0 .. Launch' /\ run'.deployed
      <4>1. run' \in PowerRuns /\ run'.observed = run.observed /\ run'.deployed
        BY <1>r, <3>3 DEF PowerRuns
      <4> QED
        BY <1>l, <1>r, <3>2, <4>1
    <3> QED
      BY <1>0, <1>l, <2>0, <3>2, <3>3, <3>4
         DEF EarlyParts, TypeOK, PowerTypes, PowerRuns, StageFollows, Over, Failed, Unreported
  <2>2. CASE FlashFails
    <3>1. CASE attempt < Attempts /\ attempt' = attempt + 1 /\ Starts(Running)
               /\ UNCHANGED <<pc, run, recipe>>
      <4>1. Running \in {"profile", "power"}
        BY <1>0 DEF PowerTypes, Launch, Running
      <4>2. images' \in Seq({"profile", "power"}) /\ Launch' = Launch + 1 /\ phase' = "boot"
            /\ record' = Unreported
        BY <1>0, <3>1, <4>1, StartTypes
      <4> QED
        BY <1>0, <1>l, <2>0, <3>1, <4>2
           DEF EarlyParts, TypeOK, PowerTypes, PowerRuns, StageFollows, Over, Failed, Unreported
    <3>2. CASE pc' = "unflashable" /\ UNCHANGED <<run, board, flash>>
      BY <1>0, <1>1, <1>2, <2>0, <3>2
         DEF EarlyParts, TypeOK, PowerTypes, PowerRuns, StageFollows, Launch, Running, Over, Failed
    <3> QED
      BY <2>2, <3>1, <3>2 DEF FlashFails
  <2>3. CASE pc' = "unflashable" /\ UNCHANGED <<run, board, flash>>
    BY <1>0, <1>1, <1>2, <2>0, <2>3
       DEF EarlyParts, TypeOK, PowerTypes, PowerRuns, StageFollows, Launch, Running, Over, Failed
  <2> QED
    BY <1>5, <2>1, <2>2, <2>3 DEF Flash
<1>6. ASSUME Reset PROVE EarlyParts'
  <2>0. /\ pc = "capture"
        /\ UNCHANGED <<cfg, run, recipe, attempt, at, gaps, buffer, whole, heard, got>>
    BY <1>6 DEF Reset
  <2>1. CASE Starts(Running) /\ pc' = "watch"
    <3>1. Running \in {"profile", "power"}
      BY <1>0 DEF PowerTypes, Launch, Running
    <3>2. images' \in Seq({"profile", "power"}) /\ Launch' = Launch + 1 /\ phase' = "boot"
          /\ record' = Unreported
      BY <1>0, <2>1, <3>1, StartTypes
    <3> QED
      BY <1>0, <1>2, <1>l, <2>0, <2>1, <3>2
         DEF EarlyParts, TypeOK, PowerTypes, PowerRuns, StageFollows, Over, Failed, Unreported
  <2>2. CASE pc' \in {"watch", "refused"} /\ UNCHANGED board
    BY <1>0, <1>1, <1>2, <2>0, <2>2
       DEF EarlyParts, TypeOK, PowerTypes, PowerRuns, StageFollows, Launch, Running, Over, Failed
  <2> QED
    BY <1>6, <2>1, <2>2 DEF Reset
<1>7. ASSUME Observe PROVE EarlyParts'
  <2>1. /\ pc = "watch" /\ phase' = "closing" /\ pc' \in {"collect", "observed"}
        /\ pc' = "collect" => cfg.dedicated
        /\ run' = [run EXCEPT !.observed = Launch]
        /\ UNCHANGED <<cfg, images, record, recipe, attempt, at, gaps, buffer, whole, heard, got>>
    BY <1>c, <1>7 DEF Observe
  <2>2. run' \in PowerRuns /\ run'.observed = Launch /\ run'.deployed = run.deployed
    BY <1>l, <1>r, <2>1 DEF PowerRuns
  <2> QED
    BY <1>0, <1>1, <1>2, <1>l, <2>1, <2>2
       DEF EarlyParts, TypeOK, PowerTypes, PowerRuns, StageFollows, Launch, Over, Failed
<1>8. ASSUME Unseen PROVE EarlyParts'
  BY <1>0, <1>1, <1>2, <1>8
     DEF Unseen, EarlyParts, TypeOK, PowerTypes, PowerRuns, StageFollows, Launch, Running, Over,
         Failed
<1> QED
  BY <1>0, <1>3, <1>4, <1>5, <1>6, <1>7, <1>8, BeforeListening DEF wire

\* The board, which has stopped moving before the host listens.
LEMMA BoardStep ==
  ASSUME PowerIInv, Board
  PROVE  PowerIInv'
<1>0. at = 0 /\ UNCHANGED wire /\ TypeOK /\ PowerTypes
  <2>1. phase # "reporting" /\ UNCHANGED wire
    BY DEF Board, BootFails, OpenWindow, CloseWindow
  <2>2. at \in Nat
    BY DEF PowerIInv, PublishedIsSound, TypeOK
  <2> QED
    BY <2>1, <2>2 DEF PowerIInv, ListensToTheReport, PublishedIsSound
<1>1. StageFollows /\ pc \notin {"check", "published", "rejected"}
      /\ (pc = "collect" => cfg.internal \/ run.observed = Launch)
  BY <1>0 DEF PowerIInv, ListensToTheReport, AcceptsItsOwn
<1>2. Running \in {"profile", "power"} /\ run.count \in Nat
  BY <1>0 DEF PowerTypes, PowerRuns, Launch, Running
<1>3. /\ UNCHANGED <<cfg, pc, run, images, recipe, attempt, at, gaps, buffer, whole, heard, got>>
      /\ phase' \in {"parked", "watched", "closing", "reporting"}
      /\ phase' = "reporting" => Running # "profile"
  BY DEF Board, BootFails, OpenWindow, CloseWindow, Reports, flash, wire
<1>4. record' \in [ok : BOOLEAN, completed : Nat, moved : BOOLEAN,
                  reading : {"none", "good", "zero", "reversed", "overflow"}]
  <2>1. CASE record' = record
    BY <1>0, <2>1 DEF PowerTypes
  <2>2. CASE record' = Unreported
    BY <2>2 DEF Unreported
  <2>3. ASSUME NEW n \in Completed, NEW moved \in BOOLEAN,
               NEW reading \in {"none", "good", "zero", "reversed", "overflow"},
               record' = [ok |-> TRUE, completed |-> n, moved |-> moved, reading |-> reading]
        PROVE  record' \in [ok : BOOLEAN, completed : Nat, moved : BOOLEAN,
                           reading : {"none", "good", "zero", "reversed", "overflow"}]
    <3>1. n \in Nat
      BY <1>2 DEF Completed, Guided
    <3> QED
      BY <2>3, <3>1
  <2>4. \/ record' = record \/ record' = Unreported
        \/ \E n \in Completed, moved \in BOOLEAN,
              reading \in {"none", "good", "zero", "reversed", "overflow"} :
              record' = [ok |-> TRUE, completed |-> n, moved |-> moved, reading |-> reading]
    <3>1. CASE BootFails \/ OpenWindow
      BY <3>1 DEF BootFails, OpenWindow, Reports
    <3>2. CASE CloseWindow
      <4>1. CASE UNCHANGED <<images, record>>
        BY <4>1
      <4>2. ASSUME NEW n \in Completed, NEW moved \in BOOLEAN,
                   NEW reading \in IF cfg.monitor = "none" THEN {"none"}
                                  ELSE {"none", "good", "zero", "reversed", "overflow"},
                   Reports(IF cfg.monitor = "required" /\ reading = "none" THEN Unreported
                           ELSE [ok |-> TRUE, completed |-> n, moved |-> moved,
                                 reading |-> reading])
            PROVE  \/ record' = Unreported
                   \/ reading \in {"none", "good", "zero", "reversed", "overflow"}
                      /\ record' = [ok |-> TRUE, completed |-> n, moved |-> moved,
                                    reading |-> reading]
        BY <4>2 DEF Reports
      <4> QED
        BY <3>2, <4>1, <4>2, Zenon DEF CloseWindow
    <3> QED
      BY <3>1, <3>2 DEF Board
  <2> QED
    BY <2>1, <2>2, <2>3, <2>4
<1>5. EarlyParts'
  BY <1>0, <1>1, <1>2, <1>3, <1>4
     DEF EarlyParts, TypeOK, PowerTypes, StageFollows, Launch, Running
<1> QED
  BY <1>0, <1>5, BeforeListening

\* The stream while the host listens.
LEMMA StreamShape ==
  ASSUME PowerTypes
  PROVE  /\ Stream \in Seq(Line) /\ Len(Stream) \in {5, 9} /\ DOMAIN Stream = 1 .. Len(Stream)
         /\ Stream[1].key = "START" /\ Stream[Len(Stream)].key = "END"
         /\ \A i \in 2 .. Len(Stream) - 1 : Stream[i].key # "START" /\ Stream[i].key # "END"
         /\ \A i \in 1 .. Len(Stream) :
              Stream[i].launch = Launch /\ (Stream[i].key = "CHARGE" => record.reading # "none")
<1>1. Launch \in Nat
  BY DEF PowerTypes, Launch
<1>2. (record.reading # "none") \in BOOLEAN
  BY Zenon
<1>3. Stream = FrameOf(Launch, record.reading # "none")
  BY Zenon DEF Stream
<1> HIDE DEF Stream
<1>4. IsRecord(Stream, Launch, record.reading # "none")
  BY <1>1, <1>2, <1>3, FrameShape, Zenon
<1>5. Stream \in Seq(Line) => DOMAIN Stream = 1 .. Len(Stream)
  OBVIOUS
<1> QED
  BY <1>4, <1>5, Zenon DEF IsRecord

\* Attaching, and a gap: the position moves, and a frame that was followed is lost.
LEMMA PositionStep ==
  ASSUME PowerIInv, Attach \/ Gap
  PROVE  PowerIInv'
<1>0. TypeOK /\ PowerTypes /\ pc = "collect" /\ phase = "reporting"
  BY DEF PowerIInv, PublishedIsSound, TypeOK, ListensToTheReport, Attach, Gap
<1>1. at' \in 1 .. Len(Stream) /\ gaps' \in 0 .. Gaps
  <2>1. Len(Stream) \in {5, 9} /\ DOMAIN Stream = 1 .. Len(Stream)
    BY <1>0, StreamShape
  <2> QED
    BY <1>0, <2>1, PowerRunAssumption DEF Attach, Gap, TypeOK
<1>2. /\ UNCHANGED <<cfg, pc, run, images, phase, record, recipe, attempt, buffer, heard, got>>
      /\ whole' = FALSE \/ (whole' = whole /\ at = 0)
  BY DEF Attach, Gap, board, flash
<1>3. Stream' = Stream /\ Launch' = Launch /\ Running' = Running
  BY <1>2 DEF Stream, Launch, Running
<1>4. whole' = FALSE
  BY <1>0, <1>2, Zenon DEF PowerIInv, ListensToTheReport, PowerTypes
<1>5. ListensToTheReport'
  BY <1>0, <1>1, <1>2, <1>3, StreamShape DEF PowerIInv, ListensToTheReport
<1>6. KeepsItsLines' /\ FollowsTheFrame'
  BY <1>2, <1>3, <1>4 DEF PowerIInv, KeepsItsLines, FollowsTheFrame
<1>7. AcceptsItsOwn'
  BY <1>2, <1>3 DEF PowerIInv, AcceptsItsOwn
<1>8. TypeOK'
  <2>1. at' \in Nat
    BY <1>1
  <2> QED
    BY <1>0, <1>1, <1>2, <1>3, <2>1 DEF TypeOK
<1>11. PowerTypes' /\ StageFollows'
  BY <1>0, <1>2, <1>3, <1>4 DEF PowerIInv, PowerTypes, StageFollows
<1>9. RecordIsOfTheCapture' /\ PublishedIsPlausible'
  BY <1>0, <1>2 DEF RecordIsOfTheCapture, PublishedIsPlausible
<1>10. IntactIsFound'
  BY <1>2, <1>3 DEF PowerIInv, PublishedIsSound, IntactIsFound
<1> QED
  BY <1>5, <1>6, <1>7, <1>8, <1>11, <1>9, <1>10 DEF PowerIInv, PublishedIsSound

\* A line that is no END is added to what is kept.
LEMMA LineStep ==
  ASSUME PowerIInv, Receive, Stream[at].key # "END"
  PROVE  PowerIInv'
<1>0. TypeOK /\ PowerTypes /\ pc = "collect" /\ at \in DOMAIN Stream
  BY DEF PowerIInv, PublishedIsSound, Receive
<1>1. /\ Stream \in Seq(Line) /\ Len(Stream) \in {5, 9} /\ DOMAIN Stream = 1 .. Len(Stream)
      /\ Stream[Len(Stream)].key = "END"
      /\ \A i \in 2 .. Len(Stream) - 1 : Stream[i].key # "START"
  BY <1>0, StreamShape
<1>2. at \in 1 .. Len(Stream) - 1 /\ phase = "reporting"
  BY <1>0, <1>1 DEF PowerIInv, ListensToTheReport
<1> DEFINE line == Stream[at]
           c == Append(buffer, line)
<1>3. line \in Line /\ buffer \in Seq(Line)
  BY <1>0, <1>1 DEF PowerTypes
<1>4. Scan(c, record) = [got |-> Refused, rest |-> c, frame |-> FALSE]
  BY <1>3, ScanGoesOn DEF PowerIInv, KeepsItsLines
<1>5. /\ at' = at + 1 /\ whole' = (line.key = "START" \/ whole) /\ buffer' = c
      /\ heard' = heard /\ UNCHANGED <<got, pc>>
      /\ UNCHANGED <<cfg, run, images, phase, record, recipe, attempt, gaps>>
  <2>1. ~Scan(c, record).got.ok /\ Scan(c, record).rest = c
    BY <1>4 DEF Refused
  <2>2. whole \in BOOLEAN /\ heard \in BOOLEAN
    BY <1>0 DEF PowerTypes
  <2> HIDE DEF c
  <2>3. UNCHANGED <<cfg, run, images, phase, record, recipe, attempt, gaps>>
    BY DEF Receive, board, flash
  <2>4. at' = at + 1 /\ buffer' = c /\ UNCHANGED <<got, pc>>
    BY <2>1 DEF Receive, c
  <2>5. whole' = (line.key = "START" \/ whole) /\ heard' = heard
    BY <2>2 DEF Receive
  <2> QED
    BY <2>3, <2>4, <2>5
<1>6. Stream' = Stream /\ Launch' = Launch /\ Running' = Running
  BY <1>5 DEF Stream, Launch, Running
<1>7. /\ c \in Seq(Line) /\ Len(c) = Len(buffer) + 1 /\ c[Len(c)] = line
      /\ \A i \in 1 .. Len(buffer) : c[i] = buffer[i]
  BY <1>3
<1>8. ListensToTheReport'
  BY <1>0, <1>1, <1>2, <1>5, <1>6 DEF PowerIInv, ListensToTheReport
<1>9. KeepsItsLines'
  <2> SUFFICES ASSUME NEW i \in DOMAIN buffer'
               PROVE  buffer'[i].key # "END" /\ \E j \in DOMAIN Stream : buffer'[i] = Stream[j]
    BY <1>6 DEF KeepsItsLines
  <2>1. i \in 1 .. Len(buffer) \/ i = Len(c)
    BY <1>3, <1>5, <1>7
  <2>2. CASE i = Len(c)
    BY <1>0, <1>5, <1>7, <2>2
  <2>3. CASE i \in 1 .. Len(buffer)
    <3>1. buffer'[i] = buffer[i] /\ i \in DOMAIN buffer
      BY <1>3, <1>5, <1>7, <2>3
    <3> QED
      BY <3>1 DEF PowerIInv, KeepsItsLines
  <2> QED
    BY <2>1, <2>2, <2>3
<1>10. FollowsTheFrame'
  <2> SUFFICES ASSUME whole'
               PROVE  /\ at' \in 2 .. Len(Stream) /\ at' - 1 <= Len(buffer')
                      /\ \A i \in 1 .. at' - 1 : buffer'[Len(buffer') - (at' - 1) + i] = Stream[i]
    BY <1>6 DEF FollowsTheFrame
  <2>1. CASE at = 1
    <3>1. at' = 2 /\ Len(c) \in Nat /\ Len(c) >= 1 /\ \A i \in 1 .. 1 : i = 1
      BY <1>5, <1>7, <2>1
    <3>2. c[Len(c) - 1 + 1] = Stream[1]
      BY <1>7, <2>1, <3>1
    <3> HIDE DEF c
    <3> QED
      BY <1>1, <1>5, <3>1, <3>2
  <2>2. CASE at > 1
    <3>1. whole
      <4>1. line.key # "START"
        BY <1>1, <1>2, <2>2
      <4> QED
        BY <1>5, <4>1, Zenon
    <3>2. /\ at - 1 <= Len(buffer)
          /\ \A i \in 1 .. at - 1 : buffer[Len(buffer) - (at - 1) + i] = Stream[i]
      BY <3>1 DEF PowerIInv, FollowsTheFrame
    <3>3. Len(buffer) \in Nat /\ at \in Nat
      BY <1>2, <1>3
    <3>4. \A i \in 1 .. at : c[Len(c) - at + i] = Stream[i]
      <4> SUFFICES ASSUME NEW i \in 1 .. at PROVE c[Len(c) - at + i] = Stream[i]
        OBVIOUS
      <4>1. CASE i = at
        <5>1. Len(c) - at + i = Len(c)
          BY <1>7, <3>3, <4>1
        <5> HIDE DEF c
        <5> QED
          BY <1>7, <4>1, <5>1
      <4>2. CASE i < at
        <5>1. Len(c) - at + i = Len(buffer) - (at - 1) + i /\ i \in 1 .. at - 1
              /\ Len(buffer) - (at - 1) + i \in 1 .. Len(buffer)
          BY <1>7, <3>2, <3>3, <4>2
        <5>2. PICK k \in 1 .. Len(buffer) : k = Len(buffer) - (at - 1) + i
          BY <5>1
        <5>3. c[k] = buffer[k] /\ buffer[k] = Stream[i] /\ Len(c) - at + i = k
          BY <1>7, <3>2, <5>1, <5>2
        <5> HIDE DEF c
        <5> QED
          BY <5>3
      <4>3. i = at \/ i < at
        BY <3>3
      <4> HIDE DEF c
      <4> QED
        BY <4>1, <4>2, <4>3
    <3> HIDE DEF c, line
    <3>6. at' = at + 1
      BY <1>5, Zenon
    <3>7. at \in 1 .. Len(Stream) - 1 /\ Len(Stream) \in {5, 9}
      BY <1>1, <1>2, Zenon
    <3>5. at' - 1 = at /\ at' \in 2 .. Len(Stream)
      BY <2>2, <3>6, <3>7
    <3> QED
      BY <1>5, <1>7, <3>2, <3>3, <3>4, <3>5
  <2> QED
    BY <1>2, <2>1, <2>2
<1>11. AcceptsItsOwn'
  BY <1>5, <1>6 DEF PowerIInv, AcceptsItsOwn
<1>12. TypeOK'
  BY <1>0, <1>2, <1>5, <1>6 DEF TypeOK
<1>13. PowerTypes' /\ StageFollows'
  <2>1. whole' \in BOOLEAN
    BY <1>5
  <2> HIDE DEF c
  <2> QED
    BY <1>0, <1>5, <1>6, <1>7, <2>1 DEF PowerIInv, PowerTypes, StageFollows
<1>14. RecordIsOfTheCapture' /\ PublishedIsPlausible'
  BY <1>0, <1>5 DEF RecordIsOfTheCapture, PublishedIsPlausible
<1>15. IntactIsFound'
  BY <1>5, <1>6 DEF PowerIInv, PublishedIsSound, IntactIsFound
<1> QED
  BY <1>8, <1>9, <1>10, <1>11, <1>12, <1>13, <1>14, <1>15 DEF PowerIInv, PublishedIsSound

\* An END closes a frame.  What is accepted are lines of this launch; and a frame followed from
\* its START is the record, so that it is accepted if the record is.
LEMMA EndStep ==
  ASSUME PowerIInv, Receive, Stream[at].key = "END"
  PROVE  PowerIInv'
<1>0. TypeOK /\ PowerTypes /\ pc = "collect" /\ at \in DOMAIN Stream
  BY DEF PowerIInv, PublishedIsSound, Receive
<1>1. /\ Stream \in Seq(Line) /\ Len(Stream) \in {5, 9} /\ DOMAIN Stream = 1 .. Len(Stream)
      /\ Stream[1].key = "START"
      /\ \A i \in 2 .. Len(Stream) - 1 : Stream[i].key # "START" /\ Stream[i].key # "END"
      /\ \A i \in 1 .. Len(Stream) :
           Stream[i].launch = Launch /\ (Stream[i].key = "CHARGE" => record.reading # "none")
  BY <1>0, StreamShape
<1>2. at = Len(Stream) /\ phase = "reporting"
  <2>1. at # 1 /\ at \notin 2 .. Len(Stream) - 1
    BY <1>1
  <2> QED
    BY <1>0, <1>1, <2>1 DEF PowerIInv, ListensToTheReport
<1>3. Stream[at] \in Line /\ buffer \in Seq(Line)
      /\ \A i \in DOMAIN buffer : buffer[i].key # "END"
  BY <1>0, <1>1 DEF PowerTypes, PowerIInv, KeepsItsLines
<1>4. PICK c : c = Append(buffer, Stream[at])
  OBVIOUS
<1>5. PICK scan : scan = Scan(c, record)
  OBVIOUS
<1>6. Closes(buffer, c, record, scan)
  BY <1>3, <1>4, <1>5, ScanCloses, Zenon
<1>7. /\ at' \in {1, Len(Stream) + 1} /\ whole' = FALSE /\ heard' = (heard \/ whole)
      /\ buffer' = <<>>
      /\ UNCHANGED <<cfg, run, images, phase, record, recipe, attempt, gaps>>
      /\ IF scan.got.ok THEN got' = scan.got /\ pc' = "check" ELSE UNCHANGED <<got, pc>>
  <2>1. UNCHANGED <<cfg, run, images, phase, record, recipe, attempt, gaps>>
    BY DEF Receive, board, flash
  <2>2. /\ at' = IF cfg.repeats THEN 1 ELSE Len(Stream) + 1
        /\ heard' = (heard \/ whole) /\ buffer' = scan.rest
        /\ IF scan.got.ok THEN got' = scan.got /\ pc' = "check" ELSE UNCHANGED <<got, pc>>
    BY <1>4, <1>5, Zenon DEF Receive
  <2>3. whole' = (Stream[at].key = "START" \/ (whole /\ ~TRUE))
    BY Zenon DEF Receive
  <2> QED
    BY <1>6, <2>1, <2>2, <2>3 DEF Closes
<1>8. Stream' = Stream /\ Launch' = Launch /\ Running' = Running
  BY <1>7 DEF Stream, Launch, Running
<1>9. pc' \in {"collect", "check"}
  BY <1>0, <1>7
<1>10. ListensToTheReport'
  <2>1. at' > 0 /\ at' <= Len(Stream) + 1
    BY <1>1, <1>7
  <2> QED
    BY <1>2, <1>7, <1>8, <1>9, <2>1 DEF PowerIInv, ListensToTheReport
<1>11. KeepsItsLines' /\ FollowsTheFrame'
  <2>1. buffer' = <<>> /\ ~whole'
    BY <1>7
  <2> QED
    BY <2>1 DEF KeepsItsLines, FollowsTheFrame
<1>12. AcceptsItsOwn'
  <2>1. cfg.internal \/ run.observed = Launch
    BY <1>0 DEF PowerIInv, AcceptsItsOwn
  <2>2. ASSUME scan.got.ok
        PROVE  scan.got.launch = Launch /\ (scan.got.charge => record.reading # "none")
    <3>1. scan.got # Refused
      BY <2>2 DEF Refused
    <3>2. PICK s \in 1 .. Len(buffer) : scan.got = Parse(SubSeq(c, s + 1, Len(buffer)), record)
      BY <1>6, <3>1, Zenon DEF Closes
    <3> DEFINE lines == SubSeq(c, s + 1, Len(buffer))
    <3>3. /\ lines \in Seq(Line)
          /\ \A i \in DOMAIN lines : \E j \in DOMAIN buffer : lines[i] = buffer[j]
      <4>1. /\ c \in Seq(Line) /\ Len(c) = Len(buffer) + 1 /\ Len(buffer) \in Nat
            /\ \A i \in 1 .. Len(buffer) : c[i] = buffer[i]
        BY <1>3, <1>4
      <4>2. lines \in Seq(Line) /\ Len(lines) = Len(buffer) - s
            /\ \A i \in 1 .. Len(buffer) - s : lines[i] = c[s + i]
        BY <4>1
      <4>3. ASSUME NEW i \in DOMAIN lines PROVE \E j \in DOMAIN buffer : lines[i] = buffer[j]
        <5>1. i \in 1 .. Len(buffer) - s
          BY <4>2, <4>3
        <5>2. s + i \in 1 .. Len(buffer) /\ lines[i] = c[s + i]
          BY <4>1, <4>2, <5>1
        <5>3. lines[i] = buffer[s + i] /\ s + i \in DOMAIN buffer
          BY <1>3, <4>1, <5>2
        <5> HIDE DEF lines
        <5> QED
          BY <5>3, Zenon
      <4> HIDE DEF lines
      <4> QED
        BY <4>2, <4>3
    <3> HIDE DEF lines
    <3>4. \A i \in DOMAIN lines :
            lines[i].launch = Launch /\ (lines[i].key = "CHARGE" => record.reading # "none")
      <4> SUFFICES ASSUME NEW i \in DOMAIN lines
                   PROVE  /\ lines[i].launch = Launch
                          /\ lines[i].key = "CHARGE" => record.reading # "none"
        OBVIOUS
      <4>1. PICK j \in DOMAIN Stream : lines[i] = Stream[j]
        BY <3>3, Zenon DEF PowerIInv, KeepsItsLines
      <4> QED
        BY <1>1, <4>1
    <3>5. scan.got = Parse(lines, record)
      BY <3>2 DEF lines
    <3>6. (record.reading # "none") \in BOOLEAN
      BY Zenon
    <3>7. WrittenBy(lines, Launch, record.reading # "none")
      BY <3>4, Zenon DEF WrittenBy
    <3>8. AcceptedOf(scan.got, Launch, record.reading # "none")
      BY <2>2, <3>3, <3>5, <3>6, <3>7, ParsedIsOfItsLines, Zenon
    <3> QED
      BY <3>8, Zenon DEF AcceptedOf
  <2> QED
    BY <1>0, <1>7, <1>8, <2>1, <2>2 DEF AcceptsItsOwn
<1>13. TypeOK'
  <2>1. at' \in Nat
    BY <1>1, <1>7
  <2> QED
    BY <1>0, <1>2, <1>7, <1>8, <1>9, <2>1 DEF TypeOK
<1>14. PowerTypes' /\ StageFollows'
  <2>1. heard' \in BOOLEAN
    BY <1>0, <1>7 DEF PowerTypes
  <2>2. /\ UNCHANGED <<cfg, run, images, record, recipe>> /\ whole' = FALSE
        /\ buffer' \in Seq(Line)
    BY <1>7
  <2> QED
    BY <1>0, <1>8, <1>9, <2>1, <2>2 DEF PowerIInv, PowerTypes, StageFollows
<1>15. RecordIsOfTheCapture' /\ PublishedIsPlausible'
  BY <1>9 DEF RecordIsOfTheCapture, PublishedIsPlausible
<1>16. IntactIsFound'
  <2> DEFINE Whole == SubSeq(Stream, 2, Len(Stream) - 1)
  <2>1. whole => scan.got = Parse(Whole, record)
    <3> SUFFICES ASSUME whole PROVE scan.got = Parse(Whole, record)
      OBVIOUS
    <3>1. /\ Len(Stream) - 1 <= Len(buffer)
          /\ \A i \in 1 .. Len(Stream) - 1 :
               buffer[Len(buffer) - (Len(Stream) - 1) + i] = Stream[i]
      BY <1>2 DEF PowerIInv, FollowsTheFrame
    <3>2. PICK s : s = Len(buffer) - (Len(Stream) - 1) + 1
      OBVIOUS
    <3>3. PICK k : k = Len(Stream) - 1
      OBVIOUS
    <3>4. /\ k <= Len(buffer) /\ s = Len(buffer) - k + 1
          /\ \A i \in 1 .. k : buffer[Len(buffer) - k + i] = Stream[i]
          /\ \A i \in 2 .. Len(Stream) - 1 : Stream[i].key # "START"
      BY <1>1, <3>1, <3>2, <3>3, Zenon
    <3>5. IsKept(Stream, buffer, c, s)
      BY <1>1, <1>3, <1>4, <3>3, <3>4, FrameIsKept, Zenon
    <3> QED
      BY <1>6, <3>5, Zenon DEF Closes, IsKept
  <2>2. heard /\ Parse(Whole, record).ok => FALSE
    BY <1>0 DEF PowerIInv, PublishedIsSound, IntactIsFound
  <2>3. Whole' = Whole
    BY <1>8
  <2>4. heard' /\ Parse(Whole, record).ok => pc' = "check"
    <3> HIDE DEF Whole
    <3> QED
      BY <1>7, <2>1, <2>2
  <2> QED
    BY <1>7, <1>8, <2>4 DEF IntactIsFound
<1> QED
  BY <1>10, <1>11, <1>12, <1>13, <1>14, <1>15, <1>16 DEF PowerIInv, PublishedIsSound

\* The deadline; without a whole record that parses nothing has been missed.
LEMMA TimeUpStep ==
  ASSUME PowerIInv, TimeUp
  PROVE  PowerIInv'
<1>0. TypeOK /\ PowerTypes /\ pc = "collect" /\ pc' = "norecord"
  BY DEF PowerIInv, PublishedIsSound, TimeUp
<1>1. UNCHANGED <<cfg, run, images, phase, record, recipe, attempt, at, gaps, buffer, whole, heard,
                  got>>
  BY DEF TimeUp, board, flash, wire
<1>2. Stream' = Stream /\ Launch' = Launch /\ Running' = Running
  BY <1>1 DEF Stream, Launch, Running
<1>3. ListensToTheReport'
  BY <1>0, <1>1, <1>2 DEF PowerIInv, ListensToTheReport
<1>4. KeepsItsLines' /\ FollowsTheFrame' /\ AcceptsItsOwn'
  BY <1>0, <1>1, <1>2 DEF PowerIInv, KeepsItsLines, FollowsTheFrame, AcceptsItsOwn
<1>5. TypeOK' /\ PowerTypes' /\ StageFollows'
  BY <1>0, <1>1, <1>2 DEF TypeOK, PowerTypes, StageFollows, Over, Failed
<1>6. PublishedIsSound'
  <2>1. ~(heard /\ Parse(SubSeq(Stream, 2, Len(Stream) - 1), record).ok)
    BY <1>0, Zenon DEF PowerIInv, PublishedIsSound, IntactIsFound
  <2>2. IntactIsFound'
    BY <1>1, <1>2, <2>1 DEF IntactIsFound
  <2> QED
    BY <1>0, <1>5, <2>2 DEF PublishedIsSound, RecordIsOfTheCapture, PublishedIsPlausible
<1> QED
  BY <1>3, <1>4, <1>5, <1>6 DEF PowerIInv

\* The checks and the publication.
LEMMA CheckStep ==
  ASSUME PowerIInv, Check
  PROVE  PowerIInv'
<1>0. TypeOK /\ PowerTypes /\ pc = "check" /\ cfg.dedicated /\ run.deployed
  BY DEF PowerIInv, PublishedIsSound, TypeOK, Check
<1>1. UNCHANGED <<cfg, images, phase, record, recipe, attempt, at, gaps, buffer, whole, heard, got>>
  BY DEF Check, board, flash, wire
<1>2. Stream' = Stream /\ Launch' = Launch /\ Running' = Running
  BY <1>1 DEF Stream, Launch, Running
<1>3. Launch \in Nat /\ Launch > 0
  BY <1>0 DEF PowerTypes, Launch
<1>4. /\ at > 0 /\ phase = "reporting" /\ Running = "power" /\ got.launch = Launch
      /\ (got.charge => record.reading # "none") /\ (cfg.internal \/ run.observed = Launch)
  <2>1. at > 0
    BY <1>0 DEF PowerIInv, ListensToTheReport
  <2> QED
    BY <1>0, <2>1 DEF PowerIInv, ListensToTheReport, AcceptsItsOwn
<1>5. /\ pc' \in {"published", "rejected"} /\ run' \in PowerRuns /\ run'.deployed
      /\ run'.count = run.count /\ run'.observed \in 0 .. Launch
      /\ pc' = "published" => /\ TerminalAgrees(record) /\ MeasurementPlausible(record)
                             /\ run'.observed = Launch
  <2>1. CASE TerminalAgrees(record) /\ MeasurementPlausible(record)
    <3>1. pc' = "published" /\ run' = [run EXCEPT !.observed = IF cfg.internal THEN Launch ELSE @]
      BY <1>4, <2>1 DEF Check
    <3>2. run' = [run EXCEPT !.observed = Launch]
      BY <1>0, <1>4, <3>1 DEF PowerTypes, PowerRuns
    <3>3. run' \in PowerRuns /\ run'.observed = Launch /\ run'.deployed = run.deployed
          /\ run'.count = run.count
      BY <1>0, <1>3, <3>2 DEF PowerTypes, PowerRuns
    <3> QED
      BY <1>0, <1>3, <2>1, <3>1, <3>3
  <2>2. CASE ~(TerminalAgrees(record) /\ MeasurementPlausible(record))
    <3>1. pc' = "rejected" /\ run' = run
      BY <2>2 DEF Check
    <3> QED
      BY <1>0, <3>1 DEF PowerTypes, TypeOK
  <2> QED
    BY <2>1, <2>2
<1>6. TypeOK' /\ PowerTypes' /\ StageFollows'
  BY <1>0, <1>1, <1>2, <1>5 DEF TypeOK, PowerTypes, PowerRuns, StageFollows, Over, Failed
<1>7. ListensToTheReport'
  BY <1>1, <1>2, <1>4, <1>5 DEF PowerIInv, ListensToTheReport
<1>8. KeepsItsLines' /\ FollowsTheFrame'
  BY <1>1, <1>2 DEF PowerIInv, KeepsItsLines, FollowsTheFrame
<1>9. AcceptsItsOwn'
  BY <1>1, <1>2, <1>4, <1>5 DEF AcceptsItsOwn
<1>10. RecordIsOfTheCapture'
  BY <1>1, <1>4, <1>5 DEF RecordIsOfTheCapture, Running
<1>11. PublishedIsPlausible'
  <2> SUFFICES ASSUME pc' = "published", cfg.internal
               PROVE  /\ record.ok /\ record.moved /\ record.completed = Expected'
                      /\ got.charge => record.reading = "good"
    BY <1>1 DEF PublishedIsPlausible
  <2>1. Expected' = Expected
    BY <1>1, <1>5 DEF Expected
  <2>2. record.ok /\ record.moved /\ record.completed = Expected
    BY <1>5 DEF TerminalAgrees
  <2>3. got.charge => record.reading = "good"
    <3>1. record.reading \in {"none", "good", "zero", "reversed", "overflow"}
      BY <1>0 DEF PowerTypes
    <3>2. record.reading # "overflow" /\ (got.charge => record.reading \notin {"zero", "reversed"})
      BY <1>5 DEF MeasurementPlausible
    <3> QED
      BY <1>4, <3>1, <3>2
  <2> QED
    BY <2>1, <2>2, <2>3
<1>12. IntactIsFound'
  BY <1>5 DEF IntactIsFound
<1> QED
  BY <1>6, <1>7, <1>8, <1>9, <1>10, <1>11, <1>12 DEF PowerIInv, PublishedIsSound

\* The first states of a run.
LEMMA PowerStart == Init => PowerIInv
<1> SUFFICES ASSUME Init PROVE PowerIInv
  OBVIOUS
<1> USE PowerRunAssumption DEF Init
<1>1. Launch = 1 /\ images \in Seq({"profile", "power"})
  BY DEF Launch
<1>2. PowerTypes
  <2>1. run \in PowerRuns
    BY DEF PowerRuns, NoRun
  <2>2. record \in [ok : BOOLEAN, completed : Nat, moved : BOOLEAN,
                   reading : {"none", "good", "zero", "reversed", "overflow"}]
    BY DEF Unreported
  <2>3. whole \in BOOLEAN /\ heard \in BOOLEAN /\ cfg \in Cases
    BY Zenon
  <2>4. buffer \in Seq(Line)
    <3>1. <<>> \in Seq(Line)
      OBVIOUS
    <3> QED
      BY <3>1, Zenon
  <2>5. recipe \in {"unread", "good", "stale", "unarmed", "absent"}
    BY Zenon
  <2>6. Launch > 0
    BY <1>1
  <2> QED
    BY <1>1, <2>1, <2>2, <2>3, <2>4, <2>5, <2>6, Zenon DEF PowerTypes
<1>3. TypeOK
  BY <1>1 DEF TypeOK, NoRun
<1>4. StageFollows /\ ListensToTheReport /\ KeepsItsLines /\ FollowsTheFrame /\ AcceptsItsOwn
  BY DEF StageFollows, ListensToTheReport, KeepsItsLines, FollowsTheFrame, AcceptsItsOwn
<1>5. RecordIsOfTheCapture /\ PublishedIsPlausible /\ IntactIsFound
  BY DEF RecordIsOfTheCapture, PublishedIsPlausible, IntactIsFound
<1> QED
  BY <1>2, <1>3, <1>4, <1>5 DEF PowerIInv, PublishedIsSound

\* Every step of the host, the board and the stream keeps the invariant.
LEMMA PowerStep == PowerIInv /\ [Next]_vars => PowerIInv'
<1> SUFFICES ASSUME PowerIInv, [Next]_vars PROVE PowerIInv'
  OBVIOUS
<1>1. CASE Plan \/ Build \/ Flash \/ Reset \/ Observe \/ Unseen
  BY <1>1, StageStep
<1>2. CASE Board
  BY <1>2, BoardStep
<1>3. CASE Attach \/ Gap
  BY <1>3, PositionStep
<1>4. CASE Receive
  BY <1>4, LineStep, EndStep
<1>5. CASE TimeUp
  BY <1>5, TimeUpStep
<1>6. CASE Check
  BY <1>6, CheckStep
<1>7. CASE UNCHANGED vars
  <2>1. UNCHANGED <<cfg, pc, run, images, phase, record, recipe, attempt, at, gaps, buffer, whole,
                    heard, got>>
    BY <1>7 DEF vars, board, flash, wire
  <2>2. Stream' = Stream /\ Launch' = Launch /\ Running' = Running /\ Expected' = Expected
    BY <2>1 DEF Stream, Launch, Running, Expected
  <2>3. PublishedIsSound'
    BY <2>1, <2>2 DEF PowerIInv, PublishedIsSound, TypeOK, RecordIsOfTheCapture,
                      PublishedIsPlausible, IntactIsFound
  <2>4. PowerTypes' /\ StageFollows' /\ ListensToTheReport' /\ KeepsItsLines'
        /\ FollowsTheFrame' /\ AcceptsItsOwn'
    BY <2>1, <2>2 DEF PowerIInv, PowerTypes, StageFollows, ListensToTheReport, KeepsItsLines,
                      FollowsTheFrame, AcceptsItsOwn
  <2> QED
    BY <2>3, <2>4 DEF PowerIInv
<1> QED
  BY <1>1, <1>2, <1>3, <1>4, <1>5, <1>6, <1>7 DEF Next, Host

\* A power run keeps to its stages, and the record it publishes is of the launch it measured.
THEOREM PowerRunInvariance == Spec => []PowerIInv
<1> QED
  BY PowerStart, PowerStep, PTL DEF Spec

\* For every configuration and any number of gaps: what is published with a capture was written
\* by the launch whose window was measured and by the binary this run built, is as plausible as
\* its mode asks, and no whole record that parses is missed.
THEOREM PublishedHolds == Spec => []PublishedIsSound
<1>1. PowerIInv => PublishedIsSound
  BY DEF PowerIInv
<1> QED
  BY <1>1, PowerRunInvariance, PTL
=============================================================================
