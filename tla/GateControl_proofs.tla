------------------------- MODULE GateControl_proofs -------------------------
(***************************************************************************)
(* Proofs about GateControl for all floors, guards, lags and bounds: the   *)
(* evidence kept poll by poll is what the whole history of polls shows,    *)
(* and the capture stops early only with cause.                            *)
(***************************************************************************)
EXTENDS GateControl, FiniteSetTheorems, SequenceTheorems, TLAPS

\* The floors and bounds are natural numbers.
LEMMA Bounds ==
  /\ MinGate \in Nat /\ PlanFloor \in Nat /\ MinGate <= PlanFloor /\ 0 < PlanFloor
  /\ Guard \in Nat /\ 0 < Guard /\ Lag \in Nat /\ MaxStep \in Nat /\ 0 < MaxStep /\ Horizon \in Nat
BY GateAssumption

-----------------------------------------------------------------------------
(* The history of polls, and one more of them. *)

LEMMA PollsAre ==
  ASSUME PollsInOrder
  PROVE  /\ Len(polls) \in Nat /\ DOMAIN polls = 1 .. Len(polls)
         /\ \A i \in DOMAIN polls : /\ polls[i].t \in Nat /\ polls[i].tick \in Nat
                                    /\ polls[i].level \in {0, 1} /\ polls[i].state \in {0, 1}
<1>1. polls \in Seq(Poll)
  BY DEF PollsInOrder
<1>2. Len(polls) \in Nat /\ DOMAIN polls = 1 .. Len(polls)
  BY <1>1, LenProperties
<1>3. \A i \in DOMAIN polls : polls[i] \in Poll
  BY <1>1, <1>2, ElementOfSeq
<1>4. \A i \in DOMAIN polls : /\ polls[i].t \in Nat /\ polls[i].tick \in Nat
                              /\ polls[i].level \in {0, 1} /\ polls[i].state \in {0, 1}
  BY <1>3 DEF Poll, Levels
<1>5. QED
  BY <1>2, <1>4

\* A poll later than all before is added to the history.
Adds(e) ==
  /\ e \in Poll /\ polls' = Append(polls, e)
  /\ \A i \in DOMAIN polls : polls[i].t < e.t

LEMMA Grown ==
  ASSUME PollsInOrder, NEW e, Adds(e)
  PROVE  /\ polls' \in Seq(Poll) /\ Len(polls') = Len(polls) + 1
         /\ DOMAIN polls' = 1 .. Len(polls) + 1
         /\ \A i \in DOMAIN polls : polls'[i] = polls[i]
         /\ polls'[Len(polls) + 1] = e
<1>1. polls \in Seq(Poll) /\ e \in Poll /\ polls' = Append(polls, e)
  BY DEF PollsInOrder, Adds
<1>2. QED
  BY <1>1, PollsAre, AppendProperties

\* The rises before stay, and the new poll is one if it is high after a low.
LEMMA RisesGrow ==
  ASSUME PollsInOrder, NEW e, Adds(e)
  PROVE  /\ \A i \in DOMAIN polls : RiseAt(i)' <=> RiseAt(i)
         /\ \A n : n = Len(polls) + 1 => (RiseAt(n)' <=> e.go /\ e.level = 1 /\ prev = 0)
<1>1. Len(polls) \in Nat /\ DOMAIN polls = 1 .. Len(polls)
  BY PollsAre
<1>2. /\ \A i \in DOMAIN polls : polls'[i] = polls[i]
      /\ polls'[Len(polls) + 1] = e
  BY Grown
<1>3. \A i \in 1 .. Len(polls) + 1 : i # 1 => polls'[i - 1] = polls[i - 1]
  BY <1>1, <1>2
<1>4. \A i \in 1 .. Len(polls) + 1 : LevelBefore(i)' = LevelBefore(i)
  BY <1>3 DEF LevelBefore
<1>5. \A i \in DOMAIN polls : RiseAt(i)' <=> RiseAt(i)
  BY <1>1, <1>2, <1>4 DEF RiseAt
<1>6. ASSUME NEW n, n = Len(polls) + 1
      PROVE  RiseAt(n)' <=> e.go /\ e.level = 1 /\ prev = 0
  <2>1. polls'[n] = e /\ n \in 1 .. Len(polls) + 1
    BY <1>1, <1>2, <1>6
  <2>2. LevelBefore(n)' = prev
    BY <1>4, <1>6, <2>1 DEF PollsInOrder
  <2>3. QED
    BY <2>1, <2>2, Zenon DEF RiseAt
<1>7. QED
  BY <1>5, <1>6

\* Two highs are not open at once.
LEMMA OneIsOpen ==
  ASSUME PollsInOrder, NEW i \in DOMAIN polls, NEW j \in DOMAIN polls, OpenSince(i), OpenSince(j)
  PROVE  i = j
<1>1. \A k, l \in DOMAIN polls : OpenSince(k) /\ OpenSince(l) => ~(k < l)
  <2> SUFFICES ASSUME NEW k \in DOMAIN polls, NEW l \in DOMAIN polls, OpenSince(k), OpenSince(l), k < l
               PROVE  FALSE
    OBVIOUS
  <2>1. k \in Nat /\ l \in Nat /\ 1 <= k /\ l <= Len(polls) /\ Len(polls) \in Nat
    BY PollsAre
  <2>2. l # 1 /\ l - 1 \in k .. Len(polls)
    BY <2>1
  <2>3. polls[l - 1].level = 1
    BY <2>2 DEF OpenSince
  <2>4. LevelBefore(l) = 0
    BY DEF OpenSince, RiseAt
  <2>5. QED
    BY <2>2, <2>3, <2>4 DEF LevelBefore
<1>2. i \in Int /\ j \in Int
  BY PollsAre
<1>3. QED
  BY <1>1, <1>2

\* A pulse is a pair of polls.
LEMMA PulsesAre ==
  ASSUME PollsInOrder, NEW p \in Pulses
  PROVE  /\ p[1] \in 1 .. Len(polls) /\ p[2] \in 1 .. Len(polls) /\ p = <<p[1], p[2]>>
         /\ p[1] < p[2] /\ RiseAt(p[1]) /\ polls[p[2]].level = 0
         /\ \A k \in p[1] .. p[2] - 1 : polls[k].level = 1
         /\ Length(p) \in Int
BY PollsAre DEF Pulses, Length

LEMMA PulsesAreFinite ==
  ASSUME PollsInOrder
  PROVE  IsFiniteSet(Pulses) /\ IsFiniteSet(TooShort) /\ IsFiniteSet(BelowPlan)
<1>0. IsFiniteSet(1 .. Len(polls))
  <2>1. Len(polls) \in Int /\ 1 \in Int
    BY PollsAre
  <2>2. QED
    BY <2>1, FS_Interval
<1>1. IsFiniteSet((1 .. Len(polls)) \X (1 .. Len(polls)))
  BY <1>0, FS_Product
<1>2. Pulses \subseteq (1 .. Len(polls)) \X (1 .. Len(polls))
  BY PollsAre DEF Pulses
<1>3. TooShort \subseteq Pulses /\ BelowPlan \subseteq Pulses
  BY DEF TooShort, BelowPlan, Judged
<1>4. QED
  BY <1>1, <1>2, <1>3, FS_Subset

\* A pulse stays one and as long.
LEMMA PulsesStay ==
  ASSUME PollsInOrder, NEW e, Adds(e), NEW p \in Pulses
  PROVE  p \in Pulses' /\ Length(p)' = Length(p)
<1>1. p[1] \in DOMAIN polls /\ p[2] \in DOMAIN polls
  BY PulsesAre, PollsAre
<1>2. Length(p)' = Length(p)
  BY <1>1, Grown DEF Length
<1>3. p \in (DOMAIN polls') \X (DOMAIN polls')
  BY PulsesAre, Grown, PollsAre
<1>4. p[1] < p[2] /\ RiseAt(p[1])' /\ polls'[p[2]].level = 0
  BY <1>1, PulsesAre, Grown, RisesGrow
<1>5. \A k \in p[1] .. p[2] - 1 : polls'[k].level = 1
  BY <1>1, PulsesAre, Grown, PollsAre
<1>6. QED
  BY <1>2, <1>3, <1>4, <1>5 DEF Pulses

\* A pulse that is new ends at the new poll, and rose where a high was open.
LEMMA NewPulse ==
  ASSUME PollsInOrder, NEW e, Adds(e), NEW p \in Pulses', p \notin Pulses
  PROVE  /\ p[1] \in DOMAIN polls /\ OpenSince(p[1]) /\ e.level = 0
         /\ p = <<p[1], Len(polls) + 1>>
<1>1. /\ p \in (1 .. Len(polls) + 1) \X (1 .. Len(polls) + 1) /\ p[1] < p[2] /\ RiseAt(p[1])'
      /\ polls'[p[2]].level = 0 /\ \A k \in p[1] .. p[2] - 1 : polls'[k].level = 1
  BY Grown DEF Pulses
<1>2. p[1] \in DOMAIN polls /\ RiseAt(p[1])
  BY <1>1, PollsAre, RisesGrow
<1>3. p[2] = Len(polls) + 1
  <2> SUFFICES ASSUME p[2] # Len(polls) + 1 PROVE FALSE
    OBVIOUS
  <2>1. p[2] \in DOMAIN polls
    BY <1>1, PollsAre
  <2>2. p \in (DOMAIN polls) \X (DOMAIN polls)
    BY <1>1, <1>2, <2>1
  <2>3. polls[p[2]].level = 0
    BY <1>1, <2>1, Grown
  <2>4. \A k \in p[1] .. p[2] - 1 : polls[k].level = 1
    BY <1>1, <1>2, <2>1, PollsAre, Grown
  <2>5. QED
    BY <1>1, <1>2, <2>2, <2>3, <2>4 DEF Pulses
<1>4. \A k \in p[1] .. Len(polls) : polls[k].level = 1
  BY <1>1, <1>2, <1>3, PollsAre, Grown
<1>5. QED
  BY <1>1, <1>2, <1>3, <1>4, PollsAre, Grown DEF OpenSince

\* A poll that ends no open high adds no pulse.
LEMMA NoPulseAdded ==
  ASSUME PollsInOrder, NEW e, Adds(e),
         e.level # 0 \/ \A i \in DOMAIN polls : ~OpenSince(i)
  PROVE  Pulses' = Pulses /\ Planned' = Planned /\ TooShort' = TooShort /\ BelowPlan' = BelowPlan
<1>1. Pulses' = Pulses
  BY PulsesStay, NewPulse
<1>2. \A p \in Pulses : Length(p)' = Length(p)
  BY PulsesStay
<1>3. Planned' = Planned
  BY <1>1, <1>2 DEF Planned
<1>4. Judged' = Judged
  BY <1>1, <1>3 DEF Judged
<1>5. Judged \subseteq Pulses
  BY DEF Judged
<1>6. QED
  BY <1>1, <1>2, <1>3, <1>4, <1>5 DEF TooShort, BelowPlan

\* A poll that ends the open high adds one pulse, the last to have risen.
LEMMA OnePulseAdded ==
  ASSUME PollsInOrder, NEW e, Adds(e), e.level = 0, NEW i \in DOMAIN polls, OpenSince(i),
         NEW new, new = <<i, Len(polls) + 1>>
  PROVE  /\ Pulses' = Pulses \cup {new} /\ new \notin Pulses /\ Length(new)' = e.t - polls[i].t
         /\ \A p \in Pulses : p[1] < i /\ Length(p)' = Length(p)
         /\ prev = 1
<1>1. new \notin Pulses
  BY PulsesAre, PollsAre
<1>2. Length(new)' = e.t - polls[i].t
  <2>1. new[1] = i /\ new[2] = Len(polls) + 1
    OBVIOUS
  <2>2. QED
    BY <2>1, Grown DEF Length
<1>3. \A p \in Pulses : p[1] < i /\ Length(p)' = Length(p)
  <2> SUFFICES ASSUME NEW p \in Pulses PROVE p[1] < i /\ Length(p)' = Length(p)
    OBVIOUS
  <2>1. p[1] < i
    BY PulsesAre, PollsAre DEF OpenSince
  <2>2. QED
    BY <2>1, PulsesStay
<1>4. prev = 1
  <2>1. prev = LevelBefore(Len(polls) + 1)
    BY DEF PollsInOrder
  <2>2. Len(polls) \in i .. Len(polls) /\ Len(polls) + 1 # 1 /\ (Len(polls) + 1) - 1 = Len(polls)
    BY PollsAre
  <2>3. QED
    BY <2>1, <2>2 DEF OpenSince, LevelBefore
<1>5. new \in Pulses'
  <2>1. new \in (DOMAIN polls') \X (DOMAIN polls') /\ new[1] = i /\ new[2] = Len(polls) + 1
    BY Grown, PollsAre
  <2>2. RiseAt(i)' /\ polls'[Len(polls) + 1].level = 0
    BY Grown, RisesGrow DEF OpenSince
  <2>3. \A k \in i .. Len(polls) : polls'[k].level = 1
    BY Grown, PollsAre DEF OpenSince
  <2>4. i < Len(polls) + 1 /\ (Len(polls) + 1) - 1 = Len(polls)
    BY PollsAre
  <2>5. QED
    BY <2>1, <2>2, <2>3, <2>4 DEF Pulses
<1>6. Pulses' = Pulses \cup {new}
  <2>1. \A p \in Pulses' : p \in Pulses \/ p = new
    BY NewPulse, OneIsOpen
  <2>2. QED
    BY <1>5, <2>1, PulsesStay
<1>7. QED
  BY <1>1, <1>2, <1>3, <1>4, <1>6

\* After a planned window a pulse is not judged any more.
LEMMA LaterPulse ==
  ASSUME PollsInOrder, NEW e, Adds(e), e.level = 0, NEW i \in DOMAIN polls, OpenSince(i),
         Planned # {}
  PROVE  /\ TooShort' = TooShort /\ BelowPlan' = BelowPlan
         /\ Planned \subseteq Planned' /\ \A w \in Planned' : w \in Planned \/ w[1] = i
         /\ \A w \in Planned : w[1] < i
<1> PICK new : new = <<i, Len(polls) + 1>>
  OBVIOUS
<1>1. /\ Pulses' = Pulses \cup {new} /\ new \notin Pulses /\ new[1] = i
      /\ \A p \in Pulses : p[1] < i /\ Length(p)' = Length(p)
  BY OnePulseAdded
<1>2. \A p \in Pulses : p[1] \in Int
  BY PulsesAre
<1>3. i \in Int
  BY PollsAre
<1>4. Planned \subseteq Pulses /\ Planned \subseteq Planned' /\ \A w \in Planned' : w \in Planned \/ w = new
  BY <1>1 DEF Planned
<1>5. PICK w \in Planned : TRUE
  OBVIOUS
<1>6. Judged' = Judged
  <2>1. new \notin Judged'
    BY <1>1, <1>2, <1>3, <1>4, <1>5 DEF Judged
  <2>2. \A p \in Judged : p \in Judged'
    BY <1>1, <1>2, <1>3, <1>4 DEF Judged
  <2>3. \A p \in Judged' : p \in Judged
    BY <1>1, <1>4, <2>1 DEF Judged
  <2>4. QED
    BY <2>2, <2>3
<1>7. Judged \subseteq Pulses
  BY DEF Judged
<1>8. TooShort' = TooShort /\ BelowPlan' = BelowPlan
  BY <1>1, <1>6, <1>7 DEF TooShort, BelowPlan
<1>9. QED
  BY <1>1, <1>4, <1>8

\* Before it every pulse is, by its length.
LEMMA PulseJudged ==
  ASSUME PollsInOrder, NEW e, Adds(e), e.level = 0, NEW i \in DOMAIN polls, OpenSince(i),
         NEW new, new = <<i, Len(polls) + 1>>, Planned = {}
  PROVE  /\ Planned' = IF e.t - polls[i].t >= PlanFloor THEN {new} ELSE {}
         /\ TooShort' = IF e.t - polls[i].t < MinGate THEN TooShort \cup {new} ELSE TooShort
         /\ BelowPlan' = IF e.t - polls[i].t >= MinGate /\ e.t - polls[i].t < PlanFloor
                           THEN BelowPlan \cup {new} ELSE BelowPlan
         /\ new \notin TooShort /\ new \notin BelowPlan
         /\ \A p \in BelowPlan : p[1] < i
<1>1. /\ Pulses' = Pulses \cup {new} /\ new \notin Pulses /\ Length(new)' = e.t - polls[i].t
      /\ \A p \in Pulses : p[1] < i /\ Length(p)' = Length(p)
  BY OnePulseAdded
<1>2. \A p \in Pulses : p[1] \in Int
  BY PulsesAre
<1>3. i \in Int /\ new[1] = i
  BY PollsAre
<1>4. Judged = Pulses
  BY DEF Judged
<1>5. Planned' = IF e.t - polls[i].t >= PlanFloor THEN {new} ELSE {}
  BY <1>1 DEF Planned
<1>6. Judged' = Pulses'
  BY <1>1, <1>2, <1>3, <1>5 DEF Judged
<1>7. TooShort' = IF e.t - polls[i].t < MinGate THEN TooShort \cup {new} ELSE TooShort
  BY <1>1, <1>4, <1>6 DEF TooShort
<1>8. BelowPlan' = IF e.t - polls[i].t >= MinGate /\ e.t - polls[i].t < PlanFloor
                     THEN BelowPlan \cup {new} ELSE BelowPlan
  BY <1>1, <1>4, <1>6 DEF BelowPlan
<1>9. TooShort \subseteq Pulses /\ BelowPlan \subseteq Pulses
  BY <1>4 DEF TooShort, BelowPlan
<1>10. QED
  BY <1>1, <1>5, <1>7, <1>8, <1>9

\* Nothing else depends on the polls: what is said of them stands while they do.
LEMMA PollsStand ==
  ASSUME polls' = polls
  PROVE  /\ Pulses' = Pulses /\ Planned' = Planned /\ TooShort' = TooShort /\ BelowPlan' = BelowPlan
         /\ \A i : (RiseAt(i)' <=> RiseAt(i)) /\ (OpenSince(i)' <=> OpenSince(i))
BY DEF Pulses, Planned, TooShort, BelowPlan, Judged, Length, RiseAt, LevelBefore, OpenSince

\* Before GO there are no rises, thus no pulses.
LEMMA NoneBeforeGo ==
  ASSUME PollsInOrder, ~go
  PROVE  /\ Pulses = {} /\ Planned = {} /\ TooShort = {} /\ BelowPlan = {}
         /\ \A i \in DOMAIN polls : ~polls[i].go /\ ~RiseAt(i) /\ ~OpenSince(i)
<1>1. \A i \in DOMAIN polls : ~polls[i].go
  BY DEF PollsInOrder
<1>2. \A i \in DOMAIN polls : ~RiseAt(i) /\ ~OpenSince(i)
  BY <1>1 DEF RiseAt, OpenSince
<1>3. Pulses = {}
  BY <1>2 DEF Pulses
<1>4. QED
  BY <1>1, <1>2, <1>3 DEF Planned, TooShort, BelowPlan, Judged

NothingYet ==
  /\ Pulses = {} /\ Planned = {} /\ TooShort = {} /\ BelowPlan = {}
  /\ \A i \in DOMAIN polls : ~polls[i].go /\ ~RiseAt(i) /\ ~OpenSince(i)

LEMMA NoneBeforeGoNext == PollsInOrder' /\ ~go' => NothingYet'
<1>1. PollsInOrder /\ ~go => NothingYet
  BY NoneBeforeGo DEF NothingYet
<1>2. QED
  BY <1>1, PTL

-----------------------------------------------------------------------------
(* What the actions do, apart from the levels and flags they copy. *)

LEMMA TimesAre ==
  ASSUME TypeOK, NEW time \in Times
  PROVE  /\ time[1] \in Nat /\ time[2] \in Nat /\ now \in Nat
<1>1. now \in Nat
  BY Bounds DEF TypeOK
<1>2. PICK i \in 0 .. now + MaxStep, d \in 1 .. MaxStep : time = <<i, now + d>>
  BY DEF Times
<1>3. QED
  BY <1>1, <1>2, Bounds

LEMMA AfterGoAdds ==
  ASSUME PollsInOrder, NEW tick \in Nat, NEW t \in Nat, NEW level \in Levels, NEW state \in States,
         NEW valid \in BOOLEAN, PollAfterGo(tick, t, level, state, valid), now \in Nat
  PROVE  \E e : /\ Adds(e) /\ e.t = t /\ e.tick = tick /\ e.level = level /\ e.state = state
                /\ e.go /\ (e.valid <=> valid)
<1> DEFINE e == [t |-> t, tick |-> tick, level |-> level, state |-> state, go |-> TRUE, valid |-> valid]
<1>1. polls' = Append(polls, e) /\ t > now
  BY DEF PollAfterGo, Sampled
<1>2. e \in Poll
  <2>1. state \in Levels
    BY DEF States, Levels
  <2>2. QED
    BY <2>1, Zenon DEF Poll
<1>3. \A i \in DOMAIN polls : polls[i].t <= now
  BY DEF PollsInOrder
<1>4. \A i \in DOMAIN polls : polls[i].t \in Nat
  BY PollsAre
<1>5. e.t = t /\ e.tick = tick /\ e.level = level /\ e.state = state /\ e.go = TRUE /\ e.valid = valid
  OBVIOUS
<1>6. Adds(e)
  BY <1>1, <1>2, <1>3, <1>4, <1>5 DEF Adds
<1>7. QED
  BY <1>5, <1>6, Zenon

LEMMA BeforeGoAdds ==
  ASSUME PollsInOrder, NEW tick \in Nat, NEW t \in Nat, NEW level \in Levels, NEW state \in States,
         PollBeforeGo(tick, t, level, state), now \in Nat
  PROVE  \E e : Adds(e) /\ e.t = t /\ e.tick = tick /\ e.level = level /\ ~e.go
<1> DEFINE e == [t |-> t, tick |-> tick, level |-> level, state |-> state, go |-> FALSE, valid |-> FALSE]
<1>1. polls' = Append(polls, e) /\ t > now
  BY DEF PollBeforeGo, Sampled
<1>2. e \in Poll
  <2>1. state \in Levels
    BY DEF States, Levels
  <2>2. QED
    BY <2>1, Zenon DEF Poll
<1>3. \A i \in DOMAIN polls : polls[i].t <= now
  BY DEF PollsInOrder
<1>4. \A i \in DOMAIN polls : polls[i].t \in Nat
  BY PollsAre
<1>5. e.t = t /\ e.tick = tick /\ e.level = level /\ e.state = state /\ e.go = FALSE
  OBVIOUS
<1>6. Adds(e)
  BY <1>1, <1>2, <1>3, <1>4, <1>5 DEF Adds
<1>7. QED
  BY <1>5, <1>6, Zenon

\* The sample is retained at the end, behind a low if it is the first and a rise.
LEMMA Retained ==
  ASSUME samples \in Seq(Nat \X Levels), lastTick \in Nat \cup {NoTime}, NEW tick \in Nat, NEW level \in Levels,
         Retain(tick, level)
  PROVE  /\ samples' \in Seq(Nat \X Levels)
         /\ samples = <<>> /\ Rise(level) => Len(samples') = 2 /\ samples'[1][2] = 0
         /\ ~(samples = <<>> /\ Rise(level)) =>
              Len(samples') = Len(samples) + 1 /\ \A k \in 1 .. Len(samples) : samples'[k] = samples[k]
         /\ samples'[Len(samples')] = <<tick, level>>
<1> DEFINE prior == IF lastTick = NoTime THEN tick ELSE lastTick
<1>1. CASE samples = <<>> /\ Rise(level)
  <2>1. samples' = <<>> \o <<<<prior, 0>>>> \o <<<<tick, level>>>>
    BY <1>1 DEF Retain
  <2>2. <<prior, 0>> \in Nat \X Levels /\ <<tick, level>> \in Nat \X Levels
    BY DEF Levels
  <2>3. <<<<prior, 0>>>> \in Seq(Nat \X Levels) /\ Len(<<<<prior, 0>>>>) = 1
    BY <2>2
  <2>4. samples' = Append(<<<<prior, 0>>>>, <<tick, level>>)
    BY <2>1, <2>2, <2>3, ConcatEmptySeq, AppendIsConcat
  <2>5. /\ samples' \in Seq(Nat \X Levels) /\ Len(samples') = 2
        /\ samples'[1] = <<<<prior, 0>>>>[1] /\ samples'[2] = <<tick, level>>
    BY <2>2, <2>3, <2>4, AppendProperties
  <2>6. QED
    BY <1>1, <2>5
<1>2. CASE ~(samples = <<>> /\ Rise(level))
  <2>1. samples' = samples \o <<>> \o <<<<tick, level>>>>
    BY <1>2 DEF Retain
  <2>2. samples' = Append(samples, <<tick, level>>)
    BY <2>1
  <2>3. <<tick, level>> \in Nat \X Levels
    OBVIOUS
  <2>4. /\ samples' \in Seq(Nat \X Levels) /\ Len(samples') = Len(samples) + 1
        /\ \A k \in 1 .. Len(samples) : samples'[k] = samples[k]
        /\ samples'[Len(samples) + 1] = <<tick, level>>
    BY <2>2, <2>3, AppendProperties
  <2>5. QED
    BY <1>2, <2>4
<1>3. QED
  BY <1>1, <1>2
-----------------------------------------------------------------------------
LEMMA NextCases ==
  ASSUME TypeOK, [Next]_vars
  PROVE  \/ SwitchPhase \/ UNCHANGED vars
         \/ \E t \in Nat : PollFails(t)
         \/ \E tick, t \in Nat, level \in Levels, state \in States : PollBeforeGo(tick, t, level, state)
         \/ \E tick, t \in Nat, level \in Levels, state \in States, valid \in BOOLEAN :
              PollAfterGo(tick, t, level, state, valid)
<1>1. CASE SwitchPhase \/ UNCHANGED vars
  BY <1>1
<1>2. CASE \E d \in 1 .. MaxStep : PollFails(now + d)
  <2>1. \A d \in 1 .. MaxStep : now + d \in Nat
    BY Bounds DEF TypeOK
  <2>2. QED
    BY <1>2, <2>1
<1>3. CASE \E time \in Times, level \in Levels, state \in States :
             \/ PollBeforeGo(time[1], time[2], level, state)
             \/ \E valid \in BOOLEAN : PollAfterGo(time[1], time[2], level, state, valid)
  BY <1>3, TimesAre, Zenon
<1>4. QED
  BY <1>1, <1>2, <1>3, Zenon DEF Next

LEMMA InitGate == Init => GateIInv
<1> SUFFICES ASSUME Init PROVE GateIInv
  OBVIOUS
<1>1. polls = <<>> /\ Len(polls) = 0 /\ DOMAIN polls = {} /\ samples = <<>>
  BY DEF Init
<1>2. Pulses = {} /\ Planned = {} /\ TooShort = {} /\ BelowPlan = {}
  BY <1>1 DEF Pulses, Planned, TooShort, BelowPlan, Judged
<1>3. /\ requireDone \in Modes /\ go \in BOOLEAN /\ highSeen \in BOOLEAN /\ fallSeen \in BOOLEAN
      /\ acknowledged \in BOOLEAN /\ gateSeen \in BOOLEAN /\ pending \in BOOLEAN /\ early \in BOOLEAN
      /\ ~highSeen /\ ~fallSeen /\ ~acknowledged /\ ~gateSeen /\ ~early
  BY Zenon DEF Init
<1>4. TypeOK
  <2>1. /\ now \in 0 .. Horizon /\ prev \in Levels /\ lastTick \in Nat \cup {NoTime}
        /\ samples \in Seq(Nat \X Levels)
        /\ firstHigh \in Nat \cup {NoTime} /\ firstLow \in Nat \cup {NoTime}
        /\ short \in Nat /\ below \in Nat
        /\ belowWindow \in (Nat \cup {NoTime}) \X (Nat \cup {NoTime})
        /\ completeAt \in Nat \cup {NoTime} /\ firstHigh = NoTime /\ firstLow = NoTime
    BY Bounds DEF Init, Levels, NoTime
  <2>2. QED
    BY <1>3, <2>1, Zenon DEF TypeOK
<1>5. PollsInOrder
  <2>1. polls \in Seq(Poll)
    BY <1>1
  <2>2. prev = LevelBefore(Len(polls) + 1)
    BY <1>1 DEF Init, LevelBefore
  <2>3. QED
    BY <1>1, <2>1, <2>2 DEF PollsInOrder
<1>6. RiseIsRemembered
  BY <1>1, <1>2 DEF RiseIsRemembered, Init
<1>7. PulsesAreCounted
  BY <1>2, <1>3, FS_EmptySet DEF PulsesAreCounted, Init
<1>8. CompletionHasCause
  BY <1>2, <1>3 DEF CompletionHasCause, Init
<1>9. SamplesArePolls
  BY <1>1 DEF SamplesArePolls
<1>10. QED
  BY <1>4, <1>5, <1>6, <1>7, <1>8, <1>9 DEF GateIInv

\* The flags stay flags.
LEMMA FlagsStep ==
  ASSUME TypeOK, [Next]_vars
  PROVE  /\ requireDone' \in Modes /\ go' \in BOOLEAN /\ highSeen' \in BOOLEAN /\ fallSeen' \in BOOLEAN
         /\ acknowledged' \in BOOLEAN /\ gateSeen' \in BOOLEAN /\ pending' \in BOOLEAN /\ early' \in BOOLEAN
<1> USE DEF TypeOK
<1>1. CASE SwitchPhase
  BY <1>1, Zenon DEF SwitchPhase, edgeVars, completionVars
<1>2. CASE UNCHANGED vars
  BY <1>2, Zenon DEF vars, edgeVars, completionVars
<1>3. CASE \E t \in Nat : PollFails(t)
  BY <1>3, Zenon DEF PollFails, CheckGuard, edgeVars, completionVars
<1>4. CASE \E tick, t \in Nat, level \in Levels, state \in States : PollBeforeGo(tick, t, level, state)
  BY <1>4, Zenon DEF PollBeforeGo
<1>5. CASE \E tick, t \in Nat, level \in Levels, state \in States, valid \in BOOLEAN :
             PollAfterGo(tick, t, level, state, valid)
  <2> PICK tick \in Nat, t \in Nat, level \in Levels, state \in States, valid \in BOOLEAN :
             PollAfterGo(tick, t, level, state, valid)
    BY <1>5
  <2>1. ObserveCompletion(level, state) /\ ObserveEdge(level, t) /\ CheckGuard(t)
        /\ requireDone' = requireDone /\ go' = go
    BY Zenon DEF PollAfterGo
  <2>2. acknowledged' \in BOOLEAN /\ gateSeen' \in BOOLEAN /\ pending' \in BOOLEAN
    BY <2>1, Zenon DEF ObserveCompletion
  <2>3. early' \in BOOLEAN
    BY <2>1, Zenon DEF CheckGuard
  <2>4. highSeen' \in BOOLEAN /\ fallSeen' \in BOOLEAN
    BY <2>1, Zenon DEF ObserveEdge, FallShort, FallBelowPlan, FallPlanned, ForgetHigh, edgeVars
  <2>5. QED
    BY <2>1, <2>2, <2>3, <2>4, Zenon
<1>6. QED
  BY <1>1, <1>2, <1>3, <1>4, <1>5, NextCases

\* The state keeps its shape.
LEMMA TypeStep ==
  ASSUME TypeOK, [Next]_vars
  PROVE  TypeOK'
<1>1. /\ now' \in 0 .. Horizon /\ prev' \in Levels /\ lastTick' \in Nat \cup {NoTime}
      /\ samples' \in Seq(Nat \X Levels)
      /\ firstHigh' \in Nat \cup {NoTime} /\ firstLow' \in Nat \cup {NoTime}
      /\ short' \in Nat /\ below' \in Nat
      /\ belowWindow' \in (Nat \cup {NoTime}) \X (Nat \cup {NoTime})
      /\ completeAt' \in Nat \cup {NoTime}
      /\ highSeen' => firstHigh' # NoTime
      /\ firstHigh' # NoTime => highSeen'
      /\ firstLow' # NoTime => firstHigh' # NoTime
  <2>0. /\ now \in 0 .. Horizon /\ prev \in Levels /\ lastTick \in Nat \cup {NoTime}
        /\ samples \in Seq(Nat \X Levels)
        /\ firstHigh \in Nat \cup {NoTime} /\ firstLow \in Nat \cup {NoTime}
        /\ short \in Nat /\ below \in Nat
        /\ belowWindow \in (Nat \cup {NoTime}) \X (Nat \cup {NoTime})
        /\ completeAt \in Nat \cup {NoTime}
        /\ highSeen => firstHigh # NoTime
        /\ firstHigh # NoTime => highSeen
        /\ firstLow # NoTime => firstHigh # NoTime
    BY Zenon DEF TypeOK
  <2>1. CASE SwitchPhase
    BY <2>0, <2>1 DEF SwitchPhase, edgeVars, completionVars
  <2>2. CASE UNCHANGED vars
    BY <2>0, <2>2 DEF vars, edgeVars, completionVars
  <2>3. CASE \E t \in Nat : PollFails(t)
    BY <2>0, <2>3 DEF PollFails, edgeVars, completionVars
  <2>4. CASE \E tick, t \in Nat, level \in Levels, state \in States : PollBeforeGo(tick, t, level, state)
    BY <2>0, <2>4 DEF PollBeforeGo, Sampled
  <2>5. ASSUME NEW tick \in Nat, NEW t \in Nat, NEW level \in Levels, NEW state \in States,
               NEW valid \in BOOLEAN, PollAfterGo(tick, t, level, state, valid)
        PROVE  /\ now' \in 0 .. Horizon /\ prev' \in Levels /\ lastTick' \in Nat \cup {NoTime}
               /\ samples' \in Seq(Nat \X Levels)
               /\ firstHigh' \in Nat \cup {NoTime} /\ firstLow' \in Nat \cup {NoTime}
               /\ short' \in Nat /\ below' \in Nat
               /\ belowWindow' \in (Nat \cup {NoTime}) \X (Nat \cup {NoTime})
               /\ completeAt' \in Nat \cup {NoTime}
               /\ highSeen' => firstHigh' # NoTime
               /\ firstHigh' # NoTime => highSeen'
               /\ firstLow' # NoTime => firstHigh' # NoTime
    <3>1. /\ Sampled(tick, t) /\ Retain(tick, level) /\ ObserveEdge(level, t) /\ prev' = level
          /\ Confirm(level, t, valid)
      BY <2>5, Zenon DEF PollAfterGo
    <3>2. now' \in 0 .. Horizon /\ prev' \in Levels /\ lastTick' \in Nat \cup {NoTime}
      BY <2>0, <3>1 DEF Sampled
    <3>3. samples' \in Seq(Nat \X Levels)
      BY <2>0, <3>1, Retained
    <3>4. completeAt' \in Nat \cup {NoTime}
      BY <2>0, <3>1, Zenon DEF Confirm
    <3>5. /\ firstHigh' \in Nat \cup {NoTime} /\ firstLow' \in Nat \cup {NoTime}
          /\ short' \in Nat /\ below' \in Nat
          /\ belowWindow' \in (Nat \cup {NoTime}) \X (Nat \cup {NoTime})
          /\ highSeen' => firstHigh' # NoTime
          /\ firstHigh' # NoTime => highSeen'
          /\ firstLow' # NoTime => firstHigh' # NoTime
      <4>1. CASE Rise(level) /\ highSeen' = TRUE /\ firstHigh' = (IF firstHigh = NoTime THEN t ELSE firstHigh)
                 /\ UNCHANGED <<firstLow, short, below, belowWindow, fallSeen>>
        BY <2>0, <4>1 DEF NoTime
      <4>2. CASE FallShort(t)
        BY <2>0, <4>2 DEF FallShort, ForgetHigh
      <4>3. CASE FallBelowPlan(t)
        BY <2>0, <4>3 DEF FallBelowPlan, ForgetHigh
      <4>4. CASE Fall(level) /\ FallPlanned(t)
        BY <2>0, <4>4 DEF FallPlanned, Fall
      <4>5. CASE UNCHANGED edgeVars
        BY <2>0, <4>5 DEF edgeVars
      <4>6. QED
        BY <3>1, <4>1, <4>2, <4>3, <4>4, <4>5, Zenon DEF ObserveEdge
    <3>6. QED
      BY <3>2, <3>3, <3>4, <3>5
  <2>6. QED
    BY <2>1, <2>2, <2>3, <2>4, <2>5, NextCases
<1>2. QED
  BY <1>1, FlagsStep, Zenon DEF TypeOK
-----------------------------------------------------------------------------
(* One poll after GO. *)

LEMMA Sampling ==
  ASSUME NEW tick \in Nat, NEW t \in Nat, NEW level \in Levels, NEW state \in States, NEW valid \in BOOLEAN,
         PollAfterGo(tick, t, level, state, valid)
  PROVE  /\ go /\ requireDone' = requireDone /\ go' = go /\ now' = t /\ prev' = level /\ level \in {0, 1}
         /\ tick <= t /\ t - tick <= Jitter /\ t > now /\ Jitter' = Jitter
BY DEF PollAfterGo, Sampled, Jitter, Levels

\* The same for a poll before GO.
LEMMA SamplingBefore ==
  ASSUME NEW tick \in Nat, NEW t \in Nat, NEW level \in Levels, NEW state \in States,
         PollBeforeGo(tick, t, level, state)
  PROVE  /\ ~go /\ requireDone' = requireDone /\ go' = go /\ now' = t /\ prev' = level /\ level \in {0, 1}
         /\ tick <= t /\ t - tick <= Jitter /\ t > now /\ Jitter' = Jitter
BY DEF PollBeforeGo, Sampled, Jitter, Levels

\* A planned window that is over is older than the plan's floor.
LEMMA PlannedIsFar ==
  ASSUME GateIInv, Planned # {}, NEW t \in Nat, t > now
  PROVE  firstHigh # NoTime /\ t - firstHigh >= PlanFloor /\ t - firstHigh >= MinGate
<1>0. PollsInOrder
  BY DEF GateIInv
<1>1. firstHigh # NoTime
  BY DEF GateIInv, RiseIsRemembered
<1>2. PICK i \in DOMAIN polls : polls[i].t = firstHigh /\ \E w \in Planned : w[1] = i
  BY <1>1 DEF GateIInv, RiseIsRemembered
<1>3. PICK w \in Planned : w[1] = i
  BY <1>2
<1>4. w \in Pulses /\ Length(w) >= PlanFloor
  BY <1>3 DEF Planned
<1>5. w[2] \in DOMAIN polls
  BY <1>0, <1>4, PulsesAre, PollsAre
<1>6. polls[w[2]].t <= now /\ polls[w[2]].t \in Nat /\ polls[i].t \in Nat
  BY <1>0, <1>2, <1>5, PollsAre DEF PollsInOrder
<1>7. now \in Nat
  BY Bounds DEF GateIInv, TypeOK
<1>8. QED
  BY <1>1, <1>2, <1>3, <1>4, <1>6, <1>7, Bounds DEF Length

\* With an open high the last level is high.
LEMMA OpenIsHigh ==
  ASSUME PollsInOrder, NEW i \in DOMAIN polls, OpenSince(i)
  PROVE  prev = 1
<1>1. prev = LevelBefore(Len(polls) + 1)
  BY DEF PollsInOrder
<1>2. Len(polls) \in i .. Len(polls) /\ Len(polls) + 1 # 1 /\ (Len(polls) + 1) - 1 = Len(polls)
  BY PollsAre
<1>3. QED
  BY <1>1, <1>2 DEF OpenSince, LevelBefore

\* An open high is the remembered one, unless a planned window is over.
LEMMA RememberedIsOpen ==
  ASSUME GateIInv
  PROVE  /\ firstHigh # NoTime /\ Planned = {} => \E i \in DOMAIN polls : OpenSince(i) /\ polls[i].t = firstHigh
         /\ firstHigh = NoTime => Planned = {} /\ \A i \in DOMAIN polls : ~OpenSince(i)
BY DEF GateIInv, RiseIsRemembered

\* What a poll after GO does to the evidence, beside what it adds to the history.
NoneAdded == Pulses' = Pulses /\ Planned' = Planned /\ TooShort' = TooShort /\ BelowPlan' = BelowPlan
SameCounts == UNCHANGED <<short, below, belowWindow>>

LEMMA EdgeCases ==
  ASSUME GateIInv, NEW tick \in Nat, NEW t \in Nat, NEW level \in Levels, NEW state \in States,
         NEW valid \in BOOLEAN, PollAfterGo(tick, t, level, state, valid),
         NEW e, Adds(e), e.t = t, e.level = level
  PROVE  \/ /\ level = 1 /\ prev = 0 /\ NoneAdded /\ SameCounts /\ UNCHANGED <<firstLow, fallSeen>>
            /\ firstHigh' = IF firstHigh = NoTime THEN t ELSE firstHigh
         \/ level = 1 /\ prev # 0 /\ NoneAdded /\ SameCounts /\ UNCHANGED <<firstHigh, firstLow, fallSeen>>
         \/ /\ level = 0 /\ (\A i \in DOMAIN polls : ~OpenSince(i)) /\ NoneAdded /\ SameCounts
            /\ UNCHANGED firstHigh
            /\ UNCHANGED <<firstLow, fallSeen>> \/ (Planned # {} /\ fallSeen')
         \/ \E i \in DOMAIN polls :
              level = 0 /\ OpenSince(i) /\ Planned # {} /\ UNCHANGED firstHigh /\ SameCounts /\ fallSeen'
         \/ \E i \in DOMAIN polls :
              /\ level = 0 /\ OpenSince(i) /\ Planned = {} /\ polls[i].t = firstHigh /\ firstLow = NoTime
              /\ fallSeen' /\ (FallShort(t) \/ FallBelowPlan(t) \/ FallPlanned(t))
<1>0. /\ ObserveEdge(level, t) /\ t > now /\ PollsInOrder /\ level \in {0, 1}
  BY Zenon DEF PollAfterGo, Sampled, GateIInv, Levels
<1>1. /\ highSeen <=> firstHigh # NoTime
      /\ firstLow # NoTime => Planned # {}
  BY DEF GateIInv, TypeOK, RiseIsRemembered
<1>2. \/ /\ Rise(level) /\ firstHigh' = (IF firstHigh = NoTime THEN t ELSE firstHigh)
         /\ UNCHANGED <<firstLow, short, below, belowWindow, fallSeen>>
      \/ Fall(level) /\ fallSeen' /\ (FallShort(t) \/ FallBelowPlan(t) \/ FallPlanned(t))
      \/ ~Rise(level) /\ ~Fall(level) /\ UNCHANGED edgeVars
  BY <1>0, Zenon DEF ObserveEdge
<1>3. CASE level = 1
  <2>1. NoneAdded
    BY <1>0, <1>3, NoPulseAdded DEF NoneAdded
  <2>2. QED
    BY <1>2, <1>3, <2>1 DEF Rise, Fall, edgeVars, SameCounts
<1>4. CASE level = 0 /\ \A i \in DOMAIN polls : ~OpenSince(i)
  <2>1. NoneAdded
    BY <1>0, <1>4, NoPulseAdded DEF NoneAdded
  <2>2. CASE Fall(level) /\ fallSeen' /\ (FallShort(t) \/ FallBelowPlan(t) \/ FallPlanned(t))
    <3>1. Planned # {}
      BY <1>1, <1>4, <2>2, RememberedIsOpen DEF Fall
    <3>2. t - firstHigh >= PlanFloor /\ t - firstHigh >= MinGate
      BY <1>0, <3>1, PlannedIsFar
    <3>3. firstHigh \in Int
      BY DEF GateIInv, TypeOK, NoTime
    <3>4. FallPlanned(t)
      BY <2>2, <3>2, <3>3, Bounds DEF FallShort, FallBelowPlan
    <3>5. QED
      BY <1>4, <2>1, <2>2, <3>1, <3>4 DEF FallPlanned, SameCounts
  <2>3. QED
    BY <1>2, <1>4, <2>1, <2>2 DEF Rise, edgeVars, SameCounts
<1>5. ASSUME level = 0, NEW i \in DOMAIN polls, OpenSince(i)
      PROVE  /\ Fall(level) /\ fallSeen' /\ (FallShort(t) \/ FallBelowPlan(t) \/ FallPlanned(t))
             /\ firstHigh # NoTime
  <2>1. prev = 1
    BY <1>0, <1>5, OpenIsHigh
  <2>2. firstHigh # NoTime
    BY <1>5, RememberedIsOpen
  <2>3. Fall(level)
    BY <1>1, <1>5, <2>1, <2>2 DEF Fall
  <2>4. QED
    BY <1>2, <1>5, <2>2, <2>3 DEF Rise
<1>6. ASSUME level = 0, NEW i \in DOMAIN polls, OpenSince(i), Planned # {}
      PROVE  UNCHANGED firstHigh /\ SameCounts /\ fallSeen'
  <2>1. t - firstHigh >= PlanFloor /\ t - firstHigh >= MinGate
    BY <1>0, <1>6, PlannedIsFar
  <2>2. firstHigh \in Int
    BY DEF GateIInv, TypeOK, NoTime
  <2>3. FallPlanned(t)
    BY <1>5, <1>6, <2>1, <2>2, Bounds DEF FallShort, FallBelowPlan
  <2>4. QED
    BY <1>5, <1>6, <2>3 DEF FallPlanned, SameCounts
<1>7. ASSUME level = 0, NEW i \in DOMAIN polls, OpenSince(i), Planned = {}
      PROVE  polls[i].t = firstHigh /\ firstLow = NoTime
  <2>1. PICK j \in DOMAIN polls : OpenSince(j) /\ polls[j].t = firstHigh
    BY <1>5, <1>7, RememberedIsOpen
  <2>2. i = j
    BY <1>0, <1>7, <2>1, OneIsOpen
  <2>3. QED
    BY <1>1, <1>7, <2>1, <2>2
<1>8. QED
  BY <1>0, <1>3, <1>4, <1>5, <1>6, <1>7, Zenon
-----------------------------------------------------------------------------
\* What an action that adds no poll leaves alone.
LEMMA Aside ==
  ASSUME SwitchPhase \/ UNCHANGED vars \/ \E t \in Nat : PollFails(t)
  PROVE  /\ polls' = polls /\ prev' = prev /\ samples' = samples /\ requireDone' = requireDone
         /\ firstHigh' = firstHigh /\ firstLow' = firstLow /\ short' = short /\ below' = below
         /\ belowWindow' = belowWindow /\ fallSeen' = fallSeen
         /\ acknowledged' = acknowledged /\ gateSeen' = gateSeen /\ completeAt' = completeAt
         /\ Jitter' = Jitter
         /\ go => go'
         /\ now' = now \/ (now' \in Nat /\ now' > now)
<1>1. CASE SwitchPhase
  BY <1>1 DEF SwitchPhase, edgeVars, completionVars, Jitter
<1>2. CASE UNCHANGED vars
  BY <1>2 DEF vars, edgeVars, completionVars, Jitter
<1>3. CASE \E t \in Nat : PollFails(t)
  BY <1>3 DEF PollFails, edgeVars, completionVars, Jitter
<1>4. QED
  BY <1>1, <1>2, <1>3

LEMMA OrderGrows ==
  ASSUME PollsInOrder, NEW e, Adds(e), now \in Nat, e.t \in Nat, now' = e.t, e.t > now, prev' = e.level,
         e.tick <= e.t, e.t - e.tick <= Jitter, Jitter' = Jitter,
         e.go => go', go => go', go => e.go
  PROVE  PollsInOrder'
<1>1. Len(polls) \in Nat /\ DOMAIN polls = 1 .. Len(polls)
  BY PollsAre
<1>2. /\ polls' \in Seq(Poll) /\ Len(polls') = Len(polls) + 1 /\ DOMAIN polls' = 1 .. Len(polls) + 1
      /\ \A i \in DOMAIN polls : polls'[i] = polls[i]
      /\ polls'[Len(polls) + 1] = e
  BY Grown
<1>3. /\ \A i \in DOMAIN polls :
           /\ polls[i].t <= now /\ polls[i].t \in Nat /\ polls[i].tick <= polls[i].t
           /\ polls[i].t - polls[i].tick <= Jitter
           /\ polls[i].go => go
      /\ \A i, j \in DOMAIN polls : i < j => polls[i].t < polls[j].t /\ (polls[i].go => polls[j].go)
  BY PollsAre DEF PollsInOrder
<1>4. prev' = LevelBefore(Len(polls) + 1)'
  <2>1. Len(polls') + 1 # 1 /\ (Len(polls') + 1) - 1 = Len(polls) + 1
    BY <1>1, <1>2
  <2>2. QED
    BY <1>2, <2>1 DEF LevelBefore
<1>5. \A i \in DOMAIN polls' :
        /\ polls'[i].t <= now' /\ polls'[i].tick <= polls'[i].t
        /\ polls'[i].t - polls'[i].tick <= Jitter'
        /\ polls'[i].go => go'
  <2> SUFFICES ASSUME NEW i \in DOMAIN polls'
               PROVE  /\ polls'[i].t <= now' /\ polls'[i].tick <= polls'[i].t
                      /\ polls'[i].t - polls'[i].tick <= Jitter'
                      /\ polls'[i].go => go'
    OBVIOUS
  <2>1. CASE i \in DOMAIN polls
    BY <1>2, <1>3, <2>1
  <2>2. CASE i = Len(polls) + 1
    BY <1>2, <2>2
  <2>3. QED
    BY <1>1, <1>2, <2>1, <2>2
<1>6. \A i, j \in DOMAIN polls' : i < j => polls'[i].t < polls'[j].t /\ (polls'[i].go => polls'[j].go)
  <2> SUFFICES ASSUME NEW i \in DOMAIN polls', NEW j \in DOMAIN polls', i < j
               PROVE  polls'[i].t < polls'[j].t /\ (polls'[i].go => polls'[j].go)
    OBVIOUS
  <2>1. i \in DOMAIN polls
    BY <1>1, <1>2
  <2>2. CASE j \in DOMAIN polls
    BY <1>2, <1>3, <2>1, <2>2
  <2>3. CASE j = Len(polls) + 1
    BY <1>2, <1>3, <2>1, <2>3
  <2>4. QED
    BY <1>1, <1>2, <2>2, <2>3
<1>7. QED
  BY <1>2, <1>4, <1>5, <1>6 DEF PollsInOrder

\* The history stays in order.
LEMMA OrderStep ==
  ASSUME GateIInv, [Next]_vars
  PROVE  PollsInOrder'
<1>1. PollsInOrder /\ TypeOK /\ now \in Nat
  BY Bounds DEF GateIInv, TypeOK
<1>2. CASE SwitchPhase \/ UNCHANGED vars \/ \E t \in Nat : PollFails(t)
  <2>1. \A i \in DOMAIN polls : polls[i].t \in Nat
    BY <1>1, PollsAre
  <2>2. LevelBefore(Len(polls) + 1)' = LevelBefore(Len(polls) + 1)
    BY <1>2, Aside DEF LevelBefore
  <2>3. QED
    BY <1>1, <1>2, <2>1, <2>2, Aside DEF PollsInOrder
<1>3. ASSUME NEW tick \in Nat, NEW t \in Nat, NEW level \in Levels, NEW state \in States,
             PollBeforeGo(tick, t, level, state)
      PROVE  PollsInOrder'
  <2>1. PICK e : Adds(e) /\ e.t = t /\ e.tick = tick /\ e.level = level /\ ~e.go
    BY <1>1, <1>3, BeforeGoAdds
  <2>2. QED
    BY <1>1, <1>3, <2>1, SamplingBefore, OrderGrows
<1>4. ASSUME NEW tick \in Nat, NEW t \in Nat, NEW level \in Levels, NEW state \in States,
             NEW valid \in BOOLEAN, PollAfterGo(tick, t, level, state, valid)
      PROVE  PollsInOrder'
  <2>1. PICK e : Adds(e) /\ e.t = t /\ e.tick = tick /\ e.level = level /\ e.go
    BY <1>1, <1>4, AfterGoAdds
  <2>2. go /\ (go' = go)
    BY <1>4, Sampling
  <2>3. QED
    BY <1>1, <1>4, <2>1, <2>2, Sampling, OrderGrows
<1>5. QED
  BY <1>1, <1>2, <1>3, <1>4, NextCases, Zenon

\* The retained samples stay the polls since GO.
LEMMA SamplesStep ==
  ASSUME GateIInv, [Next]_vars
  PROVE  SamplesArePolls'
<1>1. PollsInOrder /\ TypeOK /\ now \in Nat /\ SamplesArePolls
  BY Bounds DEF GateIInv, TypeOK
<1>2. CASE SwitchPhase \/ UNCHANGED vars \/ \E t \in Nat : PollFails(t)
  <2>1. polls' = polls /\ samples' = samples
    BY <1>2, Aside
  <2>2. \A k : (RiseAt(k)' <=> RiseAt(k)) /\ Kept(k)' = Kept(k)
    BY <2>1, PollsStand DEF Kept
  <2>3. QED
    BY <1>1, <2>1, <2>2 DEF SamplesArePolls
<1>3. ASSUME NEW tick \in Nat, NEW t \in Nat, NEW level \in Levels, NEW state \in States,
             PollBeforeGo(tick, t, level, state)
      PROVE  SamplesArePolls'
  <2>1. PICK e : Adds(e) /\ ~e.go
    BY <1>1, <1>3, BeforeGoAdds
  <2>2. samples' = <<>> /\ ~go
    BY <1>3 DEF PollBeforeGo
  <2>3. \A k \in DOMAIN polls : ~polls[k].go
    BY <1>1, <2>2, NoneBeforeGo
  <2>4. \A k \in DOMAIN polls' : ~polls'[k].go
    BY <1>1, <2>1, <2>3, Grown, PollsAre
  <2>5. QED
    BY <2>2, <2>4 DEF SamplesArePolls
<1>4. ASSUME NEW tick \in Nat, NEW t \in Nat, NEW level \in Levels, NEW state \in States,
             NEW valid \in BOOLEAN, PollAfterGo(tick, t, level, state, valid)
      PROVE  SamplesArePolls'
  <2>1. PICK e : Adds(e) /\ e.t = t /\ e.tick = tick /\ e.level = level /\ e.go
    BY <1>1, <1>4, AfterGoAdds
  <2>2. samples \in Seq(Nat \X Levels) /\ lastTick \in Nat \cup {NoTime}
    BY <1>1 DEF TypeOK
  <2>3. Retain(tick, level)
    BY <1>4 DEF PollAfterGo
  <2>4. /\ samples' \in Seq(Nat \X Levels)
        /\ samples = <<>> /\ Rise(level) => Len(samples') = 2 /\ samples'[1][2] = 0
        /\ ~(samples = <<>> /\ Rise(level)) =>
             Len(samples') = Len(samples) + 1 /\ \A k \in 1 .. Len(samples) : samples'[k] = samples[k]
        /\ samples'[Len(samples')] = <<tick, level>>
    BY <2>2, <2>3, Retained
  <2>5. /\ Len(samples) \in Nat /\ Len(samples') \in Nat
        /\ samples = <<>> <=> Len(samples) = 0
        /\ samples' = <<>> <=> Len(samples') = 0
    BY <2>2, <2>4, EmptySeq, LenProperties
  <2>6. /\ Len(polls) \in Nat /\ DOMAIN polls = 1 .. Len(polls)
        /\ Len(polls') = Len(polls) + 1 /\ DOMAIN polls' = 1 .. Len(polls) + 1
        /\ \A k \in DOMAIN polls : polls'[k] = polls[k]
        /\ polls'[Len(polls) + 1] = e
    BY <1>1, <2>1, PollsAre, Grown
  <2>a. samples # <<>> =>
          Len(samples') = Len(samples) + 1 /\ \A k \in 1 .. Len(samples) : samples'[k] = samples[k]
    BY <2>4, Zenon
  <2>b. samples = <<>> /\ Rise(level) => Len(samples') = 2 /\ samples'[1][2] = 0
    BY <2>4, Zenon
  <2>c. samples'[Len(samples')] = <<tick, level>>
    BY <2>4, Zenon
  <2>d. Len(samples') = 2 \/ Len(samples') = Len(samples) + 1
    BY <2>4, Zenon
  <2>7. samples' # <<>> /\ Len(samples') >= 1
    BY <2>5, <2>d
  <2>8. ASSUME NEW k \in DOMAIN polls, polls[k].go
        PROVE  /\ Kept(k)' >= 1 /\ samples'[Kept(k)'] = <<polls[k].tick, polls[k].level>>
               /\ RiseAt(k)' => Kept(k)' >= 2 /\ samples'[Kept(k)' - 1][2] = 0
    <3>1. /\ samples # <<>> /\ Kept(k) >= 1 /\ samples[Kept(k)] = <<polls[k].tick, polls[k].level>>
          /\ RiseAt(k) => Kept(k) >= 2 /\ samples[Kept(k) - 1][2] = 0
      BY <1>1, <2>8 DEF SamplesArePolls
    <3>2. Kept(k)' = Kept(k) /\ Kept(k) \in Int /\ Kept(k) <= Len(samples)
      BY <2>a, <2>5, <2>6, <3>1 DEF Kept
    <3>3. RiseAt(k)' <=> RiseAt(k)
      BY <1>1, <2>1, RisesGrow
    <3>4. samples'[Kept(k)] = samples[Kept(k)] /\ (Kept(k) >= 2 => samples'[Kept(k) - 1] = samples[Kept(k) - 1])
      BY <2>a, <2>5, <3>1, <3>2
    <3>5. QED
      BY <3>1, <3>2, <3>3, <3>4
  <2>9. ASSUME NEW k, k = Len(polls) + 1
        PROVE  /\ Kept(k)' >= 1 /\ samples'[Kept(k)'] = <<tick, level>>
               /\ RiseAt(k)' => Kept(k)' >= 2 /\ samples'[Kept(k)' - 1][2] = 0
    <3>1. Kept(k)' = Len(samples')
      BY <2>5, <2>6, <2>9 DEF Kept
    <3>2. ASSUME RiseAt(k)'
          PROVE  Len(samples') >= 2 /\ samples'[Len(samples') - 1][2] = 0
      <4>1. e.level = 1 /\ prev = 0
        BY <1>1, <2>1, <2>9, <3>2, RisesGrow
      <4>2. Rise(level)
        BY <2>1, <4>1 DEF Rise
      <4>3. CASE samples = <<>>
        <5>1. Len(samples') = 2 /\ samples'[1][2] = 0
          BY <2>b, <4>2, <4>3, Zenon
        <5>2. Len(samples') - 1 = 1
          BY <5>1
        <5>3. QED
          BY <5>1, <5>2
      <4>4. CASE samples # <<>>
        <5>1. Len(polls) \in DOMAIN polls /\ polls[Len(polls)].go
          BY <1>1, <2>6, <4>4 DEF SamplesArePolls
        <5>2. Kept(Len(polls)) = Len(samples)
          BY <2>5, <2>6 DEF Kept
        <5>3. samples[Len(samples)] = <<polls[Len(polls)].tick, polls[Len(polls)].level>>
          BY <1>1, <5>1, <5>2 DEF SamplesArePolls
        <5>4. polls[Len(polls)].level = 0
          <6>1. Len(polls) + 1 # 1 /\ (Len(polls) + 1) - 1 = Len(polls)
            BY <2>6, <5>1
          <6>2. QED
            BY <1>1, <4>1, <6>1 DEF PollsInOrder, LevelBefore
        <5>5. Len(samples') - 1 = Len(samples) /\ Len(samples) >= 1 /\ samples'[Len(samples)] = samples[Len(samples)]
          BY <2>a, <2>5, <4>4
        <5>6. QED
          BY <2>5, <5>3, <5>4, <5>5
      <4>5. QED
        BY <4>3, <4>4
    <3>3. QED
      BY <2>c, <2>7, <3>1, <3>2
  <2>10. Len(polls') > 0 /\ polls'[Len(polls')].go
    BY <2>1, <2>6
  <2>11. \A k \in DOMAIN polls' :
           polls'[k].go =>
             /\ Kept(k)' >= 1 /\ samples'[Kept(k)'] = <<polls'[k].tick, polls'[k].level>>
             /\ RiseAt(k)' => Kept(k)' >= 2 /\ samples'[Kept(k)' - 1][2] = 0
    <3> SUFFICES ASSUME NEW k \in DOMAIN polls', polls'[k].go
                 PROVE  /\ Kept(k)' >= 1 /\ samples'[Kept(k)'] = <<polls'[k].tick, polls'[k].level>>
                        /\ RiseAt(k)' => Kept(k)' >= 2 /\ samples'[Kept(k)' - 1][2] = 0
      OBVIOUS
    <3>1. CASE k \in DOMAIN polls
      BY <2>6, <2>8, <3>1
    <3>2. CASE k = Len(polls) + 1
      BY <2>1, <2>6, <2>9, <3>2
    <3>3. QED
      BY <2>6, <3>1, <3>2
  <2>12. QED
    BY <2>7, <2>10, <2>11 DEF SamplesArePolls
<1>5. QED
  BY <1>1, <1>2, <1>3, <1>4, NextCases, Zenon

\* The remembered rise is the open one's, or the first planned window's.
LEMMA RiseStep ==
  ASSUME GateIInv, [Next]_vars
  PROVE  RiseIsRemembered'
<1>1. PollsInOrder /\ TypeOK /\ now \in Nat /\ RiseIsRemembered
  BY Bounds DEF GateIInv, TypeOK
<1>2. CASE SwitchPhase \/ UNCHANGED vars \/ \E t \in Nat : PollFails(t)
  <2>1. polls' = polls /\ firstHigh' = firstHigh /\ firstLow' = firstLow
    BY <1>2, Aside
  <2>2. Planned' = Planned /\ \A i : (RiseAt(i)' <=> RiseAt(i)) /\ (OpenSince(i)' <=> OpenSince(i))
    BY <2>1, PollsStand
  <2>3. QED
    BY <1>1, <2>1, <2>2 DEF RiseIsRemembered
<1>3. ASSUME NEW tick \in Nat, NEW t \in Nat, NEW level \in Levels, NEW state \in States,
             PollBeforeGo(tick, t, level, state)
      PROVE  RiseIsRemembered'
  <2>1. PollsInOrder' /\ ~go'
    BY <1>3, OrderStep, SamplingBefore
  <2>2. Planned' = {} /\ \A i \in DOMAIN polls' : ~OpenSince(i)'
    BY <2>1, NoneBeforeGoNext DEF NothingYet
  <2>3. firstHigh' = NoTime /\ firstLow' = NoTime
    BY <1>3 DEF PollBeforeGo
  <2>4. QED
    BY <2>2, <2>3 DEF RiseIsRemembered
<1>4. ASSUME NEW tick \in Nat, NEW t \in Nat, NEW level \in Levels, NEW state \in States,
             NEW valid \in BOOLEAN, PollAfterGo(tick, t, level, state, valid)
      PROVE  RiseIsRemembered'
  <2>1. PICK e : Adds(e) /\ e.t = t /\ e.tick = tick /\ e.level = level /\ e.go
    BY <1>1, <1>4, AfterGoAdds
  <2>2. /\ Len(polls) \in Nat /\ DOMAIN polls = 1 .. Len(polls)
        /\ Len(polls') = Len(polls) + 1 /\ DOMAIN polls' = 1 .. Len(polls) + 1
        /\ \A k \in DOMAIN polls : polls'[k] = polls[k]
        /\ polls'[Len(polls) + 1] = e
    BY <1>1, <2>1, PollsAre, Grown
  <2>3. PICK n : n = Len(polls) + 1
    OBVIOUS
  <2>4. /\ \A i \in DOMAIN polls : RiseAt(i)' <=> RiseAt(i)
        /\ RiseAt(n)' <=> level = 1 /\ prev = 0
    BY <1>1, <2>1, <2>3, RisesGrow
  <2>5. /\ level # 1 => \A i \in DOMAIN polls' : ~OpenSince(i)'
        /\ level = 1 => \A i \in DOMAIN polls : OpenSince(i)' <=> OpenSince(i)
        /\ level = 1 => (OpenSince(n)' <=> prev = 0)
    <3>1. polls'[n].level = level /\ n \in DOMAIN polls' /\ \A i \in DOMAIN polls' : n \in i .. Len(polls')
      BY <2>1, <2>2, <2>3
    <3>2. ASSUME level = 1, NEW i \in DOMAIN polls
          PROVE  OpenSince(i)' <=> OpenSince(i)
      <4>1. (\A k \in i .. Len(polls') : polls'[k].level = 1) <=> \A k \in i .. Len(polls) : polls[k].level = 1
        BY <2>2, <2>3, <3>1, <3>2
      <4>2. QED
        BY <2>4, <4>1 DEF OpenSince
    <3>3. ASSUME level = 1
          PROVE  OpenSince(n)' <=> prev = 0
      <4>1. \A k \in n .. Len(polls') : polls'[k].level = 1
        BY <2>2, <2>3, <3>1, <3>3
      <4>2. QED
        BY <2>4, <3>3, <4>1 DEF OpenSince
    <3>4. ASSUME level # 1, NEW i \in DOMAIN polls'
          PROVE  ~OpenSince(i)'
      BY <3>1, <3>4 DEF OpenSince
    <3>5. QED
      BY <3>2, <3>3, <3>4
  <2>6. /\ Planned # {} \/ (\E i \in DOMAIN polls : OpenSince(i)) => firstHigh # NoTime
        /\ firstHigh # NoTime =>
             \E i \in DOMAIN polls :
               /\ polls[i].t = firstHigh /\ RiseAt(i)
               /\ Planned = {} => OpenSince(i)
               /\ Planned # {} => (\E w \in Planned : w[1] = i) /\ (\A w \in Planned : i <= w[1])
        /\ firstLow # NoTime => Planned # {}
    BY <1>1 DEF RiseIsRemembered
  <2>7. t # NoTime /\ level \in {0, 1}
    BY DEF NoTime, Levels
  <2>8. n \in DOMAIN polls' /\ polls'[n].t = t /\ DOMAIN polls \subseteq DOMAIN polls'
        /\ \A i \in DOMAIN polls' : i \in DOMAIN polls \/ i = n
    BY <2>1, <2>2, <2>3
  <2>9. CASE /\ level = 1 /\ prev = 0 /\ NoneAdded /\ UNCHANGED <<firstLow, fallSeen>>
             /\ firstHigh' = IF firstHigh = NoTime THEN t ELSE firstHigh
    <3>1. \A i \in DOMAIN polls : ~OpenSince(i)
      BY <1>1, <2>9, OpenIsHigh
    <3>2. CASE firstHigh = NoTime
      <4>1. firstHigh' = t /\ Planned' = {} /\ firstLow' = NoTime
        BY <2>6, <2>9, <3>2 DEF NoneAdded
      <4>2. RiseAt(n)' /\ OpenSince(n)'
        BY <2>4, <2>5, <2>9
      <4>3. QED
        BY <2>7, <2>8, <4>1, <4>2 DEF RiseIsRemembered
    <3>3. CASE firstHigh # NoTime
      <4>1. PICK i \in DOMAIN polls : /\ polls[i].t = firstHigh /\ RiseAt(i)
                                      /\ (\E w \in Planned : w[1] = i) /\ (\A w \in Planned : i <= w[1])
        BY <2>6, <3>1, <3>3
      <4>2. firstHigh' = firstHigh /\ Planned' = Planned /\ Planned # {} /\ firstLow' = firstLow
        BY <2>9, <3>3, <4>1 DEF NoneAdded
      <4>3. i \in DOMAIN polls' /\ polls'[i].t = firstHigh /\ RiseAt(i)'
        BY <2>2, <2>4, <2>8, <4>1
      <4>4. QED
        BY <3>3, <4>1, <4>2, <4>3 DEF RiseIsRemembered
    <3>4. QED
      BY <3>2, <3>3
  <2>10. CASE level = 1 /\ prev # 0 /\ NoneAdded /\ UNCHANGED <<firstHigh, firstLow, fallSeen>>
    <3>1. Planned' = Planned /\ firstHigh' = firstHigh /\ firstLow' = firstLow
      BY <2>10 DEF NoneAdded
    <3>2. (\E i \in DOMAIN polls' : OpenSince(i)') => \E i \in DOMAIN polls : OpenSince(i)
      BY <2>5, <2>8, <2>10
    <3>3. ASSUME firstHigh # NoTime
          PROVE  \E i \in DOMAIN polls' :
                   /\ polls'[i].t = firstHigh /\ RiseAt(i)'
                   /\ Planned = {} => OpenSince(i)'
                   /\ Planned # {} => (\E w \in Planned : w[1] = i) /\ (\A w \in Planned : i <= w[1])
      <4>1. PICK i \in DOMAIN polls :
               /\ polls[i].t = firstHigh /\ RiseAt(i)
               /\ Planned = {} => OpenSince(i)
               /\ Planned # {} => (\E w \in Planned : w[1] = i) /\ (\A w \in Planned : i <= w[1])
        BY <2>6, <3>3
      <4>2. i \in DOMAIN polls' /\ polls'[i].t = firstHigh /\ RiseAt(i)' /\ (OpenSince(i)' <=> OpenSince(i))
        BY <2>2, <2>4, <2>5, <2>8, <2>10, <4>1
      <4>3. QED
        BY <4>1, <4>2
    <3>4. QED
      BY <2>6, <3>1, <3>2, <3>3 DEF RiseIsRemembered
  <2>11. CASE /\ level = 0 /\ (\A i \in DOMAIN polls : ~OpenSince(i)) /\ NoneAdded
              /\ UNCHANGED firstHigh
              /\ UNCHANGED <<firstLow, fallSeen>> \/ (Planned # {} /\ fallSeen')
    <3>1. Planned' = Planned /\ firstHigh' = firstHigh /\ (firstLow' = firstLow \/ Planned # {})
      BY <2>11 DEF NoneAdded
    <3>2. \A i \in DOMAIN polls' : ~OpenSince(i)'
      BY <2>5, <2>11
    <3>3. ASSUME firstHigh # NoTime
          PROVE  \E i \in DOMAIN polls' :
                   /\ polls'[i].t = firstHigh /\ RiseAt(i)' /\ Planned # {}
                   /\ (\E w \in Planned : w[1] = i) /\ (\A w \in Planned : i <= w[1])
      <4>1. PICK i \in DOMAIN polls :
               /\ polls[i].t = firstHigh /\ RiseAt(i) /\ Planned # {}
               /\ (\E w \in Planned : w[1] = i) /\ (\A w \in Planned : i <= w[1])
        BY <2>6, <2>11, <3>3
      <4>2. i \in DOMAIN polls' /\ polls'[i].t = firstHigh /\ RiseAt(i)'
        BY <2>2, <2>4, <2>8, <4>1
      <4>3. QED
        BY <4>1, <4>2
    <3>4. QED
      BY <2>6, <3>1, <3>2, <3>3 DEF RiseIsRemembered
  <2>12. ASSUME NEW i \in DOMAIN polls,
                level = 0 /\ OpenSince(i) /\ Planned # {} /\ UNCHANGED firstHigh /\ SameCounts /\ fallSeen'
         PROVE  RiseIsRemembered'
    <3>1. /\ Planned \subseteq Planned' /\ \A w \in Planned' : w \in Planned \/ w[1] = i
          /\ \A w \in Planned : w[1] < i
      BY <1>1, <2>1, <2>12, LaterPulse
    <3>2. PICK j \in DOMAIN polls :
               /\ polls[j].t = firstHigh /\ RiseAt(j)
               /\ (\E w \in Planned : w[1] = j) /\ (\A w \in Planned : j <= w[1])
      BY <2>6, <2>12
    <3>3. j < i /\ i \in Int /\ j \in Int
      BY <2>2, <3>1, <3>2
    <3>4. (\E w \in Planned' : w[1] = j) /\ (\A w \in Planned' : j <= w[1])
      BY <3>1, <3>2, <3>3
    <3>5. j \in DOMAIN polls' /\ polls'[j].t = firstHigh' /\ RiseAt(j)' /\ Planned' # {} /\ firstHigh' # NoTime
      BY <2>2, <2>4, <2>6, <2>8, <2>12, <3>1, <3>2
    <3>6. QED
      BY <3>4, <3>5 DEF RiseIsRemembered
  <2>13. ASSUME NEW i \in DOMAIN polls,
                /\ level = 0 /\ OpenSince(i) /\ Planned = {} /\ polls[i].t = firstHigh /\ firstLow = NoTime
                /\ fallSeen' /\ (FallShort(t) \/ FallBelowPlan(t) \/ FallPlanned(t))
         PROVE  RiseIsRemembered'
    <3>1. PICK new : new = <<i, Len(polls) + 1>>
      OBVIOUS
    <3>2. Planned' = IF t - firstHigh >= PlanFloor THEN {new} ELSE {}
      BY <1>1, <2>1, <2>13, <3>1, PulseJudged
    <3>3. \A k \in DOMAIN polls' : ~OpenSince(k)'
      BY <2>5, <2>13
    <3>4. firstHigh \in Int
      BY <1>1 DEF TypeOK, NoTime
    <3>5. CASE FallShort(t) \/ FallBelowPlan(t)
      <4>1. firstHigh' = NoTime /\ firstLow' = NoTime
        BY <3>5 DEF FallShort, FallBelowPlan, ForgetHigh
      <4>2. ~(t - firstHigh >= PlanFloor)
        BY <3>4, <3>5, Bounds DEF FallShort, FallBelowPlan
      <4>3. QED
        BY <3>2, <3>3, <4>1, <4>2 DEF RiseIsRemembered
    <3>6. CASE FallPlanned(t)
      <4>1. firstHigh' = firstHigh /\ Planned' = {new} /\ new[1] = i /\ i \in Int
        BY <2>2, <3>1, <3>2, <3>6 DEF FallPlanned
      <4>2. i \in DOMAIN polls' /\ polls'[i].t = firstHigh' /\ RiseAt(i)' /\ firstHigh' # NoTime
        BY <2>2, <2>4, <2>6, <2>8, <2>13, <4>1 DEF OpenSince
      <4>3. QED
        BY <4>1, <4>2 DEF RiseIsRemembered
    <3>7. QED
      BY <2>13, <3>5, <3>6
  <2>14. QED
    <3>1. \/ /\ level = 1 /\ prev = 0 /\ NoneAdded /\ SameCounts /\ UNCHANGED <<firstLow, fallSeen>>
             /\ firstHigh' = IF firstHigh = NoTime THEN t ELSE firstHigh
          \/ level = 1 /\ prev # 0 /\ NoneAdded /\ SameCounts /\ UNCHANGED <<firstHigh, firstLow, fallSeen>>
          \/ /\ level = 0 /\ (\A i \in DOMAIN polls : ~OpenSince(i)) /\ NoneAdded /\ SameCounts
             /\ UNCHANGED firstHigh
             /\ UNCHANGED <<firstLow, fallSeen>> \/ (Planned # {} /\ fallSeen')
          \/ \E i \in DOMAIN polls :
               level = 0 /\ OpenSince(i) /\ Planned # {} /\ UNCHANGED firstHigh /\ SameCounts /\ fallSeen'
          \/ \E i \in DOMAIN polls :
               /\ level = 0 /\ OpenSince(i) /\ Planned = {} /\ polls[i].t = firstHigh /\ firstLow = NoTime
               /\ fallSeen' /\ (FallShort(t) \/ FallBelowPlan(t) \/ FallPlanned(t))
      BY <1>4, <2>1, EdgeCases
    <3>2. QED
      BY <2>9, <2>10, <2>11, <2>12, <2>13, <3>1, Zenon
<1>5. QED
  BY <1>1, <1>2, <1>3, <1>4, NextCases, Zenon

\* Counts and the kept window change with the pulses they are of.
LEMMA CountsStand ==
  ASSUME PulsesAreCounted, PollsInOrder, NEW e, Adds(e), NoneAdded \/ (TooShort' = TooShort /\ BelowPlan' = BelowPlan),
         SameCounts, fallSeen' => Pulses' # {}, Pulses' # {} => fallSeen'
  PROVE  PulsesAreCounted'
<1>1. TooShort' = TooShort /\ BelowPlan' = BelowPlan
  BY DEF NoneAdded
<1>2. short' = short /\ below' = below /\ belowWindow' = belowWindow
  BY DEF SameCounts
<1>3. \A p \in BelowPlan : polls'[p[1]].t = polls[p[1]].t /\ polls'[p[2]].t = polls[p[2]].t
  <2>1. \A p \in BelowPlan : p[1] \in DOMAIN polls /\ p[2] \in DOMAIN polls
    <3>1. BelowPlan \subseteq Pulses
      BY DEF BelowPlan, Judged
    <3>2. QED
      BY <3>1, PulsesAre, PollsAre
  <2>2. QED
    BY <2>1, Grown
<1>4. QED
  BY <1>1, <1>2, <1>3 DEF PulsesAreCounted

\* Every pulse is counted once, by its length.
LEMMA CountStep ==
  ASSUME GateIInv, [Next]_vars
  PROVE  PulsesAreCounted'
<1>1. PollsInOrder /\ TypeOK /\ now \in Nat /\ PulsesAreCounted
  BY Bounds DEF GateIInv, TypeOK
<1>2. CASE SwitchPhase \/ UNCHANGED vars \/ \E t \in Nat : PollFails(t)
  <2>1. /\ polls' = polls /\ short' = short /\ below' = below
        /\ belowWindow' = belowWindow /\ fallSeen' = fallSeen
    BY <1>2, Aside
  <2>2. Pulses' = Pulses /\ TooShort' = TooShort /\ BelowPlan' = BelowPlan
    BY <2>1, PollsStand
  <2>3. QED
    BY <1>1, <2>1, <2>2 DEF PulsesAreCounted
<1>3. ASSUME NEW tick \in Nat, NEW t \in Nat, NEW level \in Levels, NEW state \in States,
             PollBeforeGo(tick, t, level, state)
      PROVE  PulsesAreCounted'
  <2>1. PollsInOrder' /\ ~go' /\ ~go
    BY <1>3, OrderStep, SamplingBefore
  <2>2. Pulses' = {} /\ TooShort' = {} /\ BelowPlan' = {}
    BY <2>1, NoneBeforeGoNext DEF NothingYet
  <2>3. Pulses = {} /\ TooShort = {} /\ BelowPlan = {}
    BY <1>1, <2>1, NoneBeforeGo
  <2>4. short' = short /\ below' = below /\ belowWindow' = belowWindow /\ fallSeen' = fallSeen
    BY <1>3 DEF PollBeforeGo
  <2>5. QED
    BY <1>1, <2>2, <2>3, <2>4 DEF PulsesAreCounted
<1>4. ASSUME NEW tick \in Nat, NEW t \in Nat, NEW level \in Levels, NEW state \in States,
             NEW valid \in BOOLEAN, PollAfterGo(tick, t, level, state, valid)
      PROVE  PulsesAreCounted'
  <2>1. PICK e : Adds(e) /\ e.t = t /\ e.tick = tick /\ e.level = level /\ e.go
    BY <1>1, <1>4, AfterGoAdds
  <2>2. Planned \subseteq Pulses /\ \A p \in Pulses : p \in Pulses'
    BY <1>1, <2>1, PulsesStay DEF Planned
  <2>3. /\ fallSeen => Pulses # {}
        /\ Pulses # {} => fallSeen
    BY <1>1 DEF PulsesAreCounted
  <2>4. CASE NoneAdded /\ SameCounts /\ (fallSeen' = fallSeen \/ (Planned # {} /\ fallSeen'))
    <3>1. (fallSeen' => Pulses' # {}) /\ (Pulses' # {} => fallSeen')
      BY <2>2, <2>3, <2>4 DEF NoneAdded
    <3>2. QED
      BY <1>1, <2>1, <2>4, <3>1, CountsStand
  <2>5. ASSUME NEW i \in DOMAIN polls,
               level = 0 /\ OpenSince(i) /\ Planned # {} /\ UNCHANGED firstHigh /\ SameCounts /\ fallSeen'
        PROVE  PulsesAreCounted'
    <3>1. TooShort' = TooShort /\ BelowPlan' = BelowPlan
      BY <1>1, <2>1, <2>5, LaterPulse
    <3>2. QED
      BY <1>1, <2>1, <2>2, <2>5, <3>1, CountsStand
  <2>6. ASSUME NEW i \in DOMAIN polls,
               /\ level = 0 /\ OpenSince(i) /\ Planned = {} /\ polls[i].t = firstHigh /\ firstLow = NoTime
               /\ fallSeen' /\ (FallShort(t) \/ FallBelowPlan(t) \/ FallPlanned(t))
        PROVE  PulsesAreCounted'
    <3>1. PICK new : new = <<i, Len(polls) + 1>>
      OBVIOUS
    <3>2. /\ TooShort' = IF t - firstHigh < MinGate THEN TooShort \cup {new} ELSE TooShort
          /\ BelowPlan' = IF t - firstHigh >= MinGate /\ t - firstHigh < PlanFloor
                            THEN BelowPlan \cup {new} ELSE BelowPlan
          /\ new \notin TooShort /\ new \notin BelowPlan
          /\ \A p \in BelowPlan : p[1] < i
      BY <1>1, <2>1, <2>6, <3>1, PulseJudged
    <3>3. Pulses' # {}
      BY <1>1, <2>1, <2>6, <3>1, OnePulseAdded
    <3>4. IsFiniteSet(TooShort) /\ IsFiniteSet(BelowPlan)
      BY <1>1, PulsesAreFinite
    <3>5. firstHigh \in Int
      BY <1>1 DEF TypeOK, NoTime
    <3>6. CASE FallShort(t)
      <4>1. t - firstHigh < MinGate /\ short' = short + 1 /\ below' = below /\ belowWindow' = belowWindow
        BY <3>6 DEF FallShort
      <4>2. TooShort' = TooShort \cup {new} /\ BelowPlan' = BelowPlan
        BY <3>2, <3>5, <4>1, Bounds
      <4>3. Cardinality(TooShort') = Cardinality(TooShort) + 1
        BY <3>2, <3>4, <4>2, FS_AddElement
      <4>4. \A p \in BelowPlan : polls'[p[1]].t = polls[p[1]].t /\ polls'[p[2]].t = polls[p[2]].t
        <5>1. BelowPlan \subseteq Pulses
          BY DEF BelowPlan, Judged
        <5>2. QED
          BY <1>1, <2>1, <5>1, PulsesAre, PollsAre, Grown
      <4>5. QED
        BY <1>1, <2>6, <3>3, <4>1, <4>2, <4>3, <4>4 DEF PulsesAreCounted
    <3>7. CASE FallBelowPlan(t)
      <4>1. /\ t - firstHigh >= MinGate /\ t - firstHigh < PlanFloor
            /\ below' = below + 1 /\ short' = short /\ belowWindow' = <<firstHigh, t>>
        BY <2>6, <3>7 DEF FallBelowPlan
      <4>2. TooShort' = TooShort /\ BelowPlan' = BelowPlan \cup {new}
        BY <3>2, <3>5, <4>1, Bounds
      <4>3. Cardinality(BelowPlan') = Cardinality(BelowPlan) + 1
        BY <3>2, <3>4, <4>2, FS_AddElement
      <4>4. new[1] = i /\ new[2] = Len(polls) + 1 /\ i \in Int
        BY <1>1, <3>1, PollsAre
      <4>5. polls'[new[1]].t = firstHigh /\ polls'[new[2]].t = t
        BY <1>1, <2>1, <2>6, <4>4, Grown
      <4>6. \A q \in BelowPlan' : q[1] <= new[1]
        <5>1. \A q \in BelowPlan : q[1] \in Int
          <6>1. BelowPlan \subseteq Pulses
            BY DEF BelowPlan, Judged
          <6>2. QED
            BY <1>1, <6>1, PulsesAre
        <5>2. QED
          BY <3>2, <4>2, <4>4, <5>1
      <4>7. QED
        BY <1>1, <2>6, <3>3, <4>1, <4>2, <4>3, <4>5, <4>6 DEF PulsesAreCounted
    <3>8. CASE FallPlanned(t)
      <4>1. SameCounts /\ ~(t - firstHigh < PlanFloor) /\ ~(t - firstHigh < MinGate)
        BY <3>5, <3>8, Bounds DEF FallPlanned, SameCounts
      <4>2. TooShort' = TooShort /\ BelowPlan' = BelowPlan
        BY <3>2, <4>1
      <4>3. QED
        BY <1>1, <2>1, <2>6, <3>3, <4>1, <4>2, CountsStand
    <3>9. QED
      BY <2>6, <3>6, <3>7, <3>8
  <2>7. \/ /\ level = 1 /\ prev = 0 /\ NoneAdded /\ SameCounts /\ UNCHANGED <<firstLow, fallSeen>>
           /\ firstHigh' = IF firstHigh = NoTime THEN t ELSE firstHigh
        \/ level = 1 /\ prev # 0 /\ NoneAdded /\ SameCounts /\ UNCHANGED <<firstHigh, firstLow, fallSeen>>
        \/ /\ level = 0 /\ (\A i \in DOMAIN polls : ~OpenSince(i)) /\ NoneAdded /\ SameCounts
           /\ UNCHANGED firstHigh
           /\ UNCHANGED <<firstLow, fallSeen>> \/ (Planned # {} /\ fallSeen')
        \/ \E i \in DOMAIN polls :
             level = 0 /\ OpenSince(i) /\ Planned # {} /\ UNCHANGED firstHigh /\ SameCounts /\ fallSeen'
        \/ \E i \in DOMAIN polls :
             /\ level = 0 /\ OpenSince(i) /\ Planned = {} /\ polls[i].t = firstHigh /\ firstLow = NoTime
             /\ fallSeen' /\ (FallShort(t) \/ FallBelowPlan(t) \/ FallPlanned(t))
    BY <1>4, <2>1, EdgeCases
  <2>8. QED
    BY <2>4, <2>5, <2>6, <2>7, Zenon
<1>5. QED
  BY <1>1, <1>2, <1>3, <1>4, NextCases, Zenon

\* The open high that falls is the remembered one, as long as no planned window is over.
LEMMA OpenFalls ==
  ASSUME GateIInv, NEW i \in DOMAIN polls, OpenSince(i), Planned = {}, NEW level, level = 0
  PROVE  polls[i].t = firstHigh /\ Fall(level)
<1>1. PollsInOrder
  BY DEF GateIInv
<1>2. firstHigh # NoTime
  BY RememberedIsOpen
<1>3. PICK j \in DOMAIN polls : OpenSince(j) /\ polls[j].t = firstHigh
  BY <1>2, RememberedIsOpen
<1>4. i = j
  BY <1>1, <1>3, OneIsOpen
<1>5. highSeen
  BY <1>2 DEF GateIInv, TypeOK
<1>6. prev = 1
  BY <1>1, OpenIsHigh
<1>7. QED
  BY <1>3, <1>4, <1>5, <1>6 DEF Fall

\* The completion time stands as long as its cause.
LEMMA CauseStep ==
  ASSUME GateIInv, [Next]_vars
  PROVE  CompletionHasCause'
<1>1. PollsInOrder /\ TypeOK /\ now \in Nat /\ CompletionHasCause
  BY Bounds DEF GateIInv, TypeOK
<1>0. completeAt \in Int
  BY <1>1 DEF TypeOK, NoTime
<1>2. CASE SwitchPhase \/ UNCHANGED vars \/ \E t \in Nat : PollFails(t)
  <2>1. /\ polls' = polls /\ acknowledged' = acknowledged /\ gateSeen' = gateSeen
        /\ completeAt' = completeAt /\ requireDone' = requireDone /\ (go => go')
    BY <1>2, Aside
  <2>2. Planned' = Planned
    BY <2>1, PollsStand
  <2>3. \A i, j, k : Completes(i, j, k)' <=> Completes(i, j, k)
    BY <2>1 DEF Completes
  <2>4. early' => completeAt' # NoTime /\ now' - completeAt' >= Guard
    <3>1. CASE \E t \in Nat : PollFails(t)
      BY <2>1, <3>1, Zenon DEF PollFails, CheckGuard
    <3>2. CASE SwitchPhase \/ UNCHANGED vars
      <4>1. early' = early /\ now' = now
        BY <3>2 DEF SwitchPhase, vars
      <4>2. QED
        BY <1>1, <2>1, <4>1 DEF CompletionHasCause
    <3>3. QED
      BY <1>2, <3>1, <3>2
  <2>5. QED
    BY <1>1, <2>1, <2>2, <2>3, <2>4 DEF CompletionHasCause
<1>3. ASSUME NEW tick \in Nat, NEW t \in Nat, NEW level \in Levels, NEW state \in States,
             PollBeforeGo(tick, t, level, state)
      PROVE  CompletionHasCause'
  <2>1. PollsInOrder' /\ ~go' /\ ~go
    BY <1>3, OrderStep, SamplingBefore
  <2>2. Planned' = {}
    BY <2>1, NoneBeforeGoNext DEF NothingYet
  <2>3. /\ acknowledged' = FALSE /\ gateSeen' = FALSE /\ completeAt' = completeAt
        /\ early' = early /\ ~early
    BY <1>3, Zenon DEF PollBeforeGo, Sampled
  <2>4. completeAt' = NoTime /\ ~early' /\ ~acknowledged' /\ ~gateSeen'
    BY <1>1, <2>1, <2>3 DEF CompletionHasCause
  <2>5. QED
    BY <2>2, <2>4 DEF CompletionHasCause
<1>4. ASSUME NEW tick \in Nat, NEW t \in Nat, NEW level \in Levels, NEW state \in States,
             NEW valid \in BOOLEAN, PollAfterGo(tick, t, level, state, valid)
      PROVE  CompletionHasCause'
  <2>1. PICK e : /\ Adds(e) /\ e.t = t /\ e.tick = tick /\ e.level = level /\ e.state = state
                 /\ e.go /\ (e.valid <=> valid)
    BY <1>1, <1>4, AfterGoAdds
  <2>2. /\ Len(polls) \in Nat /\ DOMAIN polls = 1 .. Len(polls)
        /\ Len(polls') = Len(polls) + 1 /\ DOMAIN polls' = 1 .. Len(polls) + 1
        /\ \A k \in DOMAIN polls : polls'[k] = polls[k]
        /\ polls'[Len(polls) + 1] = e
    BY <1>1, <2>1, PollsAre, Grown
  <2>3. PICK n : n = Len(polls) + 1
    OBVIOUS
  <2>4. /\ n \in DOMAIN polls' /\ DOMAIN polls \subseteq DOMAIN polls' /\ polls'[n] = e
        /\ \A i \in DOMAIN polls : i < n /\ i \in Int
        /\ \A i \in DOMAIN polls' : i \in DOMAIN polls \/ i = n
        /\ n \in Int /\ Len(polls') = n
    BY <2>2, <2>3
  <2>5. /\ requireDone' = requireDone /\ go' /\ now' = t /\ t > now
    BY <1>4, Sampling
  <2>6. /\ acknowledged' => acknowledged \/ state = 0
        /\ gateSeen' => gateSeen \/ (acknowledged' /\ level = 1)
        /\ pending' => acknowledged' /\ gateSeen' /\ state = 1 /\ level = 0
        /\ valid => requireDone /\ pending'
        /\ early' => completeAt' # NoTime /\ t - completeAt' >= Guard
    BY <1>4, Zenon DEF PollAfterGo, ObserveCompletion, CheckGuard
  <2>7. /\ requireDone /\ ~valid => completeAt' = NoTime
        /\ requireDone /\ valid => completeAt' = IF completeAt = NoTime THEN t ELSE completeAt
        /\ ~requireDone /\ completeAt # NoTime => completeAt' = completeAt
        /\ ~requireDone /\ completeAt = NoTime /\ Fall(level) /\ t - firstHigh >= PlanFloor => completeAt' = t
        /\ ~requireDone /\ completeAt = NoTime /\ ~(Fall(level) /\ t - firstHigh >= PlanFloor) => completeAt' = NoTime
    BY <1>4 DEF PollAfterGo, Confirm
  <2>8. t # NoTime
    BY DEF NoTime
  <2>9. acknowledged' => \E i \in DOMAIN polls' : polls'[i].go /\ polls'[i].state = 0
    <3>1. CASE acknowledged
      <4>1. PICK i \in DOMAIN polls : polls[i].go /\ polls[i].state = 0
        BY <1>1, <3>1 DEF CompletionHasCause
      <4>2. QED
        BY <2>2, <2>4, <4>1
    <3>2. CASE state = 0
      BY <2>1, <2>4, <3>2
    <3>3. QED
      BY <2>6, <3>1, <3>2
  <2>10. gateSeen' =>
           \E i, j \in DOMAIN polls' :
             i <= j /\ polls'[i].go /\ polls'[i].state = 0 /\ polls'[j].level = 1
    <3>1. CASE gateSeen
      <4>1. PICK i, j \in DOMAIN polls :
               i <= j /\ polls[i].go /\ polls[i].state = 0 /\ polls[j].level = 1
        BY <1>1, <3>1 DEF CompletionHasCause
      <4>2. QED
        BY <2>2, <2>4, <4>1
    <3>2. CASE acknowledged' /\ level = 1
      <4>1. PICK i \in DOMAIN polls' : polls'[i].go /\ polls'[i].state = 0
        BY <2>9, <3>2
      <4>2. i <= n /\ polls'[n].level = 1
        BY <2>1, <2>4, <3>2, <4>1
      <4>3. QED
        BY <2>4, <4>1, <4>2
    <3>3. QED
      BY <2>6, <3>1, <3>2
  <2>11. ASSUME completeAt' # NoTime, requireDone
         PROVE  \E i, j, k \in DOMAIN polls' : Completes(i, j, k)'
    <3>1. valid /\ completeAt' = IF completeAt = NoTime THEN t ELSE completeAt
      BY <2>7, <2>11
    <3>2. CASE completeAt # NoTime
      <4>1. PICK i, j, k \in DOMAIN polls : Completes(i, j, k)
        BY <1>1, <2>11, <3>2 DEF CompletionHasCause
      <4>2. \A l \in k .. Len(polls') : polls'[l].valid
        <5> SUFFICES ASSUME NEW l \in k .. Len(polls') PROVE polls'[l].valid
          OBVIOUS
        <5>1. CASE l = n
          BY <2>1, <2>4, <3>1, <5>1
        <5>2. CASE l # n
          <6>1. l \in k .. Len(polls) /\ l \in DOMAIN polls
            BY <2>2, <2>3, <2>4, <5>2
          <6>2. QED
            BY <2>2, <4>1, <6>1 DEF Completes
        <5>3. QED
          BY <5>1, <5>2
      <4>3. Completes(i, j, k)'
        BY <2>2, <3>1, <3>2, <4>1, <4>2 DEF Completes
      <4>4. QED
        BY <2>4, <4>1, <4>3
    <3>3. CASE completeAt = NoTime
      <4>1. pending' /\ gateSeen' /\ state = 1 /\ level = 0
        BY <2>6, <3>1
      <4>2. PICK i, j \in DOMAIN polls' :
              i <= j /\ polls'[i].go /\ polls'[i].state = 0 /\ polls'[j].level = 1
        BY <2>10, <4>1
      <4>3. j < n
        BY <2>1, <2>4, <4>1, <4>2
      <4>4. \A l \in n .. Len(polls') : polls'[l].valid
        BY <2>1, <2>4, <3>1
      <4>5. Completes(i, j, n)'
        BY <2>1, <2>4, <3>1, <3>3, <4>1, <4>2, <4>3, <4>4 DEF Completes
      <4>6. QED
        BY <2>4, <4>2, <4>5
    <3>4. QED
      BY <3>2, <3>3
  <2>12. ASSUME completeAt' # NoTime, ~requireDone
         PROVE  \E w \in Planned' : polls'[w[2]].t = completeAt'
    <3>1. CASE completeAt # NoTime
      <4>1. PICK w \in Planned : polls[w[2]].t = completeAt
        BY <1>1, <2>12, <3>1 DEF CompletionHasCause
      <4>2. w \in Pulses /\ Length(w) >= PlanFloor
        BY <4>1 DEF Planned
      <4>3. w \in Pulses' /\ Length(w)' = Length(w) /\ w[2] \in DOMAIN polls
        BY <1>1, <2>1, <4>2, PulsesStay, PulsesAre, PollsAre
      <4>4. w \in Planned'
        BY <4>2, <4>3 DEF Planned
      <4>5. completeAt' = completeAt
        BY <2>7, <2>12, <3>1
      <4>6. QED
        BY <2>2, <4>1, <4>3, <4>4, <4>5
    <3>2. CASE completeAt = NoTime
      <4>1. Fall(level) /\ t - firstHigh >= PlanFloor /\ completeAt' = t
        BY <2>7, <2>12, <3>2
      <4>2. Planned = {}
        BY <1>1, <2>12, <3>2 DEF CompletionHasCause
      <4>3. firstHigh # NoTime
        BY <1>1, <4>1 DEF TypeOK, Fall
      <4>4. PICK i \in DOMAIN polls : OpenSince(i) /\ polls[i].t = firstHigh
        BY <4>2, <4>3, RememberedIsOpen
      <4>5. PICK new : new = <<i, Len(polls) + 1>>
        OBVIOUS
      <4>6. e.level = 0
        BY <2>1, <4>1 DEF Fall
      <4>7. Planned' = {new}
        BY <1>1, <2>1, <4>1, <4>2, <4>4, <4>5, <4>6, PulseJudged
      <4>8. new[2] = n
        BY <2>3, <4>5
      <4>9. QED
        BY <2>1, <2>4, <4>1, <4>7, <4>8
    <3>3. QED
      BY <3>1, <3>2
  <2>13. ASSUME ~requireDone, Planned' # {}
         PROVE  completeAt' # NoTime
    <3>1. CASE Planned # {}
      BY <1>1, <2>7, <2>13, <3>1 DEF CompletionHasCause
    <3>2. CASE Planned = {}
      <4>1. PICK w \in Planned' : TRUE
        BY <2>13
      <4>2. w \in Pulses' /\ Length(w)' >= PlanFloor
        BY <4>1 DEF Planned
      <4>3. w \notin Pulses
        BY <1>1, <2>1, <3>2, <4>2, PulsesStay DEF Planned
      <4>4. w[1] \in DOMAIN polls /\ OpenSince(w[1]) /\ e.level = 0 /\ w = <<w[1], Len(polls) + 1>>
        BY <1>1, <2>1, <4>2, <4>3, NewPulse
      <4>5. PICK i \in DOMAIN polls : i = w[1] /\ OpenSince(i) /\ w = <<i, Len(polls) + 1>>
        BY <4>4
      <4>6. polls[i].t = firstHigh /\ Fall(level)
        BY <2>1, <3>2, <4>4, <4>5, OpenFalls
      <4>7. Length(w)' = t - firstHigh
        BY <1>1, <2>1, <4>4, <4>5, <4>6, OnePulseAdded
      <4>8. QED
        BY <2>7, <2>8, <2>13, <4>2, <4>6, <4>7
    <3>3. QED
      BY <3>1, <3>2
  <2>14. early' => completeAt' # NoTime /\ now' - completeAt' >= Guard
    BY <2>5, <2>6
  <2>15. QED
    BY <2>5, <2>9, <2>10, <2>11, <2>12, <2>13, <2>14 DEF CompletionHasCause
<1>5. QED
  BY <1>1, <1>2, <1>3, <1>4, NextCases, Zenon
-----------------------------------------------------------------------------
\* In every state a capture can reach.
THEOREM GateInvariance == Spec => []GateIInv
<1>1. GateIInv /\ [Next]_vars => GateIInv'
  <2> SUFFICES ASSUME GateIInv, [Next]_vars PROVE GateIInv'
    OBVIOUS
  <2>1. TypeOK'
    BY TypeStep DEF GateIInv
  <2>2. QED
    BY <2>1, OrderStep, RiseStep, CountStep, CauseStep, SamplesStep DEF GateIInv
<1>2. QED
  BY InitGate, <1>1, PTL DEF Spec

\* A pulse has one end.
LEMMA OneEnd ==
  ASSUME PollsInOrder, NEW p \in Pulses, NEW q \in Pulses, p[1] = q[1]
  PROVE  p = q
<1>1. /\ p[1] \in Int /\ p[2] \in Int /\ p = <<p[1], p[2]>> /\ p[1] < p[2] /\ polls[p[2]].level = 0
      /\ \A k \in p[1] .. p[2] - 1 : polls[k].level = 1
  BY PulsesAre, PollsAre
<1>2. /\ q[1] \in Int /\ q[2] \in Int /\ q = <<q[1], q[2]>> /\ q[1] < q[2] /\ polls[q[2]].level = 0
      /\ \A k \in q[1] .. q[2] - 1 : polls[k].level = 1
  BY PulsesAre, PollsAre
<1>3. ~(p[2] < q[2]) /\ ~(q[2] < p[2])
  BY <1>1, <1>2
<1>4. QED
  BY <1>1, <1>2, <1>3

\* The evidence kept poll by poll is that of the whole history (_GatedCaptureState.observe).
THEOREM EvidenceHolds == Spec => []EvidenceIsSound
<1>1. GateIInv => EvidenceIsSound
  <2> SUFFICES ASSUME GateIInv PROVE EvidenceIsSound
    OBVIOUS
  <2>1. TypeOK /\ PollsInOrder /\ RiseIsRemembered /\ PulsesAreCounted
    BY DEF GateIInv
  <2>2. ASSUME BelowPlan # {}
        PROVE  LET p == CHOOSE p \in BelowPlan : \A q \in BelowPlan : q[1] <= p[1]
               IN  belowWindow = <<polls[p[1]].t, polls[p[2]].t>>
    <3> DEFINE c == CHOOSE p \in BelowPlan : \A q \in BelowPlan : q[1] <= p[1]
    <3>1. PICK p \in BelowPlan : /\ \A q \in BelowPlan : q[1] <= p[1]
                                 /\ belowWindow = <<polls[p[1]].t, polls[p[2]].t>>
      BY <2>1, <2>2 DEF PulsesAreCounted
    <3>2. c \in BelowPlan /\ \A q \in BelowPlan : q[1] <= c[1]
      BY <3>1, Zenon
    <3> HIDE DEF c
    <3>3. p \in Pulses /\ c \in Pulses
      BY <3>1, <3>2 DEF BelowPlan, Judged
    <3>4. p[1] \in Int /\ c[1] \in Int
      BY <2>1, <3>3, PulsesAre
    <3>5. p[1] = c[1]
      BY <3>1, <3>2, <3>4
    <3>6. p = c
      BY <2>1, <3>3, <3>5, OneEnd
    <3>7. QED
      BY <3>1, <3>6 DEF c
  <2>3. firstHigh # NoTime =>
          \E i \in DOMAIN polls :
            /\ polls[i].t = firstHigh /\ RiseAt(i)
            /\ \/ \E w \in Planned : w[1] = i
               \/ \A k \in i .. Len(polls) : polls[k].level = 1
    BY <2>1 DEF RiseIsRemembered, OpenSince
  <2>4. /\ short = Cardinality(TooShort) /\ below = Cardinality(BelowPlan)
        /\ BelowPlan = {} => belowWindow = <<NoTime, NoTime>>
        /\ fallSeen <=> Pulses # {}
    BY <2>1 DEF PulsesAreCounted
  <2>5. EvidenceIsHistory
    BY <2>2, <2>3, <2>4, Zenon DEF EvidenceIsHistory
  <2>6. QED
    BY <2>1, <2>5 DEF EvidenceIsSound
<1>2. QED
  BY GateInvariance, <1>1, PTL

\* A planned window is one of the retained samples too, up to the lag of the two clocks.
LEMMA WindowIsRetained ==
  ASSUME GateIInv, NEW w \in Planned
  PROVE  \E v \in Windows(samples) : v[2] - v[1] >= PlanFloor - Jitter
<1>1. TypeOK /\ PollsInOrder /\ SamplesArePolls
  BY DEF GateIInv
<1>2. /\ Len(polls) \in Nat /\ DOMAIN polls = 1 .. Len(polls)
      /\ \A i \in DOMAIN polls : polls[i].t \in Nat /\ polls[i].tick \in Nat
  BY <1>1, PollsAre
<1>3. w \in Pulses /\ Length(w) >= PlanFloor
  BY DEF Planned
<1>4. PICK i \in DOMAIN polls, j \in DOMAIN polls :
        /\ i = w[1] /\ j = w[2] /\ i < j /\ RiseAt(i) /\ polls[j].level = 0
        /\ \A k \in i .. j - 1 : polls[k].level = 1
  BY <1>1, <1>2, <1>3, PulsesAre
<1>5. \A k \in i .. j : k \in DOMAIN polls /\ polls[k].go
  <2>1. polls[i].go
    BY <1>4 DEF RiseAt
  <2>2. \A k \in i .. j : k \in DOMAIN polls /\ (k = i \/ i < k)
    BY <1>2, <1>4
  <2>3. QED
    BY <1>1, <2>1, <2>2 DEF PollsInOrder
<1>6. \A k \in i .. j : Kept(k) >= 1 /\ samples[Kept(k)] = <<polls[k].tick, polls[k].level>>
  BY <1>1, <1>5 DEF SamplesArePolls
<1>7. Kept(i) >= 2 /\ samples[Kept(i) - 1][2] = 0
  <2>1. polls[i].go
    BY <1>4 DEF RiseAt
  <2>2. QED
    BY <1>1, <1>4, <2>1 DEF SamplesArePolls
<1>8. Len(samples) \in Nat
  <2>1. samples \in Seq(Nat \X Levels)
    BY <1>1 DEF TypeOK
  <2>2. QED
    BY <2>1, LenProperties
<1>9. PICK off \in Int : off = Len(samples) - Len(polls)
  BY <1>2, <1>8
<1>10. \A k \in Int : Kept(k) = k + off
  BY <1>2, <1>8, <1>9 DEF Kept
<1>11. /\ i \in Int /\ j \in Int /\ i < j
       /\ i \in i .. j - 1 /\ i \in i .. j /\ j \in i .. j /\ j <= Len(polls)
  BY <1>2, <1>4
<1>a. Kept(i) = i + off /\ Kept(j) = j + off
  BY <1>10, <1>11
<1>b. Kept(i) \in 2 .. Len(samples) /\ Kept(j) \in 2 .. Len(samples) /\ Kept(i) < Kept(j)
  BY <1>2, <1>7, <1>8, <1>9, <1>11, <1>a
<1>c. samples[Kept(i)][2] = 1 /\ samples[Kept(j)][2] = 0
  BY <1>4, <1>6, <1>11
<1>12. \A m \in Kept(i) .. Kept(j) - 1 : samples[m][2] = 1
  <2> SUFFICES ASSUME NEW m \in Kept(i) .. Kept(j) - 1 PROVE samples[m][2] = 1
    OBVIOUS
  <2>a. Kept(i) \in Int /\ Kept(j) - 1 \in Int
    BY <1>9, <1>11, <1>a
  <2>b. m \in Int /\ Kept(i) <= m /\ m <= Kept(j) - 1
    BY <2>a
  <2>c. m - off \in Int
    BY <2>b
  <2>1. PICK k \in Int : k = m - off
    BY <2>c, Zenon
  <2>2. k \in i .. j - 1 /\ k \in i .. j
    BY <1>9, <1>11, <1>a, <2>b, <2>1
  <2>3. Kept(k) = m
    BY <1>9, <1>10, <1>11, <1>a, <2>1
  <2>4. polls[k].level = 1 /\ samples[m] = <<polls[k].tick, polls[k].level>>
    BY <1>4, <1>6, <2>2, <2>3
  <2>5. QED
    BY <2>4
<1> DEFINE v == <<samples[Kept(i)][1], samples[Kept(j)][1]>>
<1>13. v \in Windows(samples)
  <2> DEFINE x == <<Kept(i), Kept(j)>>
  <2>1. x \in (2 .. Len(samples)) \X (2 .. Len(samples)) /\ x[1] = Kept(i) /\ x[2] = Kept(j)
    BY <1>b
  <2> HIDE DEF x
  <2>2. x \in {p \in (2 .. Len(samples)) \X (2 .. Len(samples)) :
                 /\ p[1] < p[2]
                 /\ samples[p[1]][2] = 1 /\ samples[p[1] - 1][2] = 0 /\ samples[p[2]][2] = 0
                 /\ \A k \in p[1] .. p[2] - 1 : samples[k][2] = 1}
    BY <1>7, <1>b, <1>c, <1>12, <2>1
  <2>3. v = <<samples[x[1]][1], samples[x[2]][1]>>
    BY <2>1
  <2>4. QED
    BY <2>2, <2>3, Zenon DEF Windows
<1>14. v[1] = polls[i].tick /\ v[2] = polls[j].tick
  BY <1>6, <1>11
<1>15. polls[i].tick <= polls[i].t /\ polls[j].t - polls[j].tick <= Jitter /\ Jitter \in Int
  BY <1>1, Bounds DEF PollsInOrder, Jitter
<1>16. polls[j].t - polls[i].t >= PlanFloor
  BY <1>3, <1>4 DEF Length
<1>17. v[2] - v[1] >= PlanFloor - Jitter
  BY <1>2, <1>14, <1>15, <1>16, Bounds
<1>18. QED
  BY <1>13, <1>17

\* The capture stops early only with cause, Guard after it, and then its samples hold the window
\* (GatedCompletion, guard_elapsed).
THEOREM EarlyStopHolds == Spec => []EarlyStopIsSound
<1>1. GateIInv => EarlyStopIsSound
  <2> SUFFICES ASSUME GateIInv, early PROVE EarlyStopIsSound
    BY DEF EarlyStopIsSound, EarlyStopJustified, SamplesHoldTheWindow
  <2>1. CompletionHasCause
    BY DEF GateIInv
  <2>2. completeAt # NoTime /\ now - completeAt >= Guard
    BY <2>1 DEF CompletionHasCause
  <2>3. CASE requireDone
    <3>1. PICK i, j, k \in DOMAIN polls : Completes(i, j, k)
      BY <2>1, <2>2, <2>3 DEF CompletionHasCause
    <3>2. QED
      BY <2>2, <2>3, <3>1 DEF Completes, EarlyStopIsSound, EarlyStopJustified, SamplesHoldTheWindow
  <2>4. CASE ~requireDone
    <3>1. PICK w \in Planned : polls[w[2]].t = completeAt
      BY <2>1, <2>2, <2>4 DEF CompletionHasCause
    <3>2. \E v \in Windows(samples) : v[2] - v[1] >= PlanFloor - Lag
      BY <2>4, <3>1, WindowIsRetained DEF Jitter
    <3>3. QED
      BY <2>2, <2>4, <3>1, <3>2 DEF EarlyStopIsSound, EarlyStopJustified, SamplesHoldTheWindow
  <2>5. QED
    BY <2>3, <2>4
<1>2. QED
  BY GateInvariance, <1>1, PTL
=============================================================================
