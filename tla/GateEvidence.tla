---------------------------- MODULE GateEvidence ----------------------------
(***************************************************************************)
(* The instrument's retained evidence of one gated capture and what is     *)
(* decided from it: PackedGateRecorder copies the GPI frames the stream    *)
(* callbacks are handed, counter_gate_trace decodes them on the sample     *)
(* counter, resolve_counter_completion finds the one firmware transaction, *)
(* and select_gate picks the window and the statistics packets under it.   *)
(*                                                                         *)
(* The lines themselves are chosen once, sample by sample; the stream      *)
(* hands them over in frames of any of the sizes FrameSizes, in order,     *)
(* each frame copied, refused or lost on the way.  Sample k of a line has  *)
(* counter k - 1.  Frames of one rate and increment only: another rate is  *)
(* refused like a gap.                                                     *)
(***************************************************************************)
EXTENDS Integers, Sequences, FiniteSets, SequencesExt

CONSTANT Setups  \* the captures looked at: their arguments and the bounds of their streams

ASSUME EvidenceAssumption ==
  \A s \in Setups :
    /\ s.requireDone \in BOOLEAN
    /\ s.minGate \in Nat /\ s.planFloor \in Nat /\ s.minGate <= s.planFloor
    /\ s.frameSizes \subseteq Nat \ {0} /\ s.packetSizes \subseteq Nat \ {0}
    /\ {s.maxFrames, s.maxLosses, s.maxLag, s.horizon} \subseteq Nat

VARIABLE setup

NeedsDone == setup.requireDone  \* require_done_state
MinGate == setup.minGate          \* minimum_gate_s, in samples
PlanFloor == setup.planFloor      \* plan_floor_s, in samples
FrameSizes == setup.frameSizes    \* bound: samples in a GPI frame
PacketSizes == setup.packetSizes  \* bound: samples in a statistics packet
MaxFrames == setup.maxFrames      \* max_bytes: frames a recorder may retain
MaxLosses == setup.maxLosses      \* bound: frames and packets lost or malformed
MaxLag == setup.maxLag            \* bound: samples not handed over yet while another is taken
Horizon == setup.horizon          \* bound: samples

Levels == {0, 1}
Channels == IF NeedsDone THEN {"gate", "state"} ELSE {"gate"}

VARIABLES
  line,      \* the true levels of each channel
  handed,    \* samples of each channel the stream has handed over or lost
  frames,    \* PackedGateRecorder.frames: [first, levels]
  error,     \* PackedGateRecorder.error is set
  packets,   \* statistics intervals <<a, b>> on the counter
  counted,   \* samples the statistics stream has handed over or lost
  lost       \* losses so far, for the bound

streamVars == <<handed, frames, error>>
evidenceVars == <<setup, line, streamVars, packets, counted, lost>>

Taken == Len(line["gate"])

EvidenceInit ==
  /\ setup \in Setups
  /\ line = [c \in Channels |-> <<>>] /\ handed = [c \in Channels |-> 0]
  /\ frames = [c \in Channels |-> <<>>] /\ error = [c \in Channels |-> FALSE]
  /\ packets = <<>> /\ counted = 0 /\ lost = 0
-----------------------------------------------------------------------------
\* What the instrument and its streams do.
Sample(levels) ==
  /\ Taken < Horizon
  /\ Taken - counted < MaxLag /\ \A c \in Channels : Taken - handed[c] < MaxLag
  /\ line' = [c \in Channels |-> Append(line[c], levels[c])]
  /\ UNCHANGED <<streamVars, packets, counted, lost>>

\* The next n samples of a channel, as a frame.
Handed(c, n) ==
  [first |-> handed[c], levels |-> [i \in 1 .. n |-> line[c][handed[c] + i]]]

\* Mutant: the retention bound is looked at after the frame is kept.
Frame_IgnoresBound(c, n) ==
  /\ handed[c] + n <= Taken
  /\ handed' = [handed EXCEPT ![c] = @ + n]
  /\ frames' = IF error[c] THEN frames
               ELSE [frames EXCEPT ![c] =
                       Append(@, Handed(c, n))]
  /\ error' = [error EXCEPT ![c] = @ \/ Len(frames[c]) = MaxFrames]
  /\ UNCHANGED <<line, packets, counted, lost>>

\* PackedGateRecorder.append: a frame past the retention bound, like a malformed
\* one, ends the retention for good.
Frame(c, n) ==
  /\ handed[c] + n <= Taken
  /\ handed' = [handed EXCEPT ![c] = @ + n]
  /\ \/ /\ ~error[c] /\ Len(frames[c]) < MaxFrames
        /\ frames' = [frames EXCEPT ![c] =
                        Append(@, Handed(c, n))]
        /\ UNCHANGED error
     \/ /\ error[c] \/ Len(frames[c]) = MaxFrames
        /\ error' = [error EXCEPT ![c] = TRUE]
        /\ UNCHANGED frames
  /\ UNCHANGED <<line, packets, counted, lost>>

BadFrame(c, n) ==
  /\ lost < MaxLosses /\ handed[c] + n <= Taken
  /\ lost' = lost + 1
  /\ handed' = [handed EXCEPT ![c] = @ + n]
  /\ error' = [error EXCEPT ![c] = TRUE]
  /\ UNCHANGED <<line, frames, packets, counted>>

LoseFrame(c, n) ==
  /\ lost < MaxLosses /\ handed[c] + n <= Taken
  /\ lost' = lost + 1
  /\ handed' = [handed EXCEPT ![c] = @ + n]
  /\ UNCHANGED <<line, frames, error, packets, counted>>

Packet(n) ==
  /\ counted + n <= Taken
  /\ counted' = counted + n
  /\ packets' = Append(packets, <<counted, counted + n>>)
  /\ UNCHANGED <<line, streamVars, lost>>

LosePacket(n) ==
  /\ lost < MaxLosses /\ counted + n <= Taken
  /\ lost' = lost + 1 /\ counted' = counted + n
  /\ UNCHANGED <<line, streamVars, packets>>

EvidenceNext ==
  \/ \E levels \in [Channels -> Levels] : Sample(levels)
  \/ \E c \in Channels, n \in FrameSizes : Frame(c, n) \/ BadFrame(c, n) \/ LoseFrame(c, n)
  \/ \E n \in PacketSizes : Packet(n) \/ LosePacket(n)

-----------------------------------------------------------------------------
\* An edge is a counter and the level from it on.  Those of one frame, its first sample
\* compared with the last of the frame before.
EdgesOf(f, prior) ==
  {<<f.first + i - 1, f.levels[i]>> :
     i \in {k \in DOMAIN f.levels : f.levels[k] # IF k = 1 THEN prior ELSE f.levels[k - 1]}}

\* Mutant: frames that follow each other in the list are taken to be adjacent.
Adjacent_Always(f, g) == f.first <= g.first
Adjacent(f, g) == g.first = f.first + Len(f.levels)

Contiguous(ps) == \A i \in 1 .. Len(ps) - 1 : ps[i + 1][1] = ps[i][2]

\* counter_gate_trace: what the retained frames of a channel decode to, each frame
\* beginning at the level the one before ended at; empty if the evidence is refused.
Traces(c) ==
  LET fs == frames[c]
      prior(k) == IF k = 1 THEN fs[1].levels[1] ELSE Last(fs[k - 1].levels)
  IN  IF \/ error[c] \/ fs = <<>> \/ packets = <<>> \/ ~Contiguous(packets)
         \/ \E k \in 1 .. Len(fs) - 1 : ~Adjacent(fs[k], fs[k + 1])
      THEN {}
      ELSE {[first |-> fs[1].first, initial |-> fs[1].levels[1],
             edges |-> UNION {EdgesOf(fs[k], prior(k)) : k \in DOMAIN fs},
             level |-> Last(Last(fs).levels), end |-> Last(fs).first + Len(Last(fs).levels)]}

\* The edge that comes next after a counter, if one does.
NextEdge(edges, n) ==
  {e \in edges : n < e[1] /\ \A d \in edges : n < d[1] => e[1] <= d[1]}

\* A window is a rise and the fall that follows it.
GateWindows(t) ==
  UNION {{<<e[1], d[1]>> : d \in NextEdge(t.edges, e[1])} : e \in {x \in t.edges : x[2] = 1}}

\* The packets a window selects, by midpoint.
Selected(w) ==
  {i \in DOMAIN packets :
     2 * w[1] <= packets[i][1] + packets[i][2] /\ packets[i][1] + packets[i][2] < 2 * w[2]}

\* Mutant: the statistics need not reach round the edges.
Evidence_Uncovered(w) == Selected(w) # {}

\* CounterGateTrace.window_evidence does not refuse the window.
Evidence(w) ==
  /\ w[1] - 1 >= packets[1][1] /\ w[2] <= Last(packets)[2]
  /\ Selected(w) # {}

Span(S) == SumFunctionOnSet([i \in DOMAIN packets |-> packets[i][2] - packets[i][1]], S)
\* The packets an edge falls inside of.
Boundary(w) ==
  {i \in DOMAIN packets : \E k \in {1, 2} : packets[i][1] < w[k] /\ w[k] < packets[i][2]}
-----------------------------------------------------------------------------
\* resolve_counter_completion on the traces g and s.
Start(g, s) == IF g.first > s.first THEN g.first ELSE s.first
End(g, s) == Min({g.end, s.end, Last(packets)[2]})
\* The gate's last transition up to a counter, or how the trace began.
IdleAt(g, n) ==
  LET before == {e \in g.edges : e[1] <= n}
  IN  IF before = {} THEN <<g.first, g.initial>>
      ELSE CHOOSE e \in before : \A d \in before : d[1] <= e[1]
IdleBefore(g, n) == IdleAt(g, n)[2] = 0 /\ IdleAt(g, n)[1] < n
\* READY is lowered, and raised again: the two transitions of the state that follow.
Acknowledged(s, n) == NextEdge(s.edges, n)
Done(s, n) == UNION {NextEdge(s.edges, e[1]) : e \in Acknowledged(s, n)}
\* What the gate does meanwhile, or to its end where DONE never comes.
Between(g, s, n) ==
  {e \in g.edges : n < e[1] /\ \A d \in Done(s, n) : e[1] <= d[1]}

\* Mutant: a READY that was abandoned with the gate idle counts as a transaction.
Attempts_Abandoned(g, s) ==
  {e \in s.edges : e[2] = 1 /\ e[1] > Start(g, s) /\ IdleBefore(g, e[1]) /\ Acknowledged(s, e[1]) # {}}

\* The READY rises that may have begun a transaction: the gate idle and low before,
\* READY lowered again, and the gate moving before DONE.
Attempts(g, s) ==
  {e \in s.edges : /\ e[2] = 1 /\ e[1] > Start(g, s) /\ IdleBefore(g, e[1])
                   /\ Acknowledged(s, e[1]) # {} /\ Between(g, s, e[1]) # {}}

\* READY, its acknowledgement, rise and fall of the gate, DONE.
Times(g, s, n) ==
  {<<n, a[1], up[1], down[1], d[1]>> :
     a \in Acknowledged(s, n), d \in Done(s, n),
     up \in Between(g, s, n), down \in Between(g, s, n)}

Whole(g, s, t) ==
  /\ Acknowledged(s, t[1]) = {<<t[2], 0>>} /\ Done(s, t[1]) = {<<t[5], 1>>}
  /\ Between(g, s, t[1]) = {<<t[3], 1>>, <<t[4], 0>>}
  /\ t[1] < t[2] /\ t[2] <= t[3] /\ t[3] < t[4] /\ t[4] <= t[5] /\ t[5] < End(g, s)
  /\ Evidence(<<t[3], t[4]>>)

\* Nothing moved after the transaction.
Quiet(g, s, t) ==
  /\ g.level = 0 /\ s.level = 1
  /\ NextEdge(g.edges, t[4]) = {} /\ NextEdge(s.edges, t[5]) = {}

\* Mutant: what the lines do after DONE is not looked at.
Resolve_AtDone(g, s) ==
  {t \in UNION {Times(g, s, e[1]) : e \in Attempts(g, s)} :
     Attempts(g, s) = {<<t[1], 1>>} /\ Whole(g, s, t)}

\* Mutant: the last of several transactions is taken.
Resolve_Last(g, s) ==
  {t \in UNION {Times(g, s, e[1]) : e \in Attempts(g, s)} : Whole(g, s, t) /\ Quiet(g, s, t)}

\* The one transaction there is, if there is one and nothing else.
Resolve(g, s) ==
  {t \in UNION {Times(g, s, e[1]) : e \in Attempts(g, s)} :
     Attempts(g, s) = {<<t[1], 1>>} /\ Whole(g, s, t) /\ Quiet(g, s, t)}

\* completed_gate_trace
Completion ==
  IF NeedsDone THEN UNION {Resolve(g, s) : g \in Traces("gate"), s \in Traces("state")}
  ELSE {}

\* History: the first completion there was.
VARIABLE confirmed
Remember == confirmed' = IF confirmed = {} THEN Completion' ELSE confirmed
InitAndHistory == EvidenceInit /\ confirmed = {}
EvidenceStep == UNCHANGED setup /\ EvidenceNext /\ Remember
EvidenceSpec == InitAndHistory /\ [][EvidenceStep]_<<evidenceVars, confirmed>>
-----------------------------------------------------------------------------
\* select_gate: each selection is empty or one window.

\* _plan_ranked_candidates
Candidates(windows, fallback) ==
  LET atLeast(floor) == {w \in windows : w[2] - w[1] >= floor}
  IN  IF atLeast(PlanFloor) # {} \/ PlanFloor <= MinGate \/ ~fallback
      THEN atLeast(PlanFloor) ELSE atLeast(MinGate)

\* Mutant: the longest window is taken.
Ranked_Longest(windows, fallback) ==
  LET all == Candidates(windows, fallback)
  IN  {w \in all : \A o \in all : o[2] - o[1] <= w[2] - w[1]}

\* _select_streamed_window: the last one that qualifies.
Ranked(windows, fallback) ==
  LET all == Candidates(windows, fallback) IN {w \in all : \A o \in all : o[1] <= w[1]}

\* The window the retained stream yields; fallback is off when the control plane saw
\* a high still open at the stop.
Streamed(fallback) ==
  LET chosen == IF NeedsDone THEN {<<t[3], t[4]>> : t \in Completion}
                ELSE UNION {Ranked(GateWindows(t), fallback) : t \in Traces("gate")}
  IN  {w \in chosen : Evidence(w)}

\* _process_gated_stats: a window short of the minimum is reduced to nothing.
Reduced(fallback) == {w \in Streamed(fallback) : w[2] - w[1] >= MinGate}

-----------------------------------------------------------------------------
\* The true transitions of a channel between two counters.
TrueEdges(c, first, end) ==
  {<<k, line[c][k + 1]>> : k \in {j \in first + 1 .. end - 1 : line[c][j + 1] # line[c][j]}}
LevelIs(c, from, to, level) == \A k \in from .. to - 1 : line[c][k + 1] = level

\* The retained evidence keeps its shape: frames and packets are in counter order and
\* never past what the stream handed over.
EvidenceTypes ==
  /\ setup \in Setups
  /\ \A c \in Channels :
       /\ line[c] \in Seq(Levels) /\ handed[c] \in 0 .. Taken /\ error[c] \in BOOLEAN
       /\ Len(frames[c]) <= MaxFrames
       /\ \A i \in DOMAIN frames[c] :
            frames[c][i].first + Len(frames[c][i].levels)
              <= IF i < Len(frames[c]) THEN frames[c][i + 1].first ELSE handed[c]
  /\ counted \in 0 .. Taken /\ lost \in 0 .. MaxLosses
  /\ \A i \in DOMAIN packets : packets[i][1] < packets[i][2] /\ packets[i][2] <= counted

\* A trace that is accepted is the signal (counter_gate_trace): however the stream cut
\* it into frames and whatever was lost, its edges are the line's transitions, each at
\* its own counter, none missing and none added.
TraceIsSignal ==
  \A c \in Channels : \A t \in Traces(c) :
    /\ t.edges = TrueEdges(c, t.first, t.end)
    /\ t.initial = line[c][t.first + 1] /\ t.level = line[c][t.end]

\* A confirmed completion is one whole firmware transaction on the real lines
\* (resolve_counter_completion): READY high, acknowledged low, one high of the gate
\* while READY is low, DONE, nothing afterwards; and statistics cover the gate.
CompletionIsTransaction ==
  \A t \in Completion : \A g \in Traces("gate"), s \in Traces("state") :
    /\ line["state"][t[1]] = 0
    /\ LevelIs("state", t[1], t[2], 1) /\ LevelIs("state", t[2], t[5], 0)
    /\ LevelIs("state", t[5], s.end, 1)
    /\ LevelIs("gate", t[1], t[3], 0) /\ LevelIs("gate", t[3], t[4], 1)
    /\ LevelIs("gate", t[4], g.end, 0)
    /\ packets[1][1] < t[3] /\ t[4] <= Last(packets)[2]

\* A clean run is recognised: READY moved as it pleased while the gate was idle, then
\* one acknowledged gate and DONE, all of it handed over and under statistics.
RunIsRecognised ==
  NeedsDone /\ lost = 0 /\ (\A c \in Channels : ~error[c]) /\ counted > 0 =>
    LET gateEdges == TrueEdges("gate", 0, handed["gate"])
        stateEdges == TrueEdges("state", 0, handed["state"])
    IN  \A rise, fall \in {e[1] : e \in gateEdges}, ready, ack, done \in {e[1] : e \in stateEdges} :
          /\ line["gate"][1] = 0 /\ gateEdges = {<<rise, 1>>, <<fall, 0>>}
          /\ {e \in stateEdges : e[1] >= ready} = {<<ready, 1>>, <<ack, 0>>, <<done, 1>>}
          /\ ready < ack /\ ack <= rise /\ fall <= done
          /\ \A n \in {handed["gate"], handed["state"], counted} : done < n
          /\ Evidence(<<rise, fall>>)
          => Completion = {<<ready, ack, rise, fall, done>>}

\* Once a transaction has been confirmed, later evidence can only withdraw it, never
\* put another in its place (the settle guard of the poller, then select_gate).
ConfirmedIsFinal == confirmed # {} => Completion \subseteq confirmed

\* The window a streamed result is reduced over is a real high of the gate, edge for
\* edge, past the minimum, and no later one on the trace qualifies by the plan.
SelectedIsReal ==
  \A fallback \in BOOLEAN : \A w \in Reduced(fallback), t \in Traces("gate") :
    /\ line["gate"][w[1]] = 0 /\ LevelIs("gate", w[1], w[2], 1) /\ line["gate"][w[2] + 1] = 0
    /\ w[2] - w[1] >= MinGate
    /\ \A i \in w[2] .. t.end - 1 : \A j \in i + 1 .. t.end - 1 :
         LevelIs("gate", i, j, 1) /\ line["gate"][j + 1] = 0 => j - i < PlanFloor

\* Whole packets are integrated; what they add to or miss of the gate stays within the
\* published boundary uncertainty (window_evidence).
IntegrationWithinUncertainty ==
  \A fallback \in BOOLEAN : \A w \in Reduced(fallback) :
    LET excess == Span(Selected(w)) - (w[2] - w[1])
        bound == Span(Boundary(w)) + 2
    IN  -bound <= excess /\ excess <= bound

\* Retained evidence is well formed, and an accepted trace of it is the signal.
EvidenceIsSound == EvidenceTypes /\ TraceIsSignal

\* The window selected is a real one, and what is integrated stays within its uncertainty.
SelectionIsSound == SelectedIsReal /\ IntegrationWithinUncertainty

\* A completion is one whole transaction, a clean run has one, and later evidence changes it for
\* no other.
CompletionIsSound == CompletionIsTransaction /\ RunIsRecognised /\ ConfirmedIsFinal
=============================================================================
