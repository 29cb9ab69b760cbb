--------------------------- MODULE ProfileStream ---------------------------
(***************************************************************************)
(* The profile capture: the firmware prints one stream per launch, the     *)
(* transport carries it, the host resets the target, collects the lines    *)
(* and parses them.                                                        *)
(*                                                                         *)
(* "rtt" is a ring the host drains: a lossless line waits for space until  *)
(* its budget is spent, a droppable one does not wait.  "swo" and "uart"   *)
(* have no flow control.  "usb" has, and prints once the host has opened   *)
(* the port.  Time is counted in ticks of the silence the host observes:   *)
(* it passes while nothing is in flight and the firmware is in its window, *)
(* parked or hung.                                                         *)
(***************************************************************************)
EXTENDS ProfileParser, FiniteSetsExt

CONSTANTS
  Cases,      \* the configurations a capture may start from
  Losses,     \* bound: lines a capture loses
  Ring,       \* lines the RTT ring holds
  Quiet,      \* ticks without a line that make a hang (heartbeat_timeout_s)
  Budget      \* ticks an announced window is allowed (window_budget_s)

ASSUME ProfileStreamAssumption ==
  /\ Losses \in Nat /\ Ring \in Nat \ {0} /\ Quiet \in Nat \ {0} /\ Budget \in Nat

VARIABLES
  cfg,        \* [kind, passes, iterations, layers, probe, power, window, est, ceiling]
  pc,         \* the host: what it is at, or how the capture ended
  launch, fw, \* the launch of the firmware and the next line of its program
  left,       \* ticks left of the silent window
  link,       \* lines in flight
  lost,       \* lines lost in this capture
  lines,      \* what collect_lines has received, as the parser reads it
  announced,  \* the announcement of the window has been received
  quiet, floor, ceiling, \* ticks since the last line, to the window's deadline, to the overall one
  deadline,   \* ticks to the deadline of all the attempts, which no announcement raises
  attempt,    \* SWO attempts
  result

target == <<launch, fw, left>>
timers == <<announced, quiet, floor, ceiling, deadline>>
vars == <<cfg, pc, target, link, lost, lines, timers, attempt, result>>

Attempts == 3       \* _MAX_CAPTURE_ATTEMPTS
Unbounded == 99     \* overall_timeout_s = None
NoResult == [ok |-> FALSE]
Over == {"accepted", "failed"}

Iteration(c, p, i) ==
  <<Line("ITER", p, i, 0, 0), Line("HDR", p, i, 0, 0)>>
  \o [j \in 1 .. c.layers |-> Line("ROW", p, i, j, 0)]
Pass(c, p) ==
  <<Line("PRESET", p, 0, 0, 0)>>
  \o FlattenSeq([i \in 1 .. c.iterations |-> Iteration(c, p, i)])
Plain(kinds) == [j \in DOMAIN kinds |-> Line(kinds[j], 0, 0, 0, 0)]

\* main: what a launch prints from its boot to its park.
Script ==
  [c \in Cases |->
    Plain((IF c.kind = "usb" THEN <<>> ELSE <<"READY">>)
          \o <<"START", "ITERATIONS", "NUM", "PRESETS", "SETUP", "ANNOUNCE">>
          \o (IF c.probe THEN <<"PROBE">> ELSE <<>>)
          \o <<"WINDOW", "CLEAN">>)
    \o FlattenSeq([p \in 1 .. c.passes |-> Pass(c, p)])
    \o Plain(<<"END">>)]

Printing == fw \in DOMAIN Script[cfg]
Current == [Script[cfg][fw] EXCEPT !.n = launch]
Parked == Len(Script[cfg]) + 1
Hung == Parked + 1

Init ==
  /\ cfg \in Cases
  /\ pc = "start" /\ launch = 0 /\ fw = Parked /\ left = 0
  /\ link = <<>> /\ lost = 0 /\ lines = Empty
  /\ announced = FALSE /\ quiet = 0 /\ floor = 0
  /\ ceiling = cfg.ceiling /\ deadline = cfg.ceiling
  /\ attempt = 1 /\ result = NoResult

Boots == launch' = launch + 1 /\ fw' = 1 /\ left' = 0
-----------------------------------------------------------------------------
\* hpx_printf inside a timed part does not wait for space: the pass sentinel.
Droppable(x) == x.k = "PRESET"

Carried(x) == link' = Append(link, x) /\ UNCHANGED lost
Dropped(x) == lost < Losses /\ lost' = lost + 1 /\ UNCHANGED link

\* Mutant: a lossless write that has spent its budget is made all the same.
Write_Forced(x) == Carried(x)

\* One write to the transport.  A ring that is full drops a droppable line at once, and a
\* lossless one when the host has not drained it for the budget of the write.
Write(x) ==
  CASE cfg.kind = "rtt" /\ Len(link) >= Ring -> Dropped(x)
    [] cfg.kind \in {"swo", "uart"} -> Carried(x) \/ Dropped(x)
    [] cfg.kind = "usb" \/ (cfg.kind = "rtt" /\ Len(link) < Ring) -> Carried(x)

\* The next line of the program.  USB waits for the port.
Emit ==
  /\ Printing /\ Current.k \notin {"SETUP", "WINDOW"}
  /\ cfg.kind = "usb" => pc = "collect"
  /\ cfg.kind # "rtt" /\ pc # "opened" => link = <<>>
  /\ Write(Current)
  /\ fw' = fw + 1
  /\ left' = IF Current.k # "END" /\ Script[cfg][fw + 1].k = "WINDOW" THEN cfg.window ELSE left
  /\ UNCHANGED <<cfg, pc, launch, lines, timers, attempt, result>>

\* The model is set up.  A fatal HPX_ERROR parks; a dead crystal is reported and the launch
\* goes on.
Setup ==
  /\ Printing /\ Current.k = "SETUP"
  /\ \/ fw' = fw + 1 /\ UNCHANGED <<link, lost>>
     \/ Write(Line("FATAL", 0, 0, 0, launch)) /\ fw' = Parked
     \/ Write(Line("STIMER", 0, 0, 0, launch)) /\ fw' = fw + 1
  /\ UNCHANGED <<cfg, pc, launch, left, lines, timers, attempt, result>>

CloseWindow ==
  /\ Printing /\ Current.k = "WINDOW" /\ (pc = "collect" => left = 0)
  /\ fw' = fw + 1
  /\ UNCHANGED <<cfg, pc, launch, left, link, lost, lines, timers, attempt, result>>

Hang ==
  /\ Printing /\ fw' = Hung
  /\ UNCHANGED <<cfg, pc, launch, left, link, lost, lines, timers, attempt, result>>
-----------------------------------------------------------------------------
\* The UART port is open and flushed before the reset: what the launch of the flash prints
\* until the reset is read with the rest.
OpenPort ==
  /\ pc = "start" /\ cfg.kind = "uart"
  /\ Boots /\ pc' = "opened"
  /\ UNCHANGED <<cfg, link, lost, lines, timers, attempt, result>>

\* debug_reset, from any line of the launch before.
Reset ==
  /\ \/ pc = "start" /\ cfg.kind # "uart"
     \/ pc = "opened"
  /\ Boots
  /\ pc' = IF cfg.kind = "rtt" THEN "handshake" ELSE "collect"
  /\ UNCHANGED <<cfg, link, lost, lines, timers, attempt, result>>

\* _perform_rtt_ready_handshake: nothing that was read on the way to READY is lost.
Handshake ==
  /\ pc = "handshake" /\ link # <<>> /\ Head(link).k = "READY"
  /\ lines' = Read(Empty, Head(link)) /\ link' = Tail(link) /\ pc' = "collect"
  /\ UNCHANGED <<cfg, target, lost, timers, attempt, result>>

\* No READY before the bound, no attach: a CaptureError.
NoHandshake ==
  /\ pc = "handshake" /\ pc' = "failed"
  /\ UNCHANGED <<cfg, target, link, lost, lines, timers, attempt, result>>
-----------------------------------------------------------------------------
\* Mutant: the budget is a raise of one deadline, which the next line resets.
FloorAfter_Raise(x) == IF x.k = "ANNOUNCE" /\ cfg.est THEN Budget ELSE 0

\* An announcement without an estimate leaves the deadlines alone.
FloorAfter(x) == IF x.k = "ANNOUNCE" /\ cfg.est THEN Budget ELSE floor

\* One line of collect_lines.  The overall deadline is raised, never lowered.
Collect ==
  /\ pc = "collect" /\ link # <<>>
  /\ LET x == Head(link)
     IN /\ link' = Tail(link)
        /\ lines' = Read(lines, x)
        /\ quiet' = 0
        /\ floor' = FloorAfter(x)
        /\ ceiling' = IF x.k = "ANNOUNCE" /\ cfg.est THEN Max({ceiling, Budget}) ELSE ceiling
        /\ announced' = (announced \/ x.k = "ANNOUNCE")
        /\ pc' = IF x.k = "END" THEN "parse" ELSE pc
  /\ UNCHANGED <<cfg, target, lost, deadline, attempt, result>>

\* Mutant: a hang is a silence after HPX_START.
HangSeen_Started == "START" \in lines.kinds /\ quiet >= Quiet /\ floor = 0

HangSeen == quiet >= Quiet /\ floor = 0
CeilingHit == ceiling = 0

Left(bound) == IF bound = Unbounded THEN bound ELSE Max({0, bound - 1})

\* A tick of silence.
Tick ==
  /\ pc = "collect" /\ link = <<>> /\ ~HangSeen /\ ~CeilingHit
  /\ (Printing /\ Current.k = "WINDOW" /\ left > 0) \/ ~Printing
  /\ left' = Max({0, left - 1})
  /\ quiet' = Min({Quiet, quiet + 1}) /\ floor' = Max({0, floor - 1})
  /\ ceiling' = Left(ceiling) /\ deadline' = Left(deadline)
  /\ UNCHANGED <<cfg, pc, launch, fw, link, lost, lines, announced, attempt, result>>

\* collect_lines gives up and returns what it has.
GiveUp ==
  /\ pc = "collect" /\ (HangSeen \/ CeilingHit)
  /\ pc' = "parse"
  /\ UNCHANGED <<cfg, target, link, lost, lines, timers, attempt, result>>
-----------------------------------------------------------------------------
Headless == "START" \notin lines.kinds

\* capture_swo_output: a capture without its START is tried again, with a fresh reset.
CanRetry == cfg.kind = "swo" /\ Headless /\ attempt < Attempts /\ deadline > 0
Retry ==
  /\ pc = "parse" /\ CanRetry
  /\ attempt' = attempt + 1
  /\ Boots /\ pc' = "collect"
  /\ link' = <<>> /\ lines' = Empty /\ announced' = FALSE /\ quiet' = 0 /\ floor' = 0
  /\ ceiling' = deadline
  /\ UNCHANGED <<cfg, lost, deadline, result>>

\* raise_on_firmware_error: only a crystal that no power run depends on is let pass.
Reported == "FATAL" \in lines.kinds \/ ("STIMER" \in lines.kinds /\ cfg.power)

\* capture_pmu after the transport has returned.
Parse ==
  /\ pc = "parse" /\ ~CanRetry
  /\ result' = IF Reported THEN NoResult ELSE Parsed(lines, cfg)
  /\ pc' = IF result'.ok THEN "accepted" ELSE "failed"
  /\ UNCHANGED <<cfg, target, link, lost, lines, timers, attempt>>

Firmware == Emit \/ Setup \/ CloseWindow
Host == OpenPort \/ Reset \/ Handshake \/ Collect \/ GiveUp \/ Retry \/ Parse
Next == Firmware \/ Hang \/ Host \/ NoHandshake \/ Tick

Spec == Init /\ [][Next]_vars
FairSpec == Spec /\ WF_vars(Host) /\ WF_vars(NoHandshake) /\ WF_vars(Firmware) /\ WF_vars(Tick)
-----------------------------------------------------------------------------
\* The state keeps its shape; the wire holds no more than the ring.
TypeOK ==
  /\ pc \in {"start", "opened", "handshake", "collect", "parse"} \cup Over
  /\ launch \in 0 .. Attempts /\ lost \in 0 .. Losses /\ attempt \in 1 .. Attempts
  /\ fw \in 1 .. Hung /\ quiet \in 0 .. Quiet /\ floor \in 0 .. Budget
  /\ cfg.kind = "rtt" => Len(link) <= Ring

\* The samples a launch takes.
Taken(n) == [pass : 1 .. cfg.passes, layer : 1 .. cfg.layers, iter : 1 .. cfg.iterations,
             launch : {n}]

\* What is accepted is of one launch and has every layer in every pass, and every iteration when
\* their number was received: no capture that lost fewer lines than there are iterations in all
\* is read as complete with a layer missing, with rows under another pass's columns, or with
\* rows of the launch before the reset (parse_firmware_output).
AcceptedIsWhole ==
  pc = "accepted" /\ lost < cfg.passes * cfg.iterations =>
    \E n \in 1 .. launch :
      /\ result.samples \subseteq Taken(n)
      /\ \A p \in 1 .. cfg.passes, l \in 1 .. cfg.layers :
           \E s \in result.samples : s.pass = p /\ s.layer = l
      /\ "ITERATIONS" \in lines.keys => result.samples = Taken(n)

\* The silence of an announced window is not taken for a hang, nor cut short by the overall
\* deadline, whatever is printed inside it and however long the rest took (collect_lines).
WindowIsNotCut ==
  pc = "collect" /\ (HangSeen \/ CeilingHit) /\ Printing /\ Current.k = "WINDOW" =>
    ~announced \/ ~cfg.est

\* Every capture ends, whatever the firmware and the transport do.
CaptureEnds == <>(pc \in Over)

\* What is accepted is whole, and no capture is given up inside its window.
CaptureIsSound == TypeOK /\ AcceptedIsWhole /\ WindowIsNotCut
=============================================================================
