------------------------------ MODULE ProbeBench ------------------------------
(***************************************************************************)
(* Whose text a capture reads.  Several boards are on the desk, the        *)
(* intended one "a" and others, which another invocation may relaunch.     *)
(* The host finds a probe, deploys through it, resets the part and then    *)
(* looks for a channel the text comes through: a serial port among those   *)
(* of all boards, or an RTT control block in a memory that keeps its       *)
(* content over a reset.                                                   *)
(***************************************************************************)
EXTENDS FiniteSets

CONSTANT OnDesk     \* the boards
ASSUME BenchAssumption == IsFiniteSet(OnDesk) /\ "a" \in OnDesk /\ "none" \notin OnDesk

VARIABLES desk,     \* what is wired and configured
          task,    \* where the host is
          ensured,  \* target_power_ensured
          plugged,  \* the boards whose probes enumerate
          chosen,   \* resolved_jlink_serial, by the board behind it
          session,  \* the debug session the host holds on the chosen part
          launched, \* per board: what runs, who launched it
          bare,     \* no debugger was attached at the last reset
          port,     \* the board whose serial port is read
          ring,     \* the RTT blocks of the chosen part
          heard     \* whose text was collected

benchVars == <<desk, task, ensured, plugged, chosen, session, launched, bare, port, ring, heard>>

\* How a board's virtual serial port describes itself: with the probe's serial, without, or
\* there is none.
Vcoms == {"serial", "nameless", "none"}
PlainPorts == [b \in OnDesk |-> "serial"]
Desks ==
  LET Wired(link, powers, vcoms, cables, knowns) ==
        [core : [OnDesk -> {"m4", "m55"}], link : {link}, named : BOOLEAN, power : powers,
         vcom : vcoms, cable : cables, known : knowns, late : BOOLEAN, other : {"hpx", "app"}]
  IN Wired("uart", {"off"}, [OnDesk -> Vcoms], {TRUE}, {"no"})
     \cup Wired("usb", {"off"}, {PlainPorts}, BOOLEAN, {"no"})
     \cup Wired("swo", {"off", "best", "must"}, {PlainPorts}, {TRUE}, {"no"})
     \cup Wired("rtt", {"off"}, {PlainPorts}, {TRUE}, {"map", "nm", "no"})

\* resolve_rtt_control_block_address: out of the linker's map, else by nm, else not at all.
KnownBlock == desk.known # "no"

\* The blocks: whose text lies at the address the image was linked for, and whether a block
\* of an earlier image, with unread text, lies elsewhere.
Rings == [live : {"none", "flash", "capture"}, old : BOOLEAN, clean : BOOLEAN,
          block : {"none", "live", "old"}, api : BOOLEAN]

BenchInit ==
  /\ task = "power" /\ ensured = FALSE
  /\ plugged = (IF desk.late THEN OnDesk \ {"a"} ELSE OnDesk)
  /\ chosen = "none" /\ session = "none" /\ bare = TRUE /\ port = "none" /\ heard = {}
  /\ launched = [b \in OnDesk |-> [image |-> IF b = "a" THEN "hpx" ELSE desk.other,
                                    by |-> "before"]]
  /\ ring = [live |-> "none", old |-> TRUE, clean |-> FALSE, block |-> "none", api |-> FALSE]

Turns(from, to) == task = from /\ task' = to
Alone(rest) == UNCHANGED <<desk, rest>>
-----------------------------------------------------------------------------
(* The probe. *)

\* EnsureBoardPoweredStage: skipped, best effort, or required.
EnsurePowered ==
  /\ task = "power"
  /\ \/ desk.power = "off" /\ task' = "resolve" /\ UNCHANGED ensured
     \/ desk.power # "off" /\ task' = "resolve" /\ ensured' = TRUE
     \/ desk.power = "best" /\ task' = "resolve" /\ UNCHANGED ensured
     \/ desk.power = "must" /\ task' = "failed" /\ UNCHANGED ensured
  /\ Alone(<<plugged, chosen, session, launched, bare, port, ring, heard>>)

\* The board the supply is wired to comes up some time after it is on.
Enumerate ==
  /\ task = "resolve" /\ ensured /\ plugged' = OnDesk
  /\ Alone(<<task, ensured, chosen, session, launched, bare, port, ring, heard>>)

\* inspect_probe_target: a probe tells the core behind it, or twice nothing.
Inspections == SUBSET plugged

\* Mutant: a serial that is not there is no serial.
X_ProbesFor_Implicit(seen) ==
  IF desk.named /\ "a" \in seen THEN {"a"} ELSE {p \in seen : desk.core[p] = desk.core["a"]}

\* resolve_probe_serial: the probes that could be meant, by name or by core.
ProbesFor(seen) ==
  {p \in seen : desk.core[p] = desk.core["a"] /\ (desk.named => p = "a")}

\* ResolveJLinkProbeStage: exactly one, or it looks again while the supply was just switched on.
Resolve ==
  /\ task = "resolve"
  /\ \E seen \in Inspections :
       IF Cardinality(ProbesFor(seen)) = 1
       THEN task' = "flash" /\ chosen' \in ProbesFor(seen)
       ELSE task' \in ({"failed"} \cup IF ensured THEN {"resolve"} ELSE {}) /\ UNCHANGED chosen
  /\ Alone(<<ensured, plugged, session, launched, bare, port, ring, heard>>)

\* deploy_firmware: the image is on the part and started; its own text gathers at once.
Deploy ==
  /\ Turns("flash", IF desk.link = "rtt" /\ ~KnownBlock THEN "clean"
                   ELSE IF desk.link = "uart" THEN "open" ELSE "reset")
  /\ launched' = [launched EXCEPT ![chosen] = [image |-> "mine", by |-> "flash"]]
  /\ ring' = [ring EXCEPT !.live = "flash"] /\ bare' = (session = "none")
  /\ Alone(<<ensured, plugged, chosen, session, port, heard>>)
-----------------------------------------------------------------------------
(* The part is started again, with the debugger where its core needs it. *)

\* _wipe_rtt_control_blocks. Mutant: the best block only.
X_Wiped_Best ==
  IF ring.live # "none" THEN [ring EXCEPT !.live = "none"] ELSE [ring EXCEPT !.old = FALSE]
Wiped == [ring EXCEPT !.live = "none", !.old = FALSE]

\* Mutant: the session stays for the capture.
X_PreClean_Holds ==
  /\ Turns("clean", "reset")
  /\ ring' \in {[Wiped EXCEPT !.clean = TRUE], ring} /\ session' = "open"
  /\ Alone(<<ensured, plugged, chosen, launched, bare, port, heard>>)

\* The pre-clean of an RTT capture that has to search: attach, wipe, let go; or it cannot attach.
PreClean ==
  /\ Turns("clean", "reset")
  /\ ring' \in {[Wiped EXCEPT !.clean = TRUE], ring} /\ session' = "none"
  /\ Alone(<<ensured, plugged, chosen, launched, bare, port, heard>>)

\* Mutant: the serial links let go of it.
X_KeepAttached_Never == FALSE

\* Cycle counters of these cores stand still without a debugger, and only the serial links
\* would let go of it.
KeepAttached == desk.core["a"] = "m4" /\ desk.link \in {"uart", "usb"}

\* attached_reset_session keeps what it resets through; the commander of debug_reset is gone
\* when the part starts.
SessionAtStart == IF KeepAttached THEN "open" ELSE session

\* Memory outlives the reset.
ResetPart ==
  /\ Turns("reset", CASE desk.link = "uart" -> "read" [] desk.link = "usb" -> "find"
                     [] OTHER -> "attach")
  /\ session' = SessionAtStart
  /\ bare' = (session' = "none")
  /\ launched' = [launched EXCEPT ![chosen].by = "capture"]
  /\ Alone(<<ensured, plugged, chosen, port, ring, heard>>)

\* The firmware initialises its block.
BlockReady ==
  /\ task \in {"attach", "scan", "engine", "read"} /\ desk.link = "rtt"
  /\ ring.live # "capture" /\ ring' = [ring EXCEPT !.live = "capture"]
  /\ Alone(<<task, ensured, plugged, chosen, session, launched, bare, port, heard>>)

\* Another invocation relaunches the board this one does not use.
Neighbour ==
  /\ task = "read" /\ \E b \in OnDesk \ {chosen} :
       launched[b].by = "before" /\ launched' = [launched EXCEPT ![b].by = "other"]
  /\ Alone(<<task, ensured, plugged, chosen, session, bare, port, ring, heard>>)
-----------------------------------------------------------------------------
(* The serial ports. *)

\* find_jlink_vcom_port: the one that carries the serial, else the only one there is.
VcomPorts == {b \in plugged : desk.vcom[b] # "none"}
VcomFor ==
  LET matched == {b \in VcomPorts : b = chosen /\ desk.vcom[b] = "serial"} IN
  IF matched # {} THEN matched ELSE VcomPorts

OpenVcom ==
  /\ task = "open"
  /\ IF Cardinality(VcomFor) = 1 THEN task' = "reset" /\ port' \in VcomFor
                                 ELSE task' = "failed" /\ UNCHANGED port
  /\ Alone(<<ensured, plugged, chosen, session, launched, bare, ring, heard>>)

\* The marker in a device's serial number: HPX firmware carries its probe's.
Marker(b) == IF launched[b].image = "app" THEN "none" ELSE b

\* list_serial_ports without the virtual ports: the chosen part may have no cable, or be late.
CdcPorts == (plugged \ {chosen}) \cup IF desk.cable THEN {chosen} ELSE {}

\* Mutant: another board's marker is no reason to leave it alone.
X_AppCdcPorts_Any(shown) == shown
AppCdcPorts(shown) == {b \in shown : Marker(b) \in {chosen, "none"}}

\* resolve_cdc_port: by the marker within its time, else the only device it could be.
FindCdc ==
  /\ task = "find"
  /\ \E shown \in {CdcPorts, CdcPorts \ {chosen}} :
       IF chosen \in shown \/ Cardinality(AppCdcPorts(shown)) = 1
       THEN /\ task' = "read"
            /\ port' \in IF chosen \in shown THEN {chosen} ELSE AppCdcPorts(shown)
       ELSE task' = "failed" /\ UNCHANGED port
  /\ Alone(<<ensured, plugged, chosen, session, launched, bare, ring, heard>>)
-----------------------------------------------------------------------------
(* The debug links. *)

\* open_jlink_with_retry, which resumes a core the attach has halted.
AttachLink ==
  /\ Turns("attach", IF desk.link = "rtt" THEN "scan" ELSE "read") /\ session' = "open"
  /\ Alone(<<ensured, plugged, chosen, launched, bare, port, ring, heard>>)

\* The valid blocks in memory, best first or, alike, by address: either may come first.
Blocks == (IF ring.live = "none" THEN {} ELSE {"live"}) \cup IF ring.old THEN {"old"} ELSE {}

\* Where J-Link's engine is started: the linked address, or what the search settled for.
FindBlock ==
  /\ Turns("scan", "engine")
  /\ \E b \in IF KnownBlock THEN {"live"} ELSE Blocks : ring' = [ring EXCEPT !.block = b]
  /\ Alone(<<ensured, plugged, chosen, session, launched, bare, port, heard>>)

\* The engine delivers, or a new session polls the memory itself.
ProbeEngine ==
  /\ Turns("engine", "read") /\ \E works \in BOOLEAN : ring' = [ring EXCEPT !.api = works]
  /\ session' = "open"
  /\ Alone(<<ensured, plugged, chosen, launched, bare, port, heard>>)

\* What a block holds: the launch of the flash at first, if nobody wiped it.
TextOf(b) == IF b = "old" THEN [board |-> chosen, image |-> "earlier", by |-> "before"]
             ELSE [board |-> chosen, image |-> launched[chosen].image, by |-> ring.live]

\* read_rtt_chunk, direct_rtt_read_any: polling moves on to any block that publishes once its
\* own has been idle for long.
Readable == IF ring.api THEN {ring.block} \cap Blocks ELSE Blocks

ReadRing ==
  /\ task = "read" /\ desk.link = "rtt"
  /\ \E b \in Readable : heard' = heard \cup {TextOf(b)}
  /\ Alone(<<task, ensured, plugged, chosen, session, launched, bare, port, ring>>)

\* Mutant: the next attempt begins while the last one's session is open.
X_StartMissed_Open ==
  /\ Turns("read", "reset") /\ desk.link = "swo"
  /\ Alone(<<ensured, plugged, chosen, session, launched, bare, port, ring, heard>>)

\* An SWO capture without its beginning is tried again.
StartMissed ==
  /\ Turns("read", "reset") /\ desk.link = "swo" /\ session' = "none"
  /\ Alone(<<ensured, plugged, chosen, launched, bare, port, ring, heard>>)

\* A whole profile comes through a port only from HPX firmware that is launched meanwhile.
ReadPort ==
  /\ task = "read" /\ desk.link # "rtt"
  /\ LET b == IF desk.link = "swo" THEN chosen ELSE port IN
       /\ launched[b].image # "app" /\ launched[b].by \in {"capture", "other"}
       /\ heard' = {[board |-> b, image |-> launched[b].image, by |-> launched[b].by]}
  /\ Alone(<<task, ensured, plugged, chosen, session, launched, bare, port, ring>>)

\* capture_pmu goes on with what has a beginning and an end.
Accept == /\ Turns("read", "done") /\ heard # {}
          /\ Alone(<<ensured, plugged, chosen, session, launched, bare, port, ring, heard>>)

\* Every wait is bounded, and every other failure raises: the lines are lost, port and session
\* closed.
GiveUpBench ==
  /\ task \notin {"power", "done", "failed"} /\ task' = "failed"
  /\ heard' = {} /\ port' = "none" /\ session' = "none"
  /\ Alone(<<ensured, plugged, chosen, launched, bare, ring>>)

BenchNext ==
  \/ EnsurePowered \/ Enumerate \/ Resolve \/ Deploy
  \/ PreClean \/ ResetPart \/ BlockReady \/ Neighbour
  \/ OpenVcom \/ FindCdc \/ AttachLink \/ FindBlock \/ ProbeEngine
  \/ ReadRing \/ StartMissed \/ ReadPort \/ Accept \/ GiveUpBench
-----------------------------------------------------------------------------
BenchTypeOK ==
  /\ task \in {"power", "resolve", "flash", "open", "clean", "reset", "find", "attach", "scan",
                "engine", "read", "done", "failed"}
  /\ {chosen, port} \subseteq OnDesk \cup {"none"} /\ plugged \subseteq OnDesk
  /\ session \in {"none", "open"} /\ ring \in Rings
  /\ \A t \in heard : t.board \in OnDesk

\* resolve_probe_serial's policy: a serial is never traded for another probe, and without one
\* only a probe with the intended core is taken.
IntendedProbe ==
  chosen # "none" => /\ desk.core[chosen] = desk.core["a"]
                     /\ (desk.named => chosen = "a")

\* What is accepted is the chosen board's, whatever else is on the desk (usb_cdc.py: "must
\* never be used as a heuristic fallback for this target").  A board without a virtual port of
\* its own is the documented exception of UART.
OneBoard ==
  task = "done" /\ (desk.link = "uart" => desk.vcom[chosen] # "none")
  => \A t \in heard : t.board = chosen

\* Over RTT, a capture whose pre-clean reached the part reads its own launch and no other; one
\* that knows the address reads the deployed image, as long as J-Link's engine delivers.
OwnBlock ==
  desk.link = "rtt" /\ task = "done" =>
    /\ ring.clean => \A t \in heard : t.by = "capture"
    /\ KnownBlock /\ ring.api => \A t \in heard : t.image = "mine"

\* A core that stops counting without a debugger is read with one attached, and one whose boot
\* ROM looks for a debugger is started without.
DebuggerInPlace ==
  task = "done" => IF desk.core["a"] = "m4" THEN session = "open" ELSE bare

\* A capture is of the board, the image and the launch it says it is of.
CaptureIsOwn == IntendedProbe /\ OneBoard /\ OwnBlock /\ DebuggerInPlace
-----------------------------------------------------------------------------
BenchSpec == desk \in Desks /\ BenchInit /\ [][BenchNext]_benchVars

\* The parts of the inductive invariant.
BeforeRun == {"power", "resolve", "flash", "open", "clean", "reset"}
BenchTypes ==
  /\ desk \in Desks /\ BenchTypeOK
  /\ launched \in [OnDesk -> [image : {"hpx", "app", "mine"},
                              by : {"before", "flash", "capture", "other"}]]

\* Each way to a text has its stages, on a board that was found and deployed to.
StagesOfLink ==
  /\ task \notin {"power", "resolve", "failed"} => chosen \in plugged
  /\ task \notin {"power", "resolve", "flash", "failed"} => launched[chosen].image = "mine"
  /\ task = "open" => desk.link = "uart"
  /\ task = "find" => desk.link = "usb"
  /\ task = "attach" => desk.link \in {"swo", "rtt"}
  /\ task \in {"clean", "scan", "engine"} => desk.link = "rtt"

\* The port is the chosen board's, or that of a board whose text nobody takes for a profile.
PortIsOwn ==
  /\ desk.link = "uart" /\ task \in {"reset", "read", "done"} /\ desk.vcom[chosen] # "none"
       => port = chosen
  /\ desk.link = "uart" /\ task \in {"reset", "read", "done"} => port \in OnDesk
  /\ desk.link = "usb" /\ task \in {"read", "done"} =>
       port = chosen \/ (port \in OnDesk /\ launched[port].image = "app")

\* What was wiped stays so, and a known block is the one that is read.
BlockIsOwn ==
  /\ ring.clean => ~ring.old /\ ring.live \in {"none", "capture"}
                   /\ task \notin {"power", "resolve", "flash"}
  /\ desk.link = "rtt" /\ KnownBlock /\ task \in {"engine", "read", "done"} => ring.block = "live"

\* What was heard is of the chosen board and of the block that is read.
HeardIsOwn ==
  /\ \A t \in heard :
       task # "failed" /\ (desk.link = "uart" => desk.vcom[chosen] # "none") => t.board = chosen
  /\ task \in BeforeRun \ {"reset"} \/ (desk.link = "rtt" /\ task \notin {"read", "done"}) => heard = {}
  /\ desk.link = "rtt" /\ ring.clean => \A t \in heard : t.by = "capture"
  /\ desk.link = "rtt" /\ KnownBlock /\ ring.api => \A t \in heard : t.image = "mine"

\* No session is left from before a reset, and one is there after it where it must be.
SessionInPlace ==
  /\ task \in BeforeRun => session = "none"
  /\ desk.core["a"] = "m4" /\ task \in {"find", "read", "done"} => session = "open"
  /\ desk.core["a"] # "m4" => bare

BenchIInv ==
  /\ BenchTypes /\ IntendedProbe /\ StagesOfLink /\ PortIsOwn /\ BlockIsOwn /\ HeardIsOwn
  /\ SessionInPlace
=============================================================================
