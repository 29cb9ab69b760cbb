--------------------------- MODULE Lockstep_proofs ---------------------------
(***************************************************************************)
(* Proofs about Lockstep for all waits, bounds and counts: GO is high for  *)
(* the launch it was raised for only, and the window that is measured is   *)
(* the firmware's, provided the two sides' times fit each other (InTime).  *)
(***************************************************************************)
EXTENDS Lockstep, TLAPS

\* The times are natural numbers.
LEMMA Times ==
  /\ Boot \in Nat /\ Boot > 0 /\ Window \in Nat /\ Window > 0 /\ PlanFloor \in Nat /\ PlanFloor > 0
  /\ Polls \in Nat /\ Polls > 0 /\ Warm \in Nat /\ ResetTail \in Nat /\ Grace \in Nat
  /\ ReadyWait \in Nat /\ Slack \in Nat /\ GateWait \in Nat /\ GoWait \in Nat
  /\ Runs \in Nat /\ Faults \in Nat
BY LockstepAssumption

LEMMA InitLockstep == LockstepInit => LockstepIInv
<1> SUFFICES ASSUME LockstepInit PROVE LockstepIInv
  OBVIOUS
<1>1. Levels
  BY Zenon DEF LockstepInit, Levels
<1>2. Ranges
  BY Times DEF LockstepInit, Ranges, Polling, NoPulse, Needed
<1>3. /\ ~go /\ ~gate /\ ~state /\ ~duty /\ ~latched /\ hpc = "idle" /\ fpc = "off" /\ sample = <<>>
      /\ taken = "none"
  BY Zenon DEF LockstepInit
<1>4. QED
  BY <1>1, <1>2, <1>3 DEF LockstepIInv, LockstepTypeOK, GoLowInWindow, Timers, PinsDriven, Stages, Race, GoInTime,
     SamplesAreReal, RiseIsNoticed, StrayIsShort, Polling, Coming

\* A level stays one.
LEMMA LevelsStep ==
  ASSUME Levels, [LockstepNext]_lockstepVars
  PROVE  Levels'
<1> USE DEF Levels, host, firmware, wires, poller, book
<1>1. CASE Arm
  BY <1>1, Zenon DEF Arm
<1>2. CASE Relaunch \/ ResetReturns \/ GraceEnds
  BY <1>2, Zenon DEF Relaunch, ResetReturns, GraceEnds
<1>3. CASE TakeSample
  BY <1>3, Zenon DEF TakeSample
<1>4. CASE NotReady \/ SwitchPhase \/ WindowWaited
  BY <1>4, Zenon DEF NotReady, SwitchPhase, WindowWaited
<1>5. CASE SignalGo
  BY <1>5, Zenon DEF SignalGo
<1>6. CASE Release
  BY <1>6, Zenon DEF Release
<1>7. CASE Read
  <2>1. PICK g \in BOOLEAN, s \in BOOLEAN :
          sample' = <<[gate |-> g, state |-> s, of |-> IF fpc = "window" THEN "window" ELSE "stray"]>>
    BY <1>7 DEF Read
  <2>2. sample'[1].gate \in BOOLEAN /\ sample'[1].state \in BOOLEAN
    <3>1. sample'[1] = [gate |-> g, state |-> s, of |-> IF fpc = "window" THEN "window" ELSE "stray"]
      BY <2>1
    <3>2. sample'[1].gate = g /\ sample'[1].state = s
      BY <3>1
    <3>3. QED
      BY <3>2, Zenon
  <2>3. QED
    BY <1>7, <2>2, Zenon DEF Read
<1>8. CASE Observe
  BY <1>8, Zenon DEF Observe, BeginPulse, EndPulse
<1>9. CASE DropGo
  BY <1>9, Zenon DEF DropGo
<1>10. CASE PinsReady \/ FirmwareFails
  BY <1>10, Zenon DEF PinsReady, FirmwareFails
<1>11. CASE SayReady \/ GoWaited
  BY <1>11, Zenon DEF SayReady, GoWaited
<1>12. CASE OpenWindow \/ CloseWindow
  BY <1>12, Zenon DEF OpenWindow, CloseWindow
<1>13. CASE Tick
  BY <1>13, Zenon DEF Tick
<1>14. CASE UNCHANGED lockstepVars
  BY <1>14, Zenon DEF lockstepVars
<1>15. QED
  BY <1>1, <1>2, <1>3, <1>4, <1>5, <1>6, <1>7, <1>8, <1>9, <1>10, <1>11, <1>12, <1>13, <1>14
     DEF LockstepNext, Host, Poller, Firmware

\* The two ways SignalGo goes: GO is raised, or the write fails and may have raised it.
LEMMA SignalGoCases ==
  ASSUME SignalGo
  PROVE  /\ hpc = "signal" /\ signalled'
         /\ \/ hpc' = "gate" /\ hleft' = GateWait /\ go' /\ faults' = faults
            \/ Fault /\ hpc' = "release" /\ hleft' = hleft
         /\ streak' = streak /\ phase' = phase /\ fpc' = fpc /\ fleft' = fleft /\ latched' = latched
         /\ gate' = gate /\ state' = state /\ sample' = sample /\ fresh' = fresh /\ latest' = latest
         /\ prev' = prev /\ age' = age /\ pulse' = pulse /\ duty' = duty /\ stopped' = stopped
         /\ polls' = polls /\ taken' = taken /\ run' = run
BY Zenon DEF SignalGo, firmware, poller

\* The four ways a sample is classified.
LEMMA ObserveCases ==
  ASSUME Observe
  PROVE  \/ phase = "arming" /\ age' = NoPulse /\ UNCHANGED <<pulse, duty, stopped, taken>>
         \/ phase = "go_signaled" /\ BeginPulse(sample[1])
         \/ phase = "go_signaled" /\ EndPulse(sample[1])
         \/ /\ phase = "go_signaled" /\ ~Rise(sample[1]) /\ ~Fall(sample[1])
            /\ pulse' = IF sample[1].gate /\ sample[1].of = "window" THEN "window" ELSE pulse
            /\ UNCHANGED <<age, duty, stopped, taken>>
BY Zenon DEF Observe

\* No wait grows past its bound.
LEMMA RangesStep ==
  ASSUME InTime, LockstepIInv, [LockstepNext]_lockstepVars
  PROVE  Ranges'
<1> USE Times DEF LockstepIInv, LockstepTypeOK, Ranges, Timers, NoPulse, Needed, Polling, Coming, Lead,
         host, firmware, wires, poller, book
<1>1. CASE Arm
  BY <1>1, SMTT(20) DEF Arm, Fault
<1>2. CASE Relaunch
  BY <1>2, SMTT(20) DEF Relaunch, Fault
<1>3. CASE ResetReturns \/ GraceEnds
  BY <1>3, SMTT(20) DEF ResetReturns, GraceEnds
<1>4. CASE TakeSample
  BY <1>4, SMTT(20) DEF TakeSample
<1>5. CASE NotReady \/ SwitchPhase \/ WindowWaited
  BY <1>5, SMTT(20) DEF NotReady, SwitchPhase, WindowWaited
<1>6. CASE Release
  BY <1>6, SMTT(20) DEF Release, Fault
<1>7. CASE SignalGo
  <2>1. CASE hpc' = "gate" /\ hleft' = GateWait /\ faults' = faults
    BY <1>7, <2>1, SignalGoCases
  <2>2. CASE Fault /\ hpc' = "release" /\ hleft' = hleft
    BY <1>7, <2>2, SignalGoCases DEF Fault
  <2>3. QED
    BY <1>7, <2>1, <2>2, SignalGoCases, Zenon
<1>8. CASE Read
  BY <1>8, SMTT(20) DEF Read
<1>9. CASE Observe
  BY <1>9, SMTT(20) DEF Observe, BeginPulse, EndPulse, Rise, Fall
<1>10. CASE DropGo
  BY <1>10, SMTT(20) DEF DropGo, Fault
<1>11. CASE PinsReady
  BY <1>11, SMTT(20) DEF PinsReady
<1>12. CASE FirmwareFails \/ SayReady
  BY <1>12, SMTT(20) DEF FirmwareFails, SayReady
<1>13. CASE GoWaited
  BY <1>13, SMTT(20) DEF GoWaited
<1>14. CASE OpenWindow
  BY <1>14, SMTT(20) DEF OpenWindow
<1>15. CASE CloseWindow
  BY <1>15, SMTT(20) DEF CloseWindow
<1>16. CASE Tick
  BY <1>16, SMTT(20) DEF Tick, HostWaits, PollerWaits, FirmwareWaits, Pass
<1>17. CASE UNCHANGED lockstepVars
  BY <1>17, SMTT(20) DEF lockstepVars
<1>18. QED
  BY <1>1, <1>2, <1>3, <1>4, <1>5, <1>6, <1>7, <1>8, <1>9, <1>10, <1>11, <1>12, <1>13, <1>14, <1>15, <1>16, <1>17, Zenon
     DEF LockstepNext, Host, Poller, Firmware

\* What is left of a wait is at most what it began with.
LEMMA TimersStep ==
  ASSUME InTime, LockstepIInv, [LockstepNext]_lockstepVars
  PROVE  Timers'
<1> USE Times DEF LockstepIInv, LockstepTypeOK, Ranges, Timers, NoPulse, Needed, Polling, Coming, Lead,
         host, firmware, wires, poller, book
<1>1. CASE Arm
  BY <1>1, SMTT(20) DEF Arm, Fault
<1>2. CASE Relaunch
  BY <1>2, SMTT(20) DEF Relaunch, Fault
<1>3. CASE ResetReturns \/ GraceEnds
  BY <1>3, SMTT(20) DEF ResetReturns, GraceEnds
<1>4. CASE TakeSample
  BY <1>4, SMTT(20) DEF TakeSample
<1>5. CASE NotReady \/ SwitchPhase \/ WindowWaited
  BY <1>5, SMTT(20) DEF NotReady, SwitchPhase, WindowWaited
<1>6. CASE Release
  BY <1>6, SMTT(20) DEF Release, Fault
<1>7. CASE SignalGo
  BY <1>7, SignalGoCases, SMTT(20) DEF Fault
<1>8. CASE Read
  BY <1>8, SMTT(20) DEF Read
<1>9. CASE Observe
  BY <1>9, SMTT(20) DEF Observe, BeginPulse, EndPulse, Rise, Fall
<1>10. CASE DropGo
  BY <1>10, SMTT(20) DEF DropGo, Fault
<1>11. CASE PinsReady
  BY <1>11, SMTT(20) DEF PinsReady
<1>12. CASE FirmwareFails \/ SayReady
  BY <1>12, SMTT(20) DEF FirmwareFails, SayReady
<1>13. CASE GoWaited
  BY <1>13, SMTT(20) DEF GoWaited
<1>14. CASE OpenWindow
  BY <1>14, SMTT(20) DEF OpenWindow
<1>15. CASE CloseWindow
  BY <1>15, SMTT(20) DEF CloseWindow
<1>16. CASE Tick
  BY <1>16, SMTT(20) DEF Tick, HostWaits, PollerWaits, FirmwareWaits, Pass
<1>17. CASE UNCHANGED lockstepVars
  BY <1>17, SMTT(20) DEF lockstepVars
<1>18. QED
  BY <1>1, <1>2, <1>3, <1>4, <1>5, <1>6, <1>7, <1>8, <1>9, <1>10, <1>11, <1>12, <1>13, <1>14, <1>15, <1>16, <1>17, Zenon
     DEF LockstepNext, Host, Poller, Firmware

\* Only the firmware moves GATE and STATE, and it drives each stage's levels as it enters it.
LEMMA PinsDrivenStep ==
  ASSUME InTime, LockstepIInv, [LockstepNext]_lockstepVars
  PROVE  PinsDriven'
<1> USE Times DEF LockstepIInv, LockstepTypeOK, Ranges, PinsDriven, NoPulse, Needed, Polling, Coming, Lead,
         host, firmware, wires, poller, book
<1>1. CASE Arm
  BY <1>1, SMTT(20) DEF Arm, Fault
<1>2. CASE Relaunch
  BY <1>2, SMTT(20) DEF Relaunch, Fault
<1>3. CASE ResetReturns \/ GraceEnds
  BY <1>3, SMTT(20) DEF ResetReturns, GraceEnds
<1>4. CASE TakeSample
  BY <1>4, SMTT(20) DEF TakeSample
<1>5. CASE NotReady \/ SwitchPhase \/ WindowWaited
  BY <1>5, SMTT(20) DEF NotReady, SwitchPhase, WindowWaited
<1>6. CASE Release
  BY <1>6, SMTT(20) DEF Release, Fault
<1>7. CASE SignalGo
  BY <1>7, SignalGoCases, SMTT(20) DEF Fault
<1>8. CASE Read
  BY <1>8, SMTT(20) DEF Read
<1>9. CASE Observe
  BY <1>9, SMTT(20) DEF Observe, BeginPulse, EndPulse, Rise, Fall
<1>10. CASE DropGo
  BY <1>10, SMTT(20) DEF DropGo, Fault
<1>11. CASE PinsReady
  BY <1>11, SMTT(20) DEF PinsReady
<1>12. CASE FirmwareFails \/ SayReady
  BY <1>12, SMTT(20) DEF FirmwareFails, SayReady
<1>13. CASE GoWaited
  BY <1>13, SMTT(20) DEF GoWaited
<1>14. CASE OpenWindow
  BY <1>14, SMTT(20) DEF OpenWindow
<1>15. CASE CloseWindow
  BY <1>15, SMTT(20) DEF CloseWindow
<1>16. CASE Tick
  BY <1>16, SMTT(20) DEF Tick, HostWaits, PollerWaits, FirmwareWaits, Pass
<1>17. CASE UNCHANGED lockstepVars
  BY <1>17, SMTT(20) DEF lockstepVars
<1>18. QED
  BY <1>1, <1>2, <1>3, <1>4, <1>5, <1>6, <1>7, <1>8, <1>9, <1>10, <1>11, <1>12, <1>13, <1>14, <1>15, <1>16, <1>17, Zenon
     DEF LockstepNext, Host, Poller, Firmware

\* The host and the firmware meet at READY and at GO and nowhere else.
LEMMA StagesStep ==
  ASSUME InTime, LockstepIInv, [LockstepNext]_lockstepVars
  PROVE  Stages'
<1> USE Times DEF LockstepIInv, LockstepTypeOK, Ranges, InTime, Timers, PinsDriven, Stages, Race, GoInTime,
         SamplesAreReal, RiseIsNoticed, NoPulse, Needed, Polling, Coming, Lead, host, firmware,
         wires, poller, book
<1>1. CASE Arm
  BY <1>1, SMTT(20) DEF Arm, Fault
<1>2. CASE Relaunch
  BY <1>2, SMTT(20) DEF Relaunch, Fault
<1>3. CASE ResetReturns \/ GraceEnds
  BY <1>3, SMTT(20) DEF ResetReturns, GraceEnds
<1>4. CASE TakeSample
  BY <1>4, SMTT(20) DEF TakeSample
<1>5. CASE NotReady \/ SwitchPhase \/ WindowWaited
  BY <1>5, SMTT(20) DEF NotReady, SwitchPhase, WindowWaited
<1>6. CASE Release
  BY <1>6, SMTT(20) DEF Release, Fault
<1>7. CASE SignalGo
  BY <1>7, SignalGoCases, SMTT(20) DEF Fault
<1>8. CASE Read
  BY <1>8, SMTT(20) DEF Read
<1>9. CASE Observe
  BY <1>9, SMTT(20) DEF Observe, BeginPulse, EndPulse, Rise, Fall
<1>10. CASE DropGo
  BY <1>10, SMTT(20) DEF DropGo, Fault
<1>11. CASE PinsReady
  BY <1>11, SMTT(20) DEF PinsReady
<1>12. CASE FirmwareFails \/ SayReady
  BY <1>12, SMTT(20) DEF FirmwareFails, SayReady
<1>13. CASE GoWaited
  BY <1>13, SMTT(20) DEF GoWaited
<1>14. CASE OpenWindow
  BY <1>14, SMTT(20) DEF OpenWindow
<1>15. CASE CloseWindow
  BY <1>15, SMTT(20) DEF CloseWindow
<1>16. CASE Tick
  BY <1>16, SMTT(20) DEF Tick, HostWaits, PollerWaits, FirmwareWaits, Pass
<1>17. CASE UNCHANGED lockstepVars
  BY <1>17, SMTT(20) DEF lockstepVars
<1>18. QED
  BY <1>1, <1>2, <1>3, <1>4, <1>5, <1>6, <1>7, <1>8, <1>9, <1>10, <1>11, <1>12, <1>13, <1>14, <1>15, <1>16, <1>17, Zenon
     DEF LockstepNext, Host, Poller, Firmware

\* The host's clock and the firmware's lose a tick together.
LEMMA RaceStep ==
  ASSUME InTime, LockstepIInv, [LockstepNext]_lockstepVars
  PROVE  Race'
<1> USE Times DEF LockstepIInv, LockstepTypeOK, Ranges, InTime, Timers, Stages, Race, GoInTime, NoPulse,
         Needed, Polling, Coming, Lead, host, firmware, wires, poller, book
<1>1. CASE Arm
  BY <1>1, SMTT(20) DEF Arm, Fault
<1>2. CASE Relaunch
  BY <1>2, SMTT(20) DEF Relaunch, Fault
<1>3. CASE ResetReturns \/ GraceEnds
  BY <1>3, SMTT(20) DEF ResetReturns, GraceEnds
<1>4. CASE TakeSample
  BY <1>4, SMTT(20) DEF TakeSample
<1>5. CASE NotReady \/ SwitchPhase \/ WindowWaited
  BY <1>5, SMTT(20) DEF NotReady, SwitchPhase, WindowWaited
<1>6. CASE Release
  BY <1>6, SMTT(20) DEF Release, Fault
<1>7. CASE SignalGo
  BY <1>7, SignalGoCases, SMTT(20) DEF Fault
<1>8. CASE Read
  BY <1>8, SMTT(20) DEF Read
<1>9. CASE Observe
  BY <1>9, SMTT(20) DEF Observe, BeginPulse, EndPulse, Rise, Fall
<1>10. CASE DropGo
  BY <1>10, SMTT(20) DEF DropGo, Fault
<1>11. CASE PinsReady
  BY <1>11, SMTT(20) DEF PinsReady
<1>12. CASE FirmwareFails \/ SayReady
  BY <1>12, SMTT(20) DEF FirmwareFails, SayReady
<1>13. CASE GoWaited
  BY <1>13, SMTT(20) DEF GoWaited
<1>14. CASE OpenWindow
  BY <1>14, SMTT(20) DEF OpenWindow
<1>15. CASE CloseWindow
  BY <1>15, SMTT(20) DEF CloseWindow
<1>16. CASE Tick
  BY <1>16, SMTT(20) DEF Tick, HostWaits, PollerWaits, FirmwareWaits, Pass
<1>17. CASE UNCHANGED lockstepVars
  BY <1>17, SMTT(20) DEF lockstepVars
<1>18. QED
  BY <1>1, <1>2, <1>3, <1>4, <1>5, <1>6, <1>7, <1>8, <1>9, <1>10, <1>11, <1>12, <1>13, <1>14, <1>15, <1>16, <1>17, Zenon
     DEF LockstepNext, Host, Poller, Firmware

\* A tick of the READY wait in which READY is up brings a sample of it.
LEMMA GoInTimeStep ==
  ASSUME InTime, LockstepIInv, [LockstepNext]_lockstepVars
  PROVE  GoInTime'
<1> USE Times DEF LockstepIInv, LockstepTypeOK, Ranges, InTime, Timers, PinsDriven, Stages, Race, GoInTime,
         SamplesAreReal, NoPulse, Needed, Polling, Coming, Lead, host, firmware, wires, poller, book
<1>1. CASE Arm
  <2>1. hpc' \in {"reset", "release"} /\ sample' = <<>>
    BY <1>1 DEF Arm
  <2>2. QED
    BY <2>1
<1>2. CASE Relaunch
  BY <1>2, SMTT(20) DEF Relaunch, Fault
<1>3. CASE ResetReturns \/ GraceEnds
  BY <1>3, SMTT(20) DEF ResetReturns, GraceEnds
<1>4. CASE TakeSample
  BY <1>4, SMTT(20) DEF TakeSample
<1>5. CASE NotReady \/ SwitchPhase \/ WindowWaited
  BY <1>5, SMTT(20) DEF NotReady, SwitchPhase, WindowWaited
<1>6. CASE Release
  BY <1>6, SMTT(20) DEF Release, Fault
<1>7. CASE SignalGo
  BY <1>7, SignalGoCases, SMTT(20) DEF Fault
<1>8. CASE Read
  BY <1>8, SMTT(20) DEF Read
<1>9. CASE Observe
  BY <1>9, SMTT(20) DEF Observe, BeginPulse, EndPulse, Rise, Fall
<1>10. CASE DropGo
  BY <1>10, SMTT(20) DEF DropGo, Fault
<1>11. CASE PinsReady
  BY <1>11, SMTT(20) DEF PinsReady
<1>12. CASE FirmwareFails \/ SayReady
  BY <1>12, SMTT(20) DEF FirmwareFails, SayReady
<1>13. CASE GoWaited
  BY <1>13, SMTT(20) DEF GoWaited
<1>14. CASE OpenWindow
  BY <1>14, SMTT(20) DEF OpenWindow
<1>15. CASE CloseWindow
  BY <1>15, SMTT(20) DEF CloseWindow
<1>16. CASE Tick
  BY <1>16, SMTT(20) DEF Tick, HostWaits, PollerWaits, FirmwareWaits, Pass
<1>17. CASE UNCHANGED lockstepVars
  BY <1>17, SMTT(20) DEF lockstepVars
<1>18. QED
  BY <1>1, <1>2, <1>3, <1>4, <1>5, <1>6, <1>7, <1>8, <1>9, <1>10, <1>11, <1>12, <1>13, <1>14, <1>15, <1>16, <1>17, Zenon
     DEF LockstepNext, Host, Poller, Firmware

\* A sample of undefined pins is observed within its tick, before the grace is over.
LEMMA SamplesAreRealStep ==
  ASSUME InTime, LockstepIInv, [LockstepNext]_lockstepVars
  PROVE  SamplesAreReal'
<1> USE Times DEF LockstepIInv, LockstepTypeOK, Ranges, InTime, Timers, PinsDriven, Stages, Race, GoInTime,
         SamplesAreReal, NoPulse, Needed, Polling, Coming, Lead, host, firmware, wires, poller, book
<1>1. CASE Arm
  BY <1>1, SMTT(20) DEF Arm, Fault
<1>2. CASE Relaunch
  BY <1>2, SMTT(20) DEF Relaunch, Fault
<1>3. CASE ResetReturns \/ GraceEnds
  BY <1>3, SMTT(20) DEF ResetReturns, GraceEnds
<1>4. CASE TakeSample
  BY <1>4, SMTT(20) DEF TakeSample
<1>5. CASE NotReady \/ SwitchPhase \/ WindowWaited
  BY <1>5, SMTT(20) DEF NotReady, SwitchPhase, WindowWaited
<1>6. CASE Release
  BY <1>6, SMTT(20) DEF Release, Fault
<1>7. CASE SignalGo
  BY <1>7, SignalGoCases, SMTT(20) DEF Fault
<1>8. CASE Read
  BY <1>8, SMTT(20) DEF Read
<1>9. CASE Observe
  BY <1>9, SMTT(20) DEF Observe, BeginPulse, EndPulse, Rise, Fall
<1>10. CASE DropGo
  BY <1>10, SMTT(20) DEF DropGo, Fault
<1>11. CASE PinsReady
  BY <1>11, SMTT(20) DEF PinsReady
<1>12. CASE FirmwareFails \/ SayReady
  BY <1>12, SMTT(20) DEF FirmwareFails, SayReady
<1>13. CASE GoWaited
  BY <1>13, SMTT(20) DEF GoWaited
<1>14. CASE OpenWindow
  BY <1>14, SMTT(20) DEF OpenWindow
<1>15. CASE CloseWindow
  BY <1>15, SMTT(20) DEF CloseWindow
<1>16. CASE Tick
  BY <1>16, SMTT(20) DEF Tick, HostWaits, PollerWaits, FirmwareWaits, Pass
<1>17. CASE UNCHANGED lockstepVars
  BY <1>17, SMTT(20) DEF lockstepVars
<1>18. QED
  BY <1>1, <1>2, <1>3, <1>4, <1>5, <1>6, <1>7, <1>8, <1>9, <1>10, <1>11, <1>12, <1>13, <1>14, <1>15, <1>16, <1>17, Zenon
     DEF LockstepNext, Host, Poller, Firmware

\* The first sample of the window begins a pulse, and a pulse drops GO.
LEMMA RiseIsNoticedStep ==
  ASSUME InTime, LockstepIInv, [LockstepNext]_lockstepVars
  PROVE  RiseIsNoticed'
<1> USE Times DEF LockstepIInv, LockstepTypeOK, Ranges, InTime, Timers, PinsDriven, Stages, SamplesAreReal,
         RiseIsNoticed, NoPulse, Needed, Polling, Coming, Lead, host, firmware, wires, poller, book
<1>1. CASE Arm
  BY <1>1, SMTT(20) DEF Arm, Fault
<1>2. CASE Relaunch
  BY <1>2, SMTT(20) DEF Relaunch, Fault
<1>3. CASE ResetReturns \/ GraceEnds
  BY <1>3, SMTT(20) DEF ResetReturns, GraceEnds
<1>4. CASE TakeSample
  BY <1>4, SMTT(20) DEF TakeSample
<1>5. CASE NotReady \/ SwitchPhase \/ WindowWaited
  BY <1>5, SMTT(20) DEF NotReady, SwitchPhase, WindowWaited
<1>6. CASE Release
  BY <1>6, SMTT(20) DEF Release, Fault
<1>7. CASE SignalGo
  BY <1>7, SignalGoCases, SMTT(20) DEF Fault
<1>8. CASE Read
  BY <1>8, SMTT(20) DEF Read
<1>9. CASE Observe
  BY <1>9, SMTT(20) DEF Observe, BeginPulse, EndPulse, Rise, Fall
<1>10. CASE DropGo
  BY <1>10, SMTT(20) DEF DropGo, Fault
<1>11. CASE PinsReady
  BY <1>11, SMTT(20) DEF PinsReady
<1>12. CASE FirmwareFails \/ SayReady
  BY <1>12, SMTT(20) DEF FirmwareFails, SayReady
<1>13. CASE GoWaited
  BY <1>13, SMTT(20) DEF GoWaited
<1>14. CASE OpenWindow
  BY <1>14, SMTT(20) DEF OpenWindow
<1>15. CASE CloseWindow
  BY <1>15, SMTT(20) DEF CloseWindow
<1>16. CASE Tick
  BY <1>16, SMTT(20) DEF Tick, HostWaits, PollerWaits, FirmwareWaits, Pass
<1>17. CASE UNCHANGED lockstepVars
  BY <1>17, SMTT(20) DEF lockstepVars
<1>18. QED
  BY <1>1, <1>2, <1>3, <1>4, <1>5, <1>6, <1>7, <1>8, <1>9, <1>10, <1>11, <1>12, <1>13, <1>14, <1>15, <1>16, <1>17, Zenon
     DEF LockstepNext, Host, Poller, Firmware

\* A pulse that began before the window has the window in it or ends in two ticks.
LEMMA StrayIsShortStep ==
  ASSUME InTime, LockstepIInv, [LockstepNext]_lockstepVars
  PROVE  StrayIsShort'
<1> USE Times DEF LockstepIInv, LockstepTypeOK, Ranges, InTime, Timers, PinsDriven, Stages, SamplesAreReal,
         RiseIsNoticed, StrayIsShort, NoPulse, Needed, Polling, Coming, Lead, host, firmware, wires,
         poller, book
<1>1. CASE Arm
  BY <1>1, SMTT(20) DEF Arm, Fault
<1>2. CASE Relaunch
  BY <1>2, SMTT(20) DEF Relaunch, Fault
<1>3. CASE ResetReturns \/ GraceEnds
  BY <1>3, SMTT(20) DEF ResetReturns, GraceEnds
<1>4. CASE TakeSample
  BY <1>4, SMTT(20) DEF TakeSample
<1>5. CASE NotReady \/ SwitchPhase \/ WindowWaited
  BY <1>5, SMTT(20) DEF NotReady, SwitchPhase, WindowWaited
<1>6. CASE Release
  BY <1>6, SMTT(20) DEF Release, Fault
<1>7. CASE SignalGo
  BY <1>7, SignalGoCases, SMTT(20) DEF Fault
<1>8. CASE Read
  BY <1>8, SMTT(20) DEF Read
<1>9. CASE Observe
  <2>. /\ sample # <<>> /\ sample' = <<>> /\ hpc' = hpc /\ fpc' = fpc /\ fleft' = fleft /\ polls' = polls
       /\ prev' = sample[1].gate
    BY <1>9 DEF Observe
  <2>1. CASE phase = "arming" /\ age' = NoPulse /\ UNCHANGED <<pulse, duty, stopped, taken>>
    BY <2>1
  <2>2. CASE phase = "go_signaled" /\ BeginPulse(sample[1])
    BY <2>2, SMTT(60) DEF BeginPulse, Rise
  <2>3. CASE phase = "go_signaled" /\ EndPulse(sample[1])
    BY <2>3, SMTT(60) DEF EndPulse, Fall
  <2>4. CASE /\ phase = "go_signaled" /\ ~Rise(sample[1]) /\ ~Fall(sample[1])
             /\ pulse' = IF sample[1].gate /\ sample[1].of = "window" THEN "window" ELSE pulse
             /\ UNCHANGED <<age, duty, stopped, taken>>
    BY <2>4, SMTT(60) DEF Rise, Fall
  <2>5. QED
    BY <1>9, <2>1, <2>2, <2>3, <2>4, ObserveCases
<1>10. CASE DropGo
  BY <1>10, SMTT(20) DEF DropGo, Fault
<1>11. CASE PinsReady
  BY <1>11, SMTT(20) DEF PinsReady
<1>12. CASE FirmwareFails \/ SayReady
  BY <1>12, SMTT(20) DEF FirmwareFails, SayReady
<1>13. CASE GoWaited
  <2>1. /\ fpc = "waitgo" /\ hpc' = hpc /\ age' = age /\ pulse' = pulse /\ taken' = taken
    BY <1>13 DEF GoWaited
  <2>2. QED
    BY <2>1
<1>14. CASE OpenWindow
  BY <1>14, SMTT(20) DEF OpenWindow
<1>15. CASE CloseWindow
  BY <1>15, SMTT(20) DEF CloseWindow
<1>16. CASE Tick
  BY <1>16, SMTT(20) DEF Tick, HostWaits, PollerWaits, FirmwareWaits, Pass
<1>17. CASE UNCHANGED lockstepVars
  BY <1>17, SMTT(20) DEF lockstepVars
<1>18. QED
  BY <1>1, <1>2, <1>3, <1>4, <1>5, <1>6, <1>7, <1>8, <1>9, <1>10, <1>11, <1>12, <1>13, <1>14, <1>15, <1>16, <1>17, Zenon
     DEF LockstepNext, Host, Poller, Firmware

\* The first full tick of the window takes GO down.
LEMMA GoLowInWindowStep ==
  ASSUME InTime, LockstepIInv, [LockstepNext]_lockstepVars
  PROVE  GoLowInWindow'
<1> USE Times DEF LockstepIInv, LockstepTypeOK, Ranges, GoLowInWindow, Timers, PinsDriven, Stages,
         RiseIsNoticed, NoPulse, Needed, Polling, Coming, Lead, host, firmware, wires, poller, book
<1>1. CASE Arm
  BY <1>1, SMTT(20) DEF Arm, Fault
<1>2. CASE Relaunch
  BY <1>2, SMTT(20) DEF Relaunch, Fault
<1>3. CASE ResetReturns \/ GraceEnds
  BY <1>3, SMTT(20) DEF ResetReturns, GraceEnds
<1>4. CASE TakeSample
  BY <1>4, SMTT(20) DEF TakeSample
<1>5. CASE NotReady \/ SwitchPhase \/ WindowWaited
  BY <1>5, SMTT(20) DEF NotReady, SwitchPhase, WindowWaited
<1>6. CASE Release
  BY <1>6, SMTT(20) DEF Release, Fault
<1>7. CASE SignalGo
  BY <1>7, SignalGoCases, SMTT(20) DEF Fault
<1>8. CASE Read
  BY <1>8, SMTT(20) DEF Read
<1>9. CASE Observe
  BY <1>9, SMTT(20) DEF Observe, BeginPulse, EndPulse, Rise, Fall
<1>10. CASE DropGo
  BY <1>10, SMTT(20) DEF DropGo, Fault
<1>11. CASE PinsReady
  BY <1>11, SMTT(20) DEF PinsReady
<1>12. CASE FirmwareFails \/ SayReady
  BY <1>12, SMTT(20) DEF FirmwareFails, SayReady
<1>13. CASE GoWaited
  BY <1>13, SMTT(20) DEF GoWaited
<1>14. CASE OpenWindow
  BY <1>14, SMTT(20) DEF OpenWindow
<1>15. CASE CloseWindow
  BY <1>15, SMTT(20) DEF CloseWindow
<1>16. CASE Tick
  BY <1>16, SMTT(20) DEF Tick, HostWaits, PollerWaits, FirmwareWaits, Pass
<1>17. CASE UNCHANGED lockstepVars
  BY <1>17, SMTT(20) DEF lockstepVars
<1>18. QED
  BY <1>1, <1>2, <1>3, <1>4, <1>5, <1>6, <1>7, <1>8, <1>9, <1>10, <1>11, <1>12, <1>13, <1>14, <1>15, <1>16, <1>17, Zenon
     DEF LockstepNext, Host, Poller, Firmware

-----------------------------------------------------------------------------
\* In every state that can be reached, when the two sides' times fit each other.
THEOREM LockstepInvariance ==
  ASSUME InTime
  PROVE  LockstepSpec => []LockstepIInv
<1>1. LockstepIInv /\ [LockstepNext]_lockstepVars => LockstepIInv'
  <2> SUFFICES ASSUME LockstepIInv, [LockstepNext]_lockstepVars PROVE LockstepIInv'
    OBVIOUS
  <2>1. Levels /\ InTime
    BY DEF LockstepIInv, LockstepTypeOK
  <2>2. Levels'
    BY <2>1, LevelsStep
  <2>3. QED
    BY <2>1, <2>2, RangesStep, TimersStep, PinsDrivenStep, StagesStep, RaceStep, GoInTimeStep, SamplesAreRealStep,
       RiseIsNoticedStep, StrayIsShortStep, GoLowInWindowStep, Zenon DEF LockstepIInv, LockstepTypeOK
<1>2. QED
  BY InitLockstep, <1>1, PTL DEF LockstepSpec

\* GO is high for the launch it was raised for only, never before READY and not through the window
\* (sync.arm, release_go, _main_base.cc.j2's hpx_sync_wait_go).
THEOREM GoHolds ==
  ASSUME InTime
  PROVE  LockstepSpec => []GoIsSound
<1>1. LockstepIInv => GoIsSound
  <2> SUFFICES ASSUME LockstepIInv PROVE GoIsSound
    OBVIOUS
  <2>1. LockstepTypeOK /\ GoLowInWindow
    BY DEF LockstepIInv
  <2>2. GoAfterReady /\ GoIsForThisLaunch
    BY DEF LockstepIInv, Stages, GoAfterReady, GoIsForThisLaunch, Polling
  <2>3. QED
    BY <2>1, <2>2 DEF GoIsSound
<1>2. QED
  BY LockstepInvariance, <1>1, PTL

\* While the host waits for it, the firmware opens its window on GO alone, and a pulse that ends the
\* capture has that window in it.
THEOREM WindowHolds ==
  ASSUME InTime
  PROVE  LockstepSpec => []WindowIsSound
<1>1. LockstepIInv => WindowIsSound
  BY DEF LockstepIInv, Stages, StrayIsShort, WindowIsSound, WindowOnGo, TakenIsTheWindow
<1>2. QED
  BY LockstepInvariance, <1>1, PTL
=============================================================================
