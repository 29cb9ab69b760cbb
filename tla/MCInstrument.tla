---------------------------- MODULE MCInstrument ----------------------------
(***************************************************************************)
(* What a capture has to do with the instrument besides reading it: the    *)
(* vendor's devices, which the users of the process share, and the wires   *)
(* of the lock-step with the target.  The two share no state and a         *)
(* behaviour takes one of them.  A tick of the lock-step is half a second: *)
(* GoWait = 6 is the firmware's 3 s, Grace = 2 the host's 0.5 s.           *)
(***************************************************************************)
EXTENDS DeviceHandle, Lockstep

VARIABLE part

instrument == <<part, vars, lockstepVars>>

InstrumentInit ==
  /\ part \in {"devices", "lockstep"} /\ Init /\ LockstepInit
  /\ part = "lockstep" => /\ device = [u \in Users |-> CHOOSE p \in Paths : TRUE]
                          /\ \A p \in Paths : ~foreign[p]

InstrumentNext ==
  \/ part = "devices" /\ Next /\ UNCHANGED <<part, lockstepVars>>
  \/ part = "lockstep" /\ LockstepNext /\ UNCHANGED <<part, vars>>

InstrumentFairness ==
  /\ \A u \in Users :
       /\ WF_vars(part = "devices" /\ RunsOn(u))
       /\ SF_vars(part = "devices" /\ LockForOpen(u))
       /\ SF_vars(part = "devices" /\ LockForClose(u))
  /\ WF_lockstepVars(part = "lockstep" /\ Host)
  /\ WF_lockstepVars(part = "lockstep" /\ Poller)
  /\ WF_lockstepVars(part = "lockstep" /\ Tick)
  /\ WF_lockstepVars(part = "lockstep" /\ FirmwareRuns)
InstrumentSpec == InstrumentInit /\ [][InstrumentNext]_instrument /\ InstrumentFairness
=============================================================================
