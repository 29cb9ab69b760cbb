----------------------------- MODULE SupplyRelay -----------------------------
(***************************************************************************)
(* The Joulescope operations that are not gated captures: a plain capture, *)
(* a power cycle and the passthrough, each one after another on one thread  *)
(* over one driver object.  They open the device, publish to the           *)
(* instrument and must leave it as they found it: the handle given back,   *)
(* the statistics off, and the relay that feeds the target closed.         *)
(*                                                                         *)
(* Every vendor call may raise, with its effect or without, and the user   *)
(* may interrupt (KeyboardInterrupt) every step: before its call has its    *)
(* effect, or after it and before the next step begins.  The handlers that *)
(* swallow an error are for Exception; an interrupt passes them by.        *)
(***************************************************************************)
EXTENDS Integers

CONSTANTS
  MaxOps,       \* bound: operations one after another
  MaxFaults     \* bound: calls that raise and steps that are interrupted

Operations == {"capture", "off", "enable"}
ASSUME RelayAssumption == MaxOps \in Nat /\ MaxFaults \in Nat

VARIABLES
  pc,        \* what the thread does next
  op,        \* the operation under way, or the last one
  handles,   \* references to the device taken and not given back
  passing,   \* _pt_device_path: "no" | "kept" | "given", set when its reference is given back already
  lost,      \* references that an interrupted step took, or kept, for nobody
  relay,     \* the target's supply: "closed" | "open"
  stats,     \* what this capture set up and did not undo: subscription, statistics control
  struck,    \* the steps of this operation that raised or were interrupted
  ops, faults

Steps == {"capture", "subscribe", "statsOn", "measure", "statsOff", "unsubscribe",
          "off", "offwait", "restore", "on", "settle", "enable", "finally"}
Hows == {"raised", "interrupted"}
supplyVars == <<pc, op, handles, passing, lost, relay, stats, struck, ops, faults>>
books == <<op, handles, passing, lost, ops>>

SupplyInit ==
  /\ pc = "idle" /\ op = "none" /\ handles = 0 /\ passing = "no" /\ lost = 0
  /\ relay \in {"closed", "open"}
  /\ stats = {} /\ struck = {} /\ ops = 0 /\ faults = 0
-----------------------------------------------------------------------------
\* What a step of the thread may meet: no fault, a call that raises, an interrupt.
Fine(to) == pc' = to /\ UNCHANGED <<struck, faults>>
Fault == faults < MaxFaults /\ faults' = faults + 1
Strikes(how, to) == Fault /\ pc' = to /\ struck' = struck \cup {<<pc, how>>}
VendorRaises(to) == Strikes("raised", to)
Interrupted(to) == Strikes("interrupted", to)

\* A call that is cut short may have had its effect.
Relay(to) == relay' = to
MaybeRelay(to) == relay' \in {relay, to}
MaybeStats(to) == stats' \in {stats, to}

\* _open_device at the head of an operation.  It fails with nothing held; interrupted
\* after it has counted the reference and before the operation's try, it leaves that behind.
BeginOp(o) ==
  /\ pc = "idle" /\ ops < MaxOps
  /\ ops' = ops + 1 /\ op' = o /\ stats' = {} /\ struck' = {}
  /\ \/ pc' = o /\ handles' = handles + 1 /\ UNCHANGED <<lost, faults>>
     \/ Fault /\ pc' = "idle" /\ UNCHANGED <<handles, lost>>
     \/ Fault /\ pc' = "idle" /\ handles' = handles + 1 /\ lost' = lost + 1
  /\ UNCHANGED <<passing, relay>>

\* _close_device in the operation's finally: it raises nothing, and interrupted before it
\* counts the reference down it leaves that behind.
End ==
  /\ pc = "finally"
  /\ \/ (Fine("idle") \/ Interrupted("idle")) /\ handles' = handles - 1 /\ UNCHANGED lost
     \/ Interrupted("idle") /\ lost' = lost + 1 /\ UNCHANGED handles
  /\ UNCHANGED <<op, passing, relay, stats, ops>>
-----------------------------------------------------------------------------
\* capture: the range is set to auto, an error of that swallowed.
CaptureAuto ==
  /\ pc = "capture"
  /\ \/ Fine("subscribe") /\ Relay("closed")
     \/ (VendorRaises("subscribe") \/ Interrupted("finally")) /\ MaybeRelay("closed")
  /\ UNCHANGED <<books, stats>>

\* The subscribe stands before the inner try: nothing undoes it when it is cut short.
Subscribe ==
  /\ pc = "subscribe"
  /\ \/ Fine("statsOn") /\ stats' = {"topic"}
     \/ (VendorRaises("finally") \/ Interrupted("finally")) /\ MaybeStats({"topic"})
  /\ UNCHANGED <<books, relay>>

\* A JS110 has no statistics control to switch on.
StatsOn ==
  /\ pc = "statsOn"
  /\ Fine("measure") \/ VendorRaises("statsOff") \/ Interrupted("statsOff")
  /\ MaybeStats(stats \cup {"control"})
  /\ UNCHANGED <<books, relay>>

\* time.sleep(duration_s)
Measure ==
  /\ pc = "measure"
  /\ Fine("statsOff") \/ Interrupted("statsOff")
  /\ UNCHANGED <<books, relay, stats>>

\* Mutant: an error of the first call skips the second.
StatsOff_Together ==
  /\ pc = "statsOff"
  /\ \/ Fine("unsubscribe") /\ stats' = stats \ {"control"}
     \/ (VendorRaises("finally") \/ Interrupted("finally")) /\ MaybeStats(stats \ {"control"})
  /\ UNCHANGED <<books, relay>>

\* The inner finally: an error of the first call is swallowed, and the second is made all
\* the same; an interrupt leaves the finally there.
StatsOff ==
  /\ pc = "statsOff"
  /\ \/ Fine("unsubscribe") /\ stats' = stats \ {"control"}
     \/ (VendorRaises("unsubscribe") \/ Interrupted("finally")) /\ MaybeStats(stats \ {"control"})
  /\ UNCHANGED <<books, relay>>

Unsubscribe ==
  /\ pc = "unsubscribe"
  /\ \/ Fine("finally") /\ stats' = stats \ {"topic"}
     \/ (VendorRaises("finally") \/ Interrupted("finally")) /\ MaybeStats(stats \ {"topic"})
  /\ UNCHANGED <<books, relay>>
-----------------------------------------------------------------------------
\* power_cycle: off, wait, on.  The off window is guarded by a handler for BaseException
\* that puts the range back and raises again.
PowerOff ==
  /\ pc = "off"
  /\ \/ Fine("offwait") /\ Relay("open")
     \/ (VendorRaises("restore") \/ Interrupted("restore")) /\ MaybeRelay("open")
  /\ UNCHANGED <<books, stats>>

\* Mutant: the handler is for errors, an interrupted wait passes it by.
OffWait_Unguarded ==
  /\ pc = "offwait"
  /\ Fine("on") \/ Interrupted("finally")
  /\ UNCHANGED <<books, relay, stats>>

OffWait ==
  /\ pc = "offwait"
  /\ Fine("on") \/ Interrupted("restore")
  /\ UNCHANGED <<books, relay, stats>>

\* The handler's own call: an error is logged and the first exception goes on; a second
\* interrupt takes its place.
RestoreSupply ==
  /\ pc = "restore"
  /\ \/ Fine("finally") /\ Relay("closed")
     \/ (VendorRaises("finally") \/ Interrupted("finally")) /\ MaybeRelay("closed")
  /\ UNCHANGED <<books, stats>>

\* The regular way on, after the guarded block.
PowerOn ==
  /\ pc = "on"
  /\ \/ Fine("settle") /\ Relay("closed")
     \/ (VendorRaises("finally") \/ Interrupted("finally")) /\ MaybeRelay("closed")
  /\ UNCHANGED <<books, stats>>

Settle ==
  /\ pc = "settle"
  /\ Fine("finally") \/ Interrupted("finally")
  /\ UNCHANGED <<books, relay, stats>>
-----------------------------------------------------------------------------
\* enable_passthrough keeps its reference on success and gives it back on an error; an
\* interrupt is not an Exception and leaves with the reference, unless the path is set by then.
Enable ==
  /\ pc = "enable"
  /\ \/ (Fine("idle") \/ Interrupted("idle")) /\ Relay("closed") /\ passing' = "kept"
        /\ UNCHANGED lost
     \/ VendorRaises("finally") /\ MaybeRelay("closed") /\ UNCHANGED <<passing, lost>>
     \/ Interrupted("idle") /\ MaybeRelay("closed") /\ lost' = lost + 1 /\ UNCHANGED passing
  /\ UNCHANGED <<op, handles, stats, ops>>

\* A reference given back twice is somebody else's, if there is one.
OneLess(n) == IF n > 0 THEN n - 1 ELSE n
GiveBack ==
  /\ handles' = OneLess(handles)
  /\ lost' = IF passing = "given" THEN OneLess(lost) ELSE lost

\* Mutant: the path is forgotten, the reference is not given back.
Disable_Forgets ==
  /\ pc = "idle" /\ passing # "no" /\ passing' = "no"
  /\ UNCHANGED <<pc, op, handles, lost, relay, stats, struck, ops, faults>>

\* disable_passthrough gives the reference back and then forgets the path: interrupted
\* between the two, the next call gives it back again.  The relay stays latched.
Disable ==
  /\ pc = "idle" /\ passing # "no"
  /\ \/ passing' = "no" /\ GiveBack /\ UNCHANGED faults
     \/ Fault /\ passing' = "given" /\ GiveBack
     \/ Fault /\ UNCHANGED <<passing, handles, lost>>
  /\ UNCHANGED <<pc, op, relay, stats, struck, ops>>

\* The passthrough is enabled once before it is disabled, as ensure_target_powered does.
SupplyNext ==
  \/ BeginOp("capture") \/ BeginOp("off") \/ (passing # "kept" /\ BeginOp("enable")) \/ End
  \/ CaptureAuto \/ Subscribe \/ StatsOn \/ Measure \/ StatsOff \/ Unsubscribe
  \/ PowerOff \/ OffWait \/ RestoreSupply \/ PowerOn \/ Settle
  \/ Enable \/ Disable

SupplySpec == SupplyInit /\ [][SupplyNext]_supplyVars
-----------------------------------------------------------------------------
SupplyTypes ==
  /\ op \in Operations \cup {"none"} /\ passing \in {"no", "kept", "given"}
  /\ relay \in {"closed", "open"}
  /\ stats \subseteq {"topic", "control"} /\ struck \subseteq Steps \X Hows
  /\ lost \in Nat /\ ops \in 0 .. MaxOps /\ faults \in 0 .. MaxFaults
HandlesAccounted ==
  handles = lost + (IF passing = "kept" THEN 1 ELSE 0) + (IF pc = "idle" THEN 0 ELSE 1)

\* Shape of the state, with the account of the handles: the device is held by an operation
\* under way, by the passthrough, or for nobody after an interrupt.
SupplyTypeOK == SupplyTypes /\ HandlesAccounted

Struck(step) == \E how \in Hows : <<step, how>> \in struck

\* A capture, however it ended, has undone what it set up, except where its own clean-up
\* was hit (driver.capture's inner finally): the control stays on only if the call that
\* switches it off was cut short, the subscription only if subscribing or unsubscribing
\* was, or an interrupt left the finally before it came to it.  No error of another call,
\* the one that switches the control off included, and no interrupt while it measures
\* leaves either behind.
StatsUndone ==
  pc = "idle" =>
    /\ "control" \in stats => Struck("statsOff")
    /\ "topic" \in stats =>
         Struck("subscribe") \/ Struck("unsubscribe") \/ <<"statsOff", "interrupted">> \in struck

\* power_cycle's promise, made because an early exit once left the target unpowered until
\* the next run: one mishap, an interrupt included, never ends a power cycle with the relay
\* open, unless it hits the call that ends the off window.  Otherwise it takes two: one in
\* the off window and one in the call that restores the supply.
SupplyRestored ==
  pc = "finally" /\ op = "off" /\ relay = "open" =>
    Struck("on") \/ (Struck("restore") /\ (Struck("off") \/ Struck("offwait")))

\* An operation leaves neither statistics it set up nor the target unsupplied.
SupplyIsSound == StatsUndone /\ SupplyRestored

\* Why: what an operation has set up and not undone is known at each of its steps ...
OpAt ==
  /\ pc \in {"capture", "subscribe", "statsOn", "measure", "statsOff", "unsubscribe"} => op = "capture"
  /\ pc \in {"off", "offwait", "restore", "on", "settle"} => op = "off"
  /\ pc = "enable" => op = "enable" /\ passing # "kept"
SetUpAt ==
  /\ pc \in {"capture", "subscribe", "off", "offwait", "restore", "on", "settle", "enable"} => stats = {}
  /\ pc \in {"unsubscribe", "finally", "idle"} /\ "control" \in stats => Struck("statsOff")
  /\ pc \in {"finally", "idle"} /\ "topic" \in stats =>
       Struck("subscribe") \/ Struck("unsubscribe") \/ <<"statsOff", "interrupted">> \in struck
\* ... and the regular way out of a power cycle has closed the relay.
SuppliedAt ==
  /\ pc = "restore" => Struck("off") \/ Struck("offwait")
  /\ pc = "settle" => relay = "closed"
  /\ SupplyRestored

SupplyIInv == SupplyTypeOK /\ pc \in Steps \cup {"idle"} /\ OpAt /\ SetUpAt /\ SuppliedAt
=============================================================================
