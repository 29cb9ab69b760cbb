---------------------------- MODULE DeviceHandle ----------------------------
(***************************************************************************)
(* _open_device and _close_device: one vendor handle per Joulescope, shared *)
(* by every user in the process through a reference count under one lock.  *)
(*                                                                         *)
(* A user is one owner of a handle: a capture, a power cycle, a passthrough *)
(* or a lock-step controller; each opens one device and gives it back once. *)
(* The lock is process-wide: it is held across the vendor's open, retries   *)
(* included, and across its close.  Enumeration and the family check come  *)
(* before the lock and change nothing.                                     *)
(***************************************************************************)
EXTENDS Integers, FiniteSets

CONSTANTS
  Users,        \* owners of a handle
  Paths,        \* devices
  MaxRetries,   \* _OPEN_RETRY_TIMEOUT_S / _OPEN_RETRY_INTERVAL_S
  Nobody        \* the lock is free

ASSUME HandleAssumption ==
  IsFiniteSet(Users) /\ MaxRetries \in Nat /\ Nobody \notin Users

VARIABLES
  pc,        \* pc[u]: where a user is in its open or its close
  device,    \* device[u]: the device it asks for or holds
  lock,      \* _device_open_lock: its owner, or Nobody
  refcounts, \* _open_refcounts
  retries,   \* retries[u]: busy answers so far to the open under way
  vendor,    \* vendor[p]: this process has the device open
  foreign    \* foreign[p]: another process has it open

vars == <<pc, device, lock, refcounts, retries, vendor, foreign>>

Init ==
  /\ pc = [u \in Users |-> "idle"] /\ device \in [Users -> Paths]
  /\ lock = Nobody /\ refcounts = [p \in Paths |-> 0]
  /\ retries = [u \in Users |-> 0]
  /\ vendor = [p \in Paths |-> FALSE] /\ foreign \in [Paths -> BOOLEAN]
-----------------------------------------------------------------------------
Goto(u, from, to) == pc[u] = from /\ pc' = [pc EXCEPT ![u] = to]

\* _open_device
AskOpen(u, p) ==
  /\ Goto(u, "idle", "ask") /\ device' = [device EXCEPT ![u] = p]
  /\ UNCHANGED <<lock, refcounts, retries, vendor, foreign>>

LockForOpen(u) ==
  /\ lock = Nobody /\ lock' = u
  /\ Goto(u, "ask", "open")
  /\ retries' = [retries EXCEPT ![u] = 0]
  /\ UNCHANGED <<device, refcounts, vendor, foreign>>

\* The handle is open already: count and return.
Reuse(u) ==
  /\ refcounts[device[u]] > 0
  /\ Goto(u, "open", "held") /\ lock' = Nobody
  /\ refcounts' = [refcounts EXCEPT ![device[u]] = @ + 1]
  /\ UNCHANGED <<device, retries, vendor, foreign>>

\* Mutant: the lock is given up between the vendor's open and the count.
VendorOpen_Unlocks(u) ==
  /\ refcounts[device[u]] = 0 /\ ~foreign[device[u]]
  /\ Goto(u, "open", "count") /\ lock' = Nobody
  /\ vendor' = [vendor EXCEPT ![device[u]] = TRUE]
  /\ UNCHANGED <<device, refcounts, retries, foreign>>

VendorOpen(u) ==
  /\ refcounts[device[u]] = 0 /\ ~foreign[device[u]]
  /\ Goto(u, "open", "count")
  /\ vendor' = [vendor EXCEPT ![device[u]] = TRUE]
  /\ UNCHANGED <<device, lock, refcounts, retries, foreign>>

CountOpen(u) ==
  /\ Goto(u, "count", "held") /\ lock' = Nobody
  /\ refcounts' = [refcounts EXCEPT ![device[u]] = 1]
  /\ UNCHANGED <<device, retries, vendor, foreign>>

\* Mutant: the deadline is set anew at each attempt.
Busy_NewDeadline(u) ==
  /\ refcounts[device[u]] = 0 /\ foreign[device[u]] /\ pc[u] = "open"
  /\ retries' = [retries EXCEPT ![u] = 1 - @]
  /\ UNCHANGED <<pc, device, lock, refcounts, vendor, foreign>>

\* Another process holds the device: sleep and try again, the lock kept.
Busy(u) ==
  /\ refcounts[device[u]] = 0 /\ foreign[device[u]] /\ pc[u] = "open"
  /\ retries[u] < MaxRetries
  /\ retries' = [retries EXCEPT ![u] = @ + 1]
  /\ UNCHANGED <<pc, device, lock, refcounts, vendor, foreign>>

\* Still busy past the deadline, or any other error: PowerError.
OpenFails(u) ==
  /\ refcounts[device[u]] = 0
  /\ Goto(u, "open", "idle") /\ lock' = Nobody
  /\ UNCHANGED <<device, refcounts, retries, vendor, foreign>>

\* _close_device
AskClose(u) ==
  /\ Goto(u, "held", "giveback")
  /\ UNCHANGED <<device, lock, refcounts, retries, vendor, foreign>>

LockForClose(u) ==
  /\ lock = Nobody /\ lock' = u
  /\ Goto(u, "giveback", "close")
  /\ UNCHANGED <<device, refcounts, retries, vendor, foreign>>

\* Mutant: the handle is closed although another user is left.
Uncount_ClosesAlways(u) ==
  /\ Goto(u, "close", "vendorclose")
  /\ refcounts' = [refcounts EXCEPT ![device[u]] = @ - 1]
  /\ UNCHANGED <<device, lock, retries, vendor, foreign>>

\* Mutant: the vendor's close is made after the lock is given up.
Uncount_Unlocks(u) ==
  /\ refcounts' = [refcounts EXCEPT ![device[u]] = @ - 1]
  /\ lock' = Nobody
  /\ Goto(u, "close", IF refcounts[device[u]] > 1 THEN "idle" ELSE "vendorclose")
  /\ UNCHANGED <<device, retries, vendor, foreign>>

\* Others hold the device: only the count goes down.  Else the entry is dropped.
Uncount(u) ==
  /\ refcounts' = [refcounts EXCEPT ![device[u]] = @ - 1]
  /\ IF refcounts[device[u]] > 1
     THEN Goto(u, "close", "idle") /\ lock' = Nobody
     ELSE Goto(u, "close", "vendorclose") /\ UNCHANGED lock
  /\ UNCHANGED <<device, retries, vendor, foreign>>

\* drv.close; an error is swallowed and the device may stay open.
VendorClose(u) ==
  /\ Goto(u, "vendorclose", "idle") /\ lock' = Nobody
  /\ \E stuck \in BOOLEAN : vendor' = [vendor EXCEPT ![device[u]] = stuck]
  /\ UNCHANGED <<device, refcounts, retries, foreign>>

\* Another process opens or closes the device; never one this process has open.
Foreign(p) ==
  /\ ~vendor[p]
  /\ foreign' = [foreign EXCEPT ![p] = ~@]
  /\ UNCHANGED <<pc, device, lock, refcounts, retries, vendor>>

Opening(u) ==
  \/ LockForOpen(u) \/ Reuse(u) \/ VendorOpen(u) \/ CountOpen(u) \/ Busy(u) \/ OpenFails(u)
Closing(u) == LockForClose(u) \/ Uncount(u) \/ VendorClose(u)

Next ==
  \/ \E u \in Users : Opening(u) \/ Closing(u) \/ AskClose(u) \/ \E p \in Paths : AskOpen(u, p)
  \/ \E p \in Paths : Foreign(p)

Spec == Init /\ [][Next]_vars

\* A thread inside _open_device or _close_device runs on; the lock is given to a waiter
\* in the end.  Nobody has to ask, and the deadline of a busy open passes.
RunsOn(u) ==
  \/ Reuse(u) \/ VendorOpen(u) \/ CountOpen(u) \/ Busy(u)
  \/ (retries[u] = MaxRetries /\ OpenFails(u))
  \/ Uncount(u) \/ VendorClose(u)
LiveSpec ==
  /\ Spec
  /\ \A u \in Users :
       WF_vars(RunsOn(u)) /\ SF_vars(LockForOpen(u)) /\ SF_vars(LockForClose(u))
-----------------------------------------------------------------------------
\* The users a device's count stands for: those that hold it or have not yet been
\* taken off it again.
Counted(p) == {u \in Users : device[u] = p /\ pc[u] \in {"held", "giveback", "close"}}
Inside == {"open", "count", "close", "vendorclose"}

\* Shape of the state; the count of a device is the number of its users, and only the
\* owner of the lock is inside.
TypeOK ==
  /\ pc \in [Users -> Inside \cup {"idle", "ask", "held", "giveback"}]
  /\ device \in [Users -> Paths]
  /\ lock \in Users \cup {Nobody}
  /\ refcounts \in [Paths -> Nat]
  /\ retries \in [Users -> 0 .. MaxRetries]
  /\ vendor \in [Paths -> BOOLEAN] /\ foreign \in [Paths -> BOOLEAN]

CountIsUsers == \A p \in Paths : refcounts[p] = Cardinality(Counted(p))
LockIsOwned == \A u \in Users : pc[u] \in Inside <=> lock = u

\* Whoever holds a device has it open: no other user's close, failed open or late count
\* takes the handle away (_open_refcounts, device.py).
OpenWhileHeld ==
  \A u \in Users : pc[u] \in {"count", "held", "giveback", "close"} => vendor[device[u]]

\* The vendor's open is called only on a device this process does not hold, its close
\* only once the last user is gone.
VendorCallsAtTheEnds ==
  \A u \in Users : pc[u] \in {"count", "vendorclose"} => Counted(device[u]) = {}

IInv == TypeOK /\ CountIsUsers /\ LockIsOwned /\ OpenWhileHeld /\ VendorCallsAtTheEnds

\* The users' view: who holds what.
Shared == INSTANCE SharedHandle WITH
  holders <- [p \in Paths |-> Counted(p)], open <- vendor

\* The counted handle implements the shared one.
SharedSpec == Shared!SharedSpec

\* An open returns, with or without the device, although another process keeps it: the
\* lock is held for the retries of one open only.
OpenReturns == \A u \in Users : pc[u] = "ask" ~> pc[u] \in {"held", "idle"}
=============================================================================
