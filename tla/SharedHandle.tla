---------------------------- MODULE SharedHandle ----------------------------
(***************************************************************************)
(* What the shared Joulescope handle promises its users: a device is open  *)
(* at least as long as somebody holds it, and the vendor's open and close  *)
(* calls are made only when nobody does.                                   *)
(***************************************************************************)
CONSTANTS Users, Paths

VARIABLES
  holders,  \* holders[p]: the users that hold device p
  open      \* open[p]: the vendor handle of p is open

vars == <<holders, open>>

Init == holders = [p \in Paths |-> {}] /\ open = [p \in Paths |-> FALSE]

\* The vendor handle changes only while nobody holds the device.
Change(p) ==
  /\ holders[p] = {}
  /\ \E now \in BOOLEAN : open' = [open EXCEPT ![p] = now]
  /\ UNCHANGED holders

Take(u, p) ==
  /\ open[p] /\ u \notin holders[p]
  /\ holders' = [holders EXCEPT ![p] = @ \cup {u}]
  /\ UNCHANGED open

GiveBack(u, p) ==
  /\ u \in holders[p]
  /\ holders' = [holders EXCEPT ![p] = @ \ {u}]
  /\ UNCHANGED open

Next == \E p \in Paths : Change(p) \/ \E u \in Users : Take(u, p) \/ GiveBack(u, p)

SharedSpec == Init /\ [][Next]_vars
=============================================================================
