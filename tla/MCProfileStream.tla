-------------------------- MODULE MCProfileStream --------------------------
(***************************************************************************)
(* Instances of ProfileStream: each transport, windows shorter and longer  *)
(* than the inactivity bound, with and without an estimate, and plans of   *)
(* two passes, in which a lost line can hide.                              *)
(***************************************************************************)
EXTENDS ProfileStream

Case(kind, passes, iterations, layers, probe, power, window, est, bound) ==
  [kind |-> kind, passes |-> passes, iterations |-> iterations, layers |-> layers,
   probe |-> probe, power |-> power, window |-> window, est |-> est, ceiling |-> bound]

MCCases ==
  {Case("uart", 2, 2, 2, FALSE, FALSE, 0, TRUE, Unbounded)}
  \cup {Case(kind, 2, 1, 2, FALSE, FALSE, 0, TRUE, Unbounded) : kind \in {"rtt", "uart", "usb"}}
  \cup {Case(kind, 1, 1, 1, TRUE, power, window, est, bound) :
          kind \in {"rtt", "swo"}, power \in BOOLEAN, window \in {1, 3}, est \in BOOLEAN,
          bound \in {3, Unbounded}}
=============================================================================
