----------------------------- MODULE MCPowerRun -----------------------------
(***************************************************************************)
(* Instances of PowerRun.  The on-device monitor measures only for a       *)
(* dedicated binary and is required exactly in internal mode, where        *)
(* nothing resets the target; the ways to a count are taken once each.     *)
(***************************************************************************)
EXTENDS PowerRun

MCCases ==
  {c \in [internal : BOOLEAN, dedicated : BOOLEAN, busy : BOOLEAN, want : {0, 1}, ref : BOOLEAN,
          repeats : BOOLEAN, reset : {"none", "debug", "swpoi", "power_cycle"},
          monitor : {"none", "bystander", "required"}] :
     /\ c.internal = (c.monitor = "required")
     /\ c.monitor # "none" => c.dedicated
     /\ c.internal => c.reset = "none"
     /\ c.busy => c.reset = "none" /\ ~c.ref
     /\ c.want = 1 => c.reset = "none" /\ ~c.ref}
=============================================================================
