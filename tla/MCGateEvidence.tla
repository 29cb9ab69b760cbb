---------------------------- MODULE MCGateEvidence ----------------------------
(***************************************************************************)
(* The captures GateEvidence is checked on: one whose gate stream is cut   *)
(* and loses parts, and one that waits for the firmware's whole            *)
(* transaction.                                                            *)
(***************************************************************************)
EXTENDS GateEvidence

Cut ==
  [requireDone |-> FALSE, minGate |-> 1, planFloor |-> 2, frameSizes |-> {1, 3},
   packetSizes |-> {2}, maxFrames |-> 4, maxLosses |-> 1, maxLag |-> 3, horizon |-> 8]
Transaction7 ==
  [requireDone |-> TRUE, minGate |-> 2, planFloor |-> 2, frameSizes |-> {1},
   packetSizes |-> {1}, maxFrames |-> 7, maxLosses |-> 0, maxLag |-> 1, horizon |-> 7]
CutAndWhole == {Cut, Transaction7}
=============================================================================
