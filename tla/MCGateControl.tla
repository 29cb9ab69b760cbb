--------------------------- MODULE MCGateControl ---------------------------
EXTENDS GateControl
=============================================================================
