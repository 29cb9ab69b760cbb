--------------------------- MODULE MCGatedCapture ---------------------------
EXTENDS GatedCapture

NoStreams == <<>>
GateStream == <<"gate">>
GateAndState == <<"gate", "state">>
=============================================================================
