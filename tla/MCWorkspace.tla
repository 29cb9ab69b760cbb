---------------------------- MODULE MCWorkspace ----------------------------
EXTENDS Workspace

\* A clean may stop part way and so may materializing the module trees.
PartWay == {{"leftovers", "torn"}}
=============================================================================
