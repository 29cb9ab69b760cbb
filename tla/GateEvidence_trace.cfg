SPECIFICATION EvidenceSpec
CONSTANT Setups <- CutAndWhole
INVARIANTS EvidenceIsSound SelectionIsSound CompletionIsSound
CHECK_DEADLOCK FALSE
