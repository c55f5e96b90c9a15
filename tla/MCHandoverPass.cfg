SPECIFICATION LiveSpec
CONSTANTS
  MaxRef = 2
  MaxNet = 1
  Quiet = TRUE
INVARIANTS TypeOK OneOwner OneEntry
PROPERTIES OwnedCall ClearingEnds InboundEnds
CHECK_DEADLOCK FALSE
