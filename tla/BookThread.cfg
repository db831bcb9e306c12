SPECIFICATION Spec
CONSTANTS
  Event <- const_Event
  start_seq <- const_start_seq
  reorder_capacity <- const_reorder_capacity
  MaxSeq <- const_MaxSeq
  MaxMsgs <- const_MaxMsgs
CHECK_DEADLOCK FALSE
INVARIANTS
  BookContiguous
  AppliedOnceInOrder
  StaleIffHole
  GapsTimedOnce
PROPERTY SkipsOnlyOnReload
