SPECIFICATION FairSpec
CONSTANTS
  Capacity <- const_Capacity
  reorder_capacity <- const_reorder_capacity
  NumFrames <- const_NumFrames
  MaxBad <- const_MaxBad
  MaxDistance <- const_MaxDistance
INVARIANTS
  NothingLeftBehind
  CleanCountersMeanExactBook
  GapRecoveryBoundary
  LossIsVisible
PROPERTIES
  ImplementsBookThread
  Returns
