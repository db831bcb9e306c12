SPECIFICATION FairSpec
CONSTANTS
  Capacity <- const_Capacity
  MaxItems <- const_MaxItems
INVARIANTS
  NoDataRace
  FifoDelivery
  ExactAccounting
PROPERTIES
  ImplementsFifo
  EventuallyDelivered
