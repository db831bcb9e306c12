SPECIFICATION FairSpec
CONSTANTS
  Keys <- const_Keys
  NoKey <- const_NoKey
  Capacity <- const_Capacity
  MaxId <- const_MaxId
  Logs <- const_Logs
  MaxWidth <- const_MaxWidth
  MaxLag <- const_MaxLag
  MaxFaults <- const_MaxFaults
INVARIANTS
  BookTracksExchange
  GapsMeanLoss
PROPERTIES
  NeverRewinds
  CallbackReturns
CHECK_DEADLOCK FALSE
