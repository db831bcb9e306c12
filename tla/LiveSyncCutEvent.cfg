SPECIFICATION Spec
CONSTANTS
  Keys <- const_Keys
  NoKey <- const_NoKey
  Capacity <- const_Capacity
  MaxId <- const_MaxId
  Logs <- const_Logs
  MaxWidth <- const_MaxWidth
  MaxLag <- const_MaxLag
  MaxFaults <- const_MaxFaults
INVARIANT StreamingBookExact
CHECK_DEADLOCK FALSE
