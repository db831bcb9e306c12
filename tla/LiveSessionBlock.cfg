SPECIFICATION Spec
CONSTANTS
  btc = btc
  eth = eth
  h1 = h1
  Torn = Torn
  policy = "Block"
  NumFeeds <- const_NumFeeds
  Catalog <- const_Catalog
  FirstSymbol <- const_FirstSymbol
  Handlers <- const_Handlers
  OneAtATime <- const_OneAtATime
  MaxRequests <- const_MaxRequests
  Capacity <- const_Capacity
  TapeRows <- const_TapeRows
  MaxOps <- const_MaxOps
  MaxMsgs <- const_MaxMsgs
  MaxOverrun <- const_MaxOverrun
PROPERTY
  ShutsDown
CHECK_DEADLOCK FALSE
