SPECIFICATION SwitchSpec
CONSTANTS
  btc = btc
  eth = eth
  h1 = h1
  Torn = Torn
  policy = "Block"
  NumFeeds <- const_NumFeeds
  Catalog <- const_Catalog
  FirstSymbol <- const_FirstSymbol
  Handlers <- const_Handlers
  OneAtATime <- const_OneAtATime
  MaxRequests <- const_MaxRequests
INVARIANTS
  FeedsFollow
  SocketsMatchFeeds
PROPERTY
  SwitchTakesEffect
CHECK_DEADLOCK FALSE
