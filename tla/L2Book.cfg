SPECIFICATION Spec
CONSTANTS
  min_price_ticks <- const_min_price_ticks
  max_price_ticks <- const_max_price_ticks
  tick <- const_tick
  QuoteUnit <- const_QuoteUnit
  Quotes <- const_Quotes
  SizeUnit <- const_SizeUnit
  Quantities <- const_Quantities
  MaxSize <- const_MaxSize
INVARIANTS
  BestExact
  LevelsConsistent
  MirrorsFeed
  DepthExact
