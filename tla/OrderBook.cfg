SPECIFICATION PubSpec
CONSTANTS
  r1 = r1
  r2 = r2
  r3 = r3
  min_price_ticks <- const_min_price_ticks
  max_price_ticks <- const_max_price_ticks
  tick <- const_tick
  Ref <- const_Ref
  Prices <- const_Prices
  FeedSide <- const_FeedSide
  Sizes <- const_Sizes
  pool_chunk <- const_pool_chunk
INVARIANTS
  ListsSound
  PoolPartitioned
  MatchesReference
  TopPublished
SYMMETRY RefSymmetry
