\* Two products, richer books, no bot.
SPECIFICATION Spec
CONSTANTS
  btc = btc
  eth = eth
  coinbase = coinbase
  None = None
  Products = {btc, eth}
  Sources = {coinbase}
  Prices = {1, 2, 3}
  Sizes = {1}
  CounterMax = 1
  StaleAfter = 0
  Lookback = 2
  ThresholdBps = 5
  OrderQuantity = 1
  MaxOrderNotional = 10
  MaxAbsolutePosition = 1
  PaperBotEnabled = FALSE
  Snapshots <- FeedSnapshots
  Deltas <- FeedDeltas
  MaxSequence = 1
  MaxTime = 1
  MaxFills = 0
SYMMETRY TwoProducts
INVARIANTS
  ValidBookIsSound
  FeaturesTrackBook
PROPERTIES
  HardInvalidLatched
