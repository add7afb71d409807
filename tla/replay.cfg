\* Any number of runs on one journal beside its replay; queue lag of up to two
\* ticks, and numbers enough for a run to catch up with those of earlier ones.
SPECIFICATION ReplaySpec
CONSTANTS
  btc = btc
  eth = eth
  coinbase = coinbase
  None = None
  Products = {btc}
  Sources = {coinbase}
  Prices = {1, 2, 3}
  Sizes = {1}
  CounterMax = 0
  StaleAfter = 1
  Lookback = 2
  ThresholdBps = 5
  OrderQuantity = 1
  MaxOrderNotional = 10
  MaxAbsolutePosition = 1
  PaperBotEnabled = FALSE
  Snapshots <- ReplaySnapshots
  Deltas <- ReplayDeltas
  MaxSequence = 2
  MaxTime = 2
  MaxFills = 0
INVARIANTS
  ReplayRebuildsLiveBooks
PROPERTIES
  StaleNoticed
