\* Fills behind a channel that lags by more than StaleAfter.
SPECIFICATION FairSpec
CONSTANTS
  btc = btc
  eth = eth
  coinbase = coinbase
  None = None
  Products = {btc}
  Sources = {coinbase}
  Prices = {1, 2, 3, 9}
  Sizes = {1}
  CounterMax = 0
  StaleAfter = 1
  Lookback = 2
  ThresholdBps = 5
  OrderQuantity = 1
  MaxOrderNotional = 10
  MaxAbsolutePosition = 1
  PaperBotEnabled = TRUE
  Snapshots <- TradingSnapshots
  Deltas <- TradingDeltas
  MaxSequence = 0
  MaxTime = 2
  MaxFills = 1
PROPERTIES
  FillsOnFreshData
