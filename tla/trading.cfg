\* One product, the bot on, every limit within reach.
SPECIFICATION Spec
CONSTANTS
  btc = btc
  eth = eth
  coinbase = coinbase
  None = None
  Products = {btc}
  Sources = {coinbase}
  Prices = {1, 2, 3, 9}
  Sizes = {1}
  CounterMax = 2
  StaleAfter = 0
  Lookback = 2
  ThresholdBps = 5
  OrderQuantity = 1
  MaxOrderNotional = 5
  MaxAbsolutePosition = 1
  PaperBotEnabled = TRUE
  Snapshots <- TradingSnapshots
  Deltas <- TradingDeltas
  MaxSequence = 0
  MaxTime = 1
  MaxFills = 3
INVARIANTS
  TypeOK
  RiskLimitsHold
  AccountReconciles
PROPERTIES
  KillSwitchHalts
  FillsOnlyAtCurrentQuote
  ImplementsDesk
