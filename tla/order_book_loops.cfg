\* Every message of up to two entries over two prices and two sizes,
\* one of them zero in a change, on every reachable book.
SPECIFICATION LoopSpec
CONSTANTS
  None = None
  Products = {}
  Sources = {}
  Prices = {1, 3}
  Sizes = {1, 2}
  CounterMax = 0
  MaxEntries = 2
INVARIANTS
  LoopTypeOK
  LoopsAgree
  RestAgrees
  FeaturesBounded
