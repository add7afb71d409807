------------------------------ MODULE MCEngine ------------------------------
(***************************************************************************)
(* Engine on small instances.                                              *)
(***************************************************************************)
EXTENDS Engine, TLC

CONSTANTS btc, eth, coinbase

Level(price) == [price |-> price, size |-> 1]
Change(side, price, size) == [side |-> side, price |-> price, size |-> size]
Image(bid, ask) == [bids |-> <<Level(bid)>>, asks |-> <<Level(ask)>>]

TwoProducts == Permutations({btc, eth})

(* For the feed: a sound, a locked and a one-sided image; changes that     *)
(* move the best bid, cross or lock the book, and empty a side.            *)
FeedSnapshots == {Image(1, 3), Image(2, 2), [bids |-> <<Level(1)>>, asks |-> <<>>]}
FeedDeltas == {<<Change("buy", 2, 1)>>,
               <<Change("buy", 3, 1)>>,
               <<Change("sell", 3, 0), Change("buy", 3, 0)>>}

(* For trading: mid prices that rise and fall by more than the threshold,  *)
(* low ones and ones with a notional over the limit.                       *)
TradingSnapshots == {Image(1, 3), Image(2, 9)}
TradingDeltas == {<<Change("buy", 2, 1)>>,
                  <<Change("buy", 2, 0)>>,
                  <<Change("sell", 3, 0), Change("sell", 9, 1)>>}

=============================================================================
