--------------------------- MODULE MCTradingEngine ---------------------------
(***************************************************************************)
(* The orders clients place in the model of the trading engine: a bid that *)
(* rests, an ask that rests or takes the bid and rests with what is left,  *)
(* and a market order that is refused on an empty book and else takes the  *)
(* bid, empties its level and is filled in part.                           *)
(***************************************************************************)
EXTENDS TradingEngine

AnOrder(side, price, quantity, order_type, tif) ==
    [side |-> side, price |-> price, quantity |-> quantity,
     order_type |-> order_type, time_in_force |-> tif]

MCMenu == {AnOrder("Buy", 1, 1, "Limit", "GoodTilCanceled"),
           AnOrder("Sell", 1, 2, "Limit", "GoodTilCanceled"),
           AnOrder("Sell", 1, 2, "Market", "ImmediateOrCancel")}
=============================================================================
