----------------------------- MODULE MCExchange -----------------------------
(***************************************************************************)
(* A request of each of two users: a bid or a market order, which the      *)
(* engine executes, refuses or panics on (MemoMax = 1: a second resting    *)
(* bid).  Balances that are too small are the business of Funds.           *)
(***************************************************************************)
EXTENDS Exchange

MCRequests == 1..2
MCOwner == [r \in MCRequests |-> IF r = 1 THEN "alice" ELSE "bob"]

AnOrder(side, order_type, tif) ==
    [side |-> side, price |-> 1, quantity |-> 1, order_type |-> order_type, time_in_force |-> tif]

MCMenu == {AnOrder("Buy", "Limit", "GoodTilCanceled"), AnOrder("Sell", "Market", "ImmediateOrCancel")}
=============================================================================
