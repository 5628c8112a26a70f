------------------------------- MODULE Orders -------------------------------
(***************************************************************************)
(* The vocabulary shared by the order book, the matching code and the      *)
(* trading engine: sides, order types, times in force, fill types, order   *)
(* indexes, and the priority in which Orderbook::iter_rel walks one side   *)
(* of a book.                                                              *)
(***************************************************************************)
EXTENDS Integers

CONSTANTS
    Prices,      \* the NonZeroU32 prices an order may carry
    Quantities,  \* the NonZeroU32 quantities a new order may carry
    MemoMax      \* u32::MAX, the largest value of PriceLevel::memo_seq

ASSUME PricesAssumption == Prices \subseteq Nat \ {0}
ASSUME QuantitiesAssumption == Quantities \subseteq Nat \ {0}
ASSUME MemoMaxAssumption == MemoMax \in Nat \ {0}

OrderSide == {"Buy", "Sell"}
OrderType == {"Limit", "Market"}
TimeInForce == {"GoodTilCanceled", "GoodTilDate", "ImmediateOrCancel", "FillOrKill"}
FillType == {"Complete", "Partial", "None"}

Quantity == Nat \ {0}          \* what a live order holds: a NonZeroU32

Memo == 0..MemoMax

OrderIndex == [side: OrderSide, price: Prices, memo: Memo]

(* The fields of trading::PlaceOrder that matching reads.  asset selects   *)
(* the book before matching starts; stp is never read (mod.rs, "TODO: self *)
(* trade protection"); user_uuid is only copied to the result.             *)
PlaceOrder == [side: OrderSide, price: Prices, quantity: Quantities,
               order_type: OrderType, time_in_force: TimeInForce]

MakerSide(side) == IF side = "Buy" THEN "Sell" ELSE "Buy"

(* Mutant: an order does not trade at its own price.                       *)
MeetsPrice_Strict(order, price) ==
    \/ order.order_type = "Market"
    \/ order.side = "Buy" /\ price < order.price
    \/ order.side = "Sell" /\ price > order.price

(* A limit order trades only at its own price or better; a market order   *)
(* ignores prices.                                                         *)
MeetsPrice(order, price) ==
    \/ order.order_type = "Market"
    \/ order.side = "Buy" /\ price <= order.price
    \/ order.side = "Sell" /\ price >= order.price

(* o comes before r when iter_rel walks their side: asks from the lowest   *)
(* price, bids from the highest, equal prices from the oldest.             *)
Precedes(o, r) ==
    \/ o.side = "Sell" /\ o.price < r.price
    \/ o.side = "Buy" /\ o.price > r.price
    \/ o.price = r.price /\ o.memo < r.memo
=============================================================================
