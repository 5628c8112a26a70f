---------------------------- MODULE PlaceOrderFn ----------------------------
(***************************************************************************)
(* What do_place_order computes, stated without its loops: which resting   *)
(* orders an incoming order trades with and for how much, what is left in  *)
(* the book, and the result.  A book is a function from the indexes of its *)
(* live orders to their quantities, with memo_seq[side][price] the next    *)
(* memo of each price level (0 when the level does not exist).             *)
(*                                                                         *)
(* Matching does the same one loop iteration at a time and is checked to   *)
(* implement it.                                                           *)
(***************************************************************************)
EXTENDS Orders, FiniteSetsExt

EmptyBook == [o \in {} |-> 0]
EmptyMemoSeq == [side \in OrderSide |-> [price \in Prices |-> 0]]

(* The resting orders the incoming order may trade with.                   *)
Eligible(book, order) ==
    {o \in DOMAIN book : o.side = MakerSide(order.side) /\ MeetsPrice(order, o.price)}

TotalQuantity(book, S) == MapThenSumSet(LAMBDA o : book[o], S)

(* How much of resting order o the incoming order takes: whatever the      *)
(* orders ahead of o in price-time priority leave.                         *)
Taken(book, order, o) ==
    LET eligible == Eligible(book, order)
        ahead == TotalQuantity(book, {r \in eligible : Precedes(r, o)})
    IN IF o \in eligible /\ ahead < order.quantity
       THEN Min({book[o], order.quantity - ahead})
       ELSE 0

Filled(book, order) ==
    Min({order.quantity, TotalQuantity(book, Eligible(book, order))})

Outcome(book, order) ==
    IF Filled(book, order) = order.quantity THEN "Complete"
    ELSE IF Filled(book, order) > 0 THEN "Partial" ELSE "None"

(* The time-in-force table: the error a fill outcome is refused with, {}   *)
(* when it is not.                                                         *)
Refusal(outcome, time_in_force) ==
    IF outcome # "Complete" /\ time_in_force = "FillOrKill" THEN {"FillOrKillFailed"}
    ELSE IF outcome = "None" /\ time_in_force = "ImmediateOrCancel"
    THEN {"InsufficientLiquidity"} ELSE {}

Traded(book, order) ==
    [o \in {o \in DOMAIN book : Taken(book, order, o) < book[o]} |->
        book[o] - Taken(book, order, o)]

(* A level that lost its last order is gone, and its memo_seq with it.     *)
ForgetEmpty(memo_seq, book) ==
    [side \in OrderSide |-> [price \in Prices |->
        IF \E o \in DOMAIN book : o.side = side /\ o.price = price
        THEN memo_seq[side][price] ELSE 0]]

WithOrder(book, oix, quantity) ==
    [o \in DOMAIN book \union {oix} |-> IF o = oix THEN quantity ELSE book[o]]

Err(error) == [tag |-> "Err", error |-> error]

(* PlaceOrderResult; order_index is an Option, as a set.                   *)
Ok(order, order_index, outcome, remaining) ==
    [tag |-> "Ok", order_index |-> order_index, fill_type |-> outcome,
     quantity_filled |-> order.quantity - remaining, quantity_remaining |-> remaining]

(* do_place_order as a function: the book, memo_seq and result after it.   *)
do_place_order(book, memo_seq, order) ==
    LET outcome == Outcome(book, order)
        refusal == Refusal(outcome, order.time_in_force)
        remaining == order.quantity - Filled(book, order)
        traded == Traded(book, order)
        memos == ForgetEmpty(memo_seq, traded)
        oix == [side |-> order.side, price |-> order.price,
                memo |-> memos[order.side][order.price]]
        rests == remaining > 0 /\ order.time_in_force # "ImmediateOrCancel"
    IN IF refusal # {}
       THEN [book |-> book, memo_seq |-> memo_seq,
             result |-> Err(CHOOSE e \in refusal : TRUE)]
       ELSE [book |-> IF rests THEN WithOrder(traded, oix, remaining) ELSE traded,
             memo_seq |-> IF rests THEN [memos EXCEPT ![order.side][order.price] = @ + 1]
                          ELSE memos,
             result |-> Ok(order, IF rests THEN {oix} ELSE {}, outcome, remaining)]
=============================================================================
