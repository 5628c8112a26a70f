--------------------------- MODULE PlaceOrderSpec ---------------------------
(***************************************************************************)
(* The promise of the matching code: orders are placed one at a time, each *)
(* atomically, with price-time priority.                                   *)
(***************************************************************************)
EXTENDS PlaceOrderFn

VARIABLES
    book,       \* [indexes of live orders -> quantities]
    memo_seq,   \* next memo of every price level
    reply       \* the order just answered and its result, as a set

vars == <<book, memo_seq, reply>>

Init == /\ book = EmptyBook
        /\ memo_seq = EmptyMemoSeq
        /\ reply = {}

Place(order) ==
    LET after == do_place_order(book, memo_seq, order) IN
        /\ book' = after.book
        /\ memo_seq' = after.memo_seq
        /\ reply' = {[order |-> order, result |-> after.result]}

(* The caller has taken the reply.                                         *)
TakeReply == reply' = {} /\ UNCHANGED <<book, memo_seq>>

Next == TakeReply \/ \E order \in PlaceOrder : Place(order)

Spec == Init /\ [][Next]_vars
=============================================================================
