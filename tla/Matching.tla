------------------------------ MODULE Matching ------------------------------
(***************************************************************************)
(* do_place_order on one asset's book, one loop iteration per step:        *)
(* try_fill_orders scans the maker side and collects a PendingFill, the    *)
(* time-in-force table accepts or refuses it, PendingFill::commit applies  *)
(* it, and what is left of the order may rest in the book.                 *)
(*                                                                         *)
(* Every assert!, expect and checked subtraction of the code is kept: when *)
(* one would fire, pc becomes "panic".                                     *)
(*                                                                         *)
(* The book is the map of order indexes that PriceLevels implements.       *)
(***************************************************************************)
EXTENDS PlaceOrderFn, Sequences

VARIABLES
    book,         \* [indexes of live orders -> quantities], bids and asks
    memo_seq,     \* [side -> [price -> PriceLevel::memo_seq, 0 without a level]]
    pc,           \* where do_place_order is
    order,        \* the PlaceOrder being executed
    todo,         \* what the iterator of iter_rel has not yielded yet
    rem,          \* taker_rem_q, then taker_order_remaining_quantity
    outcome,      \* taker_fill_outcome
    maker_fills,  \* the MakerFills collected
    next,         \* index of the next MakerFill commit applies
    reply,        \* the order just answered and its result, as a set
    book0,        \* auxiliary: book as the last answered order left it
    memo_seq0,    \* auxiliary: memo_seq as the last answered order left it
    rems          \* auxiliary: rems[i] is taker_rem_q before maker_fills[i]

locals == <<order, todo, rem, outcome, maker_fills, next, rems>>
answered == <<reply, book0, memo_seq0>>
vars == <<book, memo_seq, pc, locals, answered>>

(* MakerFill, with the maker's quantity as the only part of the copied     *)
(* Order that oix does not already hold; fill_amount is never read.        *)
MakerFill == [oix: OrderIndex, quantity: Quantity, fill_type: FillType]

Init == /\ book = EmptyBook
        /\ memo_seq = EmptyMemoSeq
        /\ pc = "idle"
        /\ order \in PlaceOrder
        /\ todo = {}
        /\ rem = 0
        /\ outcome = "None"
        /\ maker_fills = <<>>
        /\ next = 1
        /\ reply = {}
        /\ book0 = EmptyBook
        /\ memo_seq0 = EmptyMemoSeq
        /\ rems = <<>>

(* The call of do_place_order up to the loop of try_fill_orders.  Bound:   *)
(* no level hands out more than MemoMax memos in its life (PriceLevels     *)
(* shows what happens there).                                              *)
Receive(o) ==
    /\ pc = "idle"
    /\ memo_seq[o.side][o.price] < MemoMax
    /\ pc' = "scan"
    /\ order' = o
    /\ todo' = {oix \in DOMAIN book : oix.side = MakerSide(o.side)}
    /\ rem' = o.quantity
    /\ outcome' = "None"
    /\ maker_fills' = <<>>
    /\ next' = 1
    /\ rems' = <<>>
    /\ reply' = {}
    /\ UNCHANGED <<book, memo_seq, book0, memo_seq0>>

(* oix is what the iterator yields next.                                   *)
Yields(oix) == oix \in todo /\ \A r \in todo \ {oix} : Precedes(oix, r)

(* "continue": the maker does not meet the price condition.                *)
SkipMaker(oix) ==
    /\ pc = "scan"
    /\ Yields(oix)
    /\ ~MeetsPrice(order, oix.price)
    /\ todo' = todo \ {oix}
    /\ UNCHANGED <<book, memo_seq, pc, order, rem, outcome, maker_fills, next, rems, answered>>

(* One MakerFill; the loop breaks when it completes the taker.             *)
FillMaker(oix) ==
    LET fill_amount == IF book[oix] <= rem THEN book[oix] ELSE rem IN
        /\ pc = "scan"
        /\ Yields(oix)
        /\ MeetsPrice(order, oix.price)
        /\ maker_fills' = Append(maker_fills,
              [oix |-> oix, quantity |-> book[oix],
               fill_type |-> IF fill_amount = book[oix] THEN "Complete" ELSE "Partial"])
        /\ rems' = Append(rems, rem)
        /\ IF rem = fill_amount
           THEN outcome' = "Complete" /\ rem' = 0 /\ todo' = {}
           ELSE outcome' = "Partial" /\ rem' = rem - fill_amount /\ todo' = todo \ {oix}
        /\ UNCHANGED <<book, memo_seq, pc, order, next, answered>>

(* The loop is over: try_fill_orders returns the PendingFill.              *)
EndScan ==
    /\ pc = "scan"
    /\ todo = {}
    /\ outcome' = IF rem = order.quantity THEN "None" ELSE outcome
    /\ pc' = "tif"
    /\ UNCHANGED <<book, memo_seq, order, todo, rem, maker_fills, next, rems, answered>>

(* do_place_order returns result; its locals go out of scope.              *)
Answer(result) ==
    /\ pc' = "idle"
    /\ reply' = {[order |-> order, result |-> result]}
    /\ book0' = book'
    /\ memo_seq0' = memo_seq'
    /\ todo' = {}
    /\ rem' = 0
    /\ outcome' = "None"
    /\ maker_fills' = <<>>
    /\ next' = 1
    /\ rems' = <<>>
    /\ UNCHANGED order

Panic == pc' = "panic" /\ UNCHANGED <<book, memo_seq, locals, answered>>

(* Mutant: the makers are taken out before the time in force is checked.   *)
EnforceTimeInForce_AfterFill ==
    /\ pc = "tif"
    /\ LET refusal == Refusal(outcome, order.time_in_force)
           filled == {maker_fills[i].oix : i \in DOMAIN maker_fills}
       IN \/ /\ refusal = {}
             /\ pc' = "validate"
             /\ UNCHANGED <<book, memo_seq, locals, answered>>
          \/ \E error \in refusal :
                /\ book' = [o \in DOMAIN book \ filled |-> book[o]]
                /\ UNCHANGED memo_seq
                /\ Answer(Err(error))

(* The match on (taker_fill_outcome, time_in_force).                       *)
EnforceTimeInForce ==
    /\ pc = "tif"
    /\ LET refusal == Refusal(outcome, order.time_in_force) IN
          \/ /\ refusal = {}
             /\ pc' = "validate"
             /\ UNCHANGED <<book, memo_seq, locals, answered>>
          \/ \E error \in refusal :
                UNCHANGED <<book, memo_seq>> /\ Answer(Err(error))

(* The first loop of commit: every maker must still be in the book.        *)
Validate ==
    /\ pc = "validate"
    /\ IF \A i \in DOMAIN maker_fills : maker_fills[i].oix \in DOMAIN book
       THEN /\ pc' = "commit"
            /\ rem' = order.quantity
            /\ UNCHANGED <<book, memo_seq, order, todo, outcome, maker_fills, next, rems, answered>>
       ELSE UNCHANGED <<book, memo_seq>> /\ Answer(Err("InvalidOrderIndex"))

(* Mutants: memo_seq survives its level; memo_seq restarts on any removal. *)
RemoveFromBook_KeepMemoSeq(oix) ==
    /\ book' = [o \in DOMAIN book \ {oix} |-> book[o]]
    /\ UNCHANGED memo_seq
RemoveFromBook_ResetMemoSeq(oix) ==
    /\ book' = [o \in DOMAIN book \ {oix} |-> book[o]]
    /\ memo_seq' = [memo_seq EXCEPT ![oix.side][oix.price] = 0]

(* Orderbook::remove of a live order.                                      *)
RemoveFromBook(oix) ==
    /\ book' = [o \in DOMAIN book \ {oix} |-> book[o]]
    /\ memo_seq' = IF \E o \in DOMAIN book \ {oix} : o.side = oix.side /\ o.price = oix.price
                   THEN memo_seq
                   ELSE [memo_seq EXCEPT ![oix.side][oix.price] = 0]

(* The second loop of commit, a completely filled maker.                   *)
CommitComplete ==
    LET fill == maker_fills[next] IN
        /\ pc = "commit"
        /\ next \in DOMAIN maker_fills
        /\ fill.fill_type = "Complete"
        /\ IF fill.oix \notin DOMAIN book
           THEN UNCHANGED <<book, memo_seq>> /\ Answer(Err("InvalidOrderIndex"))
           ELSE IF book[fill.oix] # fill.quantity \/ rem < book[fill.oix]
           THEN Panic          \* assert_eq!(maker_order, order), or -= underflows
           ELSE /\ RemoveFromBook(fill.oix)
                /\ rem' = rem - book[fill.oix]
                /\ next' = next + 1
                /\ UNCHANGED <<pc, order, todo, outcome, maker_fills, rems, answered>>

(* Mutant: the taker's counter is not zeroed by a partially filled maker.  *)
CommitPartial_KeepRem ==
    LET fill == maker_fills[next] IN
        /\ pc = "commit"
        /\ next \in DOMAIN maker_fills
        /\ fill.fill_type = "Partial"
        /\ book' = [book EXCEPT ![fill.oix] = @ - rem]
        /\ next' = next + 1
        /\ UNCHANGED <<memo_seq, pc, order, todo, rem, outcome, maker_fills, rems, answered>>

(* The second loop of commit, a partially filled maker.                    *)
CommitPartial ==
    LET fill == maker_fills[next] IN
        /\ pc = "commit"
        /\ next \in DOMAIN maker_fills
        /\ fill.fill_type = "Partial"
        /\ IF fill.oix \notin DOMAIN book
           THEN UNCHANGED <<book, memo_seq>> /\ Answer(Err("InvalidOrderIndex"))
           ELSE IF book[fill.oix] # fill.quantity \/ rem >= book[fill.oix]
           THEN Panic          \* the two asserts; the NonZeroU32 follows from the second
           ELSE /\ book' = [book EXCEPT ![fill.oix] = @ - rem]
                /\ rem' = 0
                /\ next' = next + 1
                /\ UNCHANGED <<memo_seq, pc, order, todo, outcome, maker_fills, rems, answered>>

(* The asserts of commit on the outcome.                                   *)
OutcomeAgrees ==
    /\ outcome = "Complete" => rem = 0
    /\ outcome = "Partial" => order.quantity > rem
    /\ outcome = "None" => rem = order.quantity

(* Mutant: the whole order rests, not its remainder.                       *)
Settle_FullQuantity ==
    LET oix == [side |-> order.side, price |-> order.price,
                memo |-> memo_seq[order.side][order.price]]
        rests == rem > 0 /\ order.time_in_force # "ImmediateOrCancel"
    IN  /\ pc = "commit"
        /\ next \notin DOMAIN maker_fills
        /\ book' = IF rests THEN WithOrder(book, oix, order.quantity) ELSE book
        /\ memo_seq' = IF rests THEN [memo_seq EXCEPT ![order.side][order.price] = @ + 1]
                       ELSE memo_seq
        /\ Answer(Ok(order, IF rests THEN {oix} ELSE {}, outcome, rem))

(* commit returns; a remainder that is not immediate-or-cancel rests.      *)
Settle ==
    LET oix == [side |-> order.side, price |-> order.price,
                memo |-> memo_seq[order.side][order.price]]
        rests == rem > 0 /\ order.time_in_force # "ImmediateOrCancel"
    IN  /\ pc = "commit"
        /\ next \notin DOMAIN maker_fills
        /\ IF ~OutcomeAgrees \/ rem > order.quantity
           THEN Panic
           ELSE /\ book' = IF rests THEN WithOrder(book, oix, rem) ELSE book
                /\ memo_seq' = IF rests THEN [memo_seq EXCEPT ![order.side][order.price] = @ + 1]
                               ELSE memo_seq
                /\ Answer(Ok(order, IF rests THEN {oix} ELSE {}, outcome, rem))

Step ==
    \/ \E oix \in todo : SkipMaker(oix) \/ FillMaker(oix)
    \/ EndScan
    \/ EnforceTimeInForce
    \/ Validate
    \/ CommitComplete
    \/ CommitPartial
    \/ Settle

Next == Step \/ \E o \in PlaceOrder : Receive(o)

Spec == Init /\ [][Next]_vars
-----------------------------------------------------------------------------
(* Type invariant.                                                         *)
TypeOK ==
    /\ DOMAIN book \subseteq OrderIndex /\ \A o \in DOMAIN book : book[o] \in Quantity
    /\ memo_seq \in [OrderSide -> [Prices -> Memo]]
    /\ pc \in {"idle", "scan", "tif", "validate", "commit", "panic"}
    /\ order \in PlaceOrder
    /\ todo \subseteq OrderIndex
    /\ rem \in Nat
    /\ outcome \in FillType
    /\ maker_fills \in Seq(MakerFill)
    /\ next \in Nat
    /\ rems \in Seq(Quantity)

(* The best bid is always below the best ask: whatever the type and time   *)
(* in force of the orders, what rests could not have traded.               *)
NotCrossed ==
    \A bid, ask \in DOMAIN book :
        bid.side = "Buy" /\ ask.side = "Sell" => bid.price < ask.price

(* No assert!, expect, unreachable! or subtraction of try_fill_orders,     *)
(* commit or do_place_order ever fires, and commit never fails ("this      *)
(* should never fail because we already checked that the order exists").   *)
NoPanic ==
    /\ pc # "panic"
    /\ \A r \in reply : r.result.tag = "Err" => r.result.error # "InvalidOrderIndex"

(* A refused order leaves no trace: the step that answers an error, and    *)
(* every step before it, keeps the book of the last answered order.        *)
ErrLeavesBook ==
    [][pc # "idle" /\ pc' = "idle" /\ (\E r \in reply' : r.result.tag = "Err")
          => book' = book0 /\ memo_seq' = memo_seq0]_vars

(* Quantity is neither made nor lost: an accepted order takes from the     *)
(* makers exactly quantity_filled, and adds to its own side exactly the    *)
(* remainder that rests.                                                   *)
SideTotal(b, side) == TotalQuantity(b, {o \in DOMAIN b : o.side = side})
QuantityConserved ==
    [][pc # "idle" /\ pc' = "idle" => \A r \in reply' : r.result.tag = "Ok" =>
        /\ r.result.quantity_filled + r.result.quantity_remaining = r.order.quantity
        /\ SideTotal(book', MakerSide(order.side))
              = SideTotal(book0, MakerSide(order.side)) - r.result.quantity_filled
        /\ SideTotal(book', order.side) = SideTotal(book0, order.side)
              + (IF r.result.order_index = {} THEN 0 ELSE r.result.quantity_remaining)]_vars

(* The loops implement the atomic, declarative place order: price-time     *)
(* priority, fill amounts, time in force, remainders, memos and results.   *)
Atomic == INSTANCE PlaceOrderSpec WITH book <- book0, memo_seq <- memo_seq0
ImplementsPlaceOrder == Atomic!Spec
-----------------------------------------------------------------------------
(* The strengthening behind the theorems of MatchingProofs.                *)

Busy == pc \in {"scan", "tif", "validate", "commit"}

(* What the fills collected so far leave of the taker.                     *)
Left ==
    IF maker_fills = <<>> THEN order.quantity
    ELSE IF maker_fills[Len(maker_fills)].fill_type = "Complete"
    THEN rems[Len(maker_fills)] - maker_fills[Len(maker_fills)].quantity
    ELSE 0

(* memo_seq is above every live memo of its level, and there is room for   *)
(* the order in hand.                                                      *)
MemoInv ==
    /\ \A o \in DOMAIN book : o.memo < memo_seq[o.side][o.price]
    /\ Busy => memo_seq[order.side][order.price] < MemoMax

(* The iterator is over live makers, each before its fill.                 *)
TodoInv ==
    /\ pc # "scan" => todo = {}
    /\ \A o \in todo :
          /\ o \in DOMAIN book
          /\ o.side = MakerSide(order.side)
          /\ \A i \in DOMAIN maker_fills : maker_fills[i].oix # o

(* The fills still to be applied describe the book as it is.               *)
FillsLive ==
    Busy => \A i \in DOMAIN maker_fills : i >= next =>
        /\ maker_fills[i].oix \in DOMAIN book
        /\ maker_fills[i].oix.side = MakerSide(order.side)
        /\ book[maker_fills[i].oix] = maker_fills[i].quantity
        /\ \A j \in DOMAIN maker_fills : maker_fills[i].oix = maker_fills[j].oix => i = j

(* The fills and the quantities left before them add up, and only the last *)
(* fill may be partial.                                                    *)
FillsAddUp ==
    /\ Len(rems) = Len(maker_fills)
    /\ maker_fills # <<>> => rems[1] = order.quantity
    /\ \A i \in DOMAIN maker_fills :
          /\ rems[i] <= order.quantity
          /\ maker_fills[i].fill_type = "Complete" => maker_fills[i].quantity <= rems[i]
          /\ maker_fills[i].fill_type # "Complete" =>
                /\ maker_fills[i].fill_type = "Partial"
                /\ rems[i] < maker_fills[i].quantity
          /\ i < Len(maker_fills) =>
                /\ maker_fills[i].fill_type = "Complete"
                /\ rems[i + 1] = rems[i] - maker_fills[i].quantity

(* The taker's counter, in the scan and again in commit.                   *)
RemInv ==
    /\ pc \in {"scan", "tif", "validate"} => rem = Left /\ next = 1
    /\ pc = "scan" /\ todo # {} => rem > 0
    /\ pc = "commit" => /\ next \in 1..(Len(maker_fills) + 1)
                        /\ rem = IF next <= Len(maker_fills) THEN rems[next] ELSE Left

OutcomeInv ==
    Busy => outcome = IF Left = 0 THEN "Complete"
                      ELSE IF Left < order.quantity THEN "Partial" ELSE "None"

(* An eligible maker is ahead of the iterator, or has a complete fill that *)
(* is still to be applied, or the taker is filled without it.              *)
Covered ==
    Busy => \A o \in DOMAIN book :
        o.side = MakerSide(order.side) /\ MeetsPrice(order, o.price) =>
            \/ o \in todo
            \/ Left = 0
            \/ \E i \in DOMAIN maker_fills :
                  i >= next /\ maker_fills[i].oix = o /\ maker_fills[i].fill_type = "Complete"

(* Until commit starts the book is the one the last answer left.           *)
BookInv == pc \in {"idle", "scan", "tif", "validate"} => book = book0 /\ memo_seq = memo_seq0

(* The inductive invariant: no assert of the matching code can fire because *)
(* the PendingFill always describes the book it was computed from.         *)
IInv ==
    /\ TypeOK
    /\ NotCrossed
    /\ NoPanic
    /\ MemoInv
    /\ TodoInv
    /\ FillsLive
    /\ FillsAddUp
    /\ RemInv
    /\ OutcomeInv
    /\ Covered
    /\ BookInv
=============================================================================
