---------------------------- MODULE PriceLevels ----------------------------
(***************************************************************************)
(* One side of an Orderbook as the code stores it: MultiplePriceLevels, a  *)
(* vector of PriceLevel sorted by price, each holding its orders in a      *)
(* vector in the order they arrived.  TinyVec's switch between array and   *)
(* heap storage (and shrink_to_fit) changes no element and is left out.    *)
(*                                                                         *)
(* binary_search_by_key is external; it is used by its contract on a       *)
(* sorted vector: Ok(i) when level i has the price, Err(i) with i the      *)
(* place that keeps the vector sorted otherwise.                           *)
(*                                                                         *)
(* memo_seq is a u32.  Both build profiles are modelled: dev, where its    *)
(* overflow panics, and release (what the Dockerfile ships), where it      *)
(* wraps to 0.  wrapped remembers the levels this has happened to; a level *)
(* that empties is removed, and its price starts afresh.                   *)
(***************************************************************************)
EXTENDS Orders, Sequences, SequencesExt

CONSTANT
    OrderCap    \* bound: orders held at once

ASSUME OrderCapAssumption == OrderCap \in Nat

VARIABLES
    inner,      \* MultiplePriceLevels::inner
    ret,        \* what the last call returned
    panicked,   \* the call panicked; the engine task that owns the book is gone
    profile,    \* the build: "dev" (overflow checks) or "release" (none)
    wrapped     \* history: prices of the levels whose memo_seq has wrapped

vars == <<inner, ret, panicked, profile, wrapped>>

Order == [memo: Memo, quantity: Quantity, price: Prices]
PriceLevel == [price: Prices, memo_seq: Memo, inner: Seq(Order)]

None == [tag |-> "None"]
Pair(price, memo) == [tag |-> "Pair", price |-> price, memo |-> memo]
Some(memo, quantity) == [tag |-> "Some", memo |-> memo, quantity |-> quantity]

Init == /\ inner = <<>>
        /\ ret = None
        /\ panicked = FALSE
        /\ profile \in {"dev", "release"}
        /\ wrapped = {}

NewPriceLevel(price) == [price |-> price, memo_seq |-> 0, inner |-> <<>>]

(* Mutant: the memo is the level's length instead of its sequence number.  *)
push_order_MemoIsLen(level, quantity) ==
    [level EXCEPT !.memo_seq = (@ + 1) % (MemoMax + 1),
                  !.inner = Append(@, [memo |-> Len(level.inner),
                                       quantity |-> quantity,
                                       price |-> level.price])]

(* PriceLevel::push_order, when the increment of memo_seq does not panic.  *)
push_order(level, quantity) ==
    [level EXCEPT !.memo_seq = (@ + 1) % (MemoMax + 1),
                  !.inner = Append(@, [memo |-> level.memo_seq,
                                       quantity |-> quantity,
                                       price |-> level.price])]

(* The increment of memo_seq in push_order overflows a u32: it panics in   *)
(* one profile and wraps in the other.                                     *)
IncrementPanics(level) == profile = "dev" /\ level.memo_seq = MemoMax
IncrementWraps(level) == profile = "release" /\ level.memo_seq = MemoMax

Room == MapThenSumSet(LAMBDA i : Len(inner[i].inner), DOMAIN inner) < OrderCap

(* push_order_to_level, binary_search returned Ok(i).                      *)
PushToExistingLevel(price, quantity) ==
    \E i \in DOMAIN inner :
        /\ inner[i].price = price
        /\ Room
        /\ IF IncrementPanics(inner[i])
           THEN /\ panicked' = TRUE
                /\ UNCHANGED <<inner, ret, wrapped>>
           ELSE /\ inner' = [inner EXCEPT ![i] = push_order(@, quantity)]
                /\ ret' = Pair(price, inner[i].memo_seq)
                /\ wrapped' = IF IncrementWraps(inner[i]) THEN wrapped \union {price} ELSE wrapped
                /\ UNCHANGED panicked
        /\ UNCHANGED profile

(* Mutant: a new level always goes to the end of the vector.               *)
PushToNewLevel_AtEnd(price, quantity) ==
    /\ Room
    /\ \A i \in DOMAIN inner : inner[i].price # price
    /\ inner' = Append(inner, push_order(NewPriceLevel(price), quantity))
    /\ ret' = Pair(price, 0)
    /\ UNCHANGED <<panicked, profile, wrapped>>

(* push_order_to_level, binary_search returned Err(i).                     *)
PushToNewLevel(price, quantity) ==
    \E i \in 1..(Len(inner) + 1) :
        /\ Room
        /\ \A j \in 1..(i - 1) : inner[j].price < price
        /\ \A j \in i..Len(inner) : price < inner[j].price
        /\ inner' = InsertAt(inner, i, push_order(NewPriceLevel(price), quantity))
        /\ ret' = Pair(price, 0)
        /\ UNCHANGED <<panicked, profile, wrapped>>

(* Position of the first order of a level with that memo                   *)
(* (iter().position / iter_mut().find), none when no order has it.         *)
IsPosition(level, memo, k) ==
    /\ k \in DOMAIN level.inner
    /\ level.inner[k].memo = memo
    /\ \A m \in 1..(k - 1) : level.inner[m].memo # memo

(* Mutant: a level is removed with the first order that leaves it.         *)
WithoutOrder_DropLevel(i, k) == RemoveAt(inner, i)

(* The vector once order k of level i is taken out: a level left empty is  *)
(* removed, and its memo_seq is forgotten with it.                         *)
WithoutOrder(i, k) ==
    LET left == RemoveAt(inner[i].inner, k) IN
        IF left = <<>>
        THEN RemoveAt(inner, i)
        ELSE [inner EXCEPT ![i].inner = left]

(* No order has that price and memo: None is returned.                     *)
NotFound(price, memo) ==
    /\ \A i \in DOMAIN inner : \A k \in DOMAIN inner[i].inner :
          ~(inner[i].price = price /\ IsPosition(inner[i], memo, k))
    /\ ret' = None
    /\ UNCHANGED <<inner, panicked, profile, wrapped>>

remove_order_from_level(price, memo) ==
    \/ \E i \in DOMAIN inner : \E k \in DOMAIN inner[i].inner :
          /\ inner[i].price = price
          /\ IsPosition(inner[i], memo, k)
          /\ inner' = WithoutOrder(i, k)
          /\ ret' = Some(memo, inner[i].inner[k].quantity)
          /\ wrapped' = IF Len(inner[i].inner) = 1 THEN wrapped \ {price} ELSE wrapped
          /\ UNCHANGED <<panicked, profile>>
    \/ NotFound(price, memo)

(* get_mut, and the one write made through it: PendingFill::commit stores  *)
(* the remainder of a partially filled maker order.                        *)
get_mut(price, memo) ==
    \/ \E i \in DOMAIN inner : \E k \in DOMAIN inner[i].inner :
          /\ inner[i].price = price
          /\ IsPosition(inner[i], memo, k)
          /\ \E quantity \in 1..(inner[i].inner[k].quantity - 1) :
                /\ inner' = [inner EXCEPT ![i].inner[k].quantity = quantity]
                /\ ret' = Some(memo, quantity)
                /\ UNCHANGED <<panicked, profile, wrapped>>
    \/ NotFound(price, memo)

Next == /\ ~panicked
        /\ \E price \in Prices :
              \/ \E quantity \in Quantities : \/ PushToExistingLevel(price, quantity)
                                              \/ PushToNewLevel(price, quantity)
              \/ \E memo \in Memo : \/ remove_order_from_level(price, memo)
                                    \/ get_mut(price, memo)

Spec == Init /\ [][Next]_vars
-----------------------------------------------------------------------------
(* Mutant: bids are walked from the lowest price.                          *)
iter_rel_Unreversed(side) ==
    FlattenSeq([i \in DOMAIN inner |->
                   [k \in DOMAIN inner[i].inner |->
                       [side |-> side, price |-> inner[i].inner[k].price,
                        memo |-> inner[i].inner[k].memo]]])

(* The walk of one side: wrap_iter over iter_inner for asks, over          *)
(* iter_inner_rev for bids, each level from its oldest order.              *)
iter_rel(side) ==
    LET levels == IF side = "Sell" THEN inner ELSE Reverse(inner)
        Indexed(level) == [k \in DOMAIN level.inner |->
                              [side |-> side, price |-> level.inner[k].price,
                               memo |-> level.inner[k].memo]]
    IN FlattenSeq([i \in DOMAIN levels |-> Indexed(levels[i])])

(* The live orders as (price, memo) pairs, and the order behind a pair.    *)
Live == UNION {{<<inner[i].price, inner[i].inner[k].memo>> : k \in DOMAIN inner[i].inner} :
                  i \in DOMAIN inner}
QuantityOf(pair) ==
    LET i == CHOOSE i \in DOMAIN inner : inner[i].price = pair[1]
        k == CHOOSE k \in DOMAIN inner[i].inner : IsPosition(inner[i], pair[2], k)
    IN inner[i].inner[k].quantity
-----------------------------------------------------------------------------
(* MultiplePriceLevels::inner stays strictly sorted by price, without the  *)
(* levels that remove_order_from_level has emptied: what every             *)
(* binary_search_by_key of the book relies on.                             *)
LevelsSorted ==
    /\ \A i, j \in DOMAIN inner : i < j => inner[i].price < inner[j].price
    /\ \A i \in DOMAIN inner : inner[i].inner # <<>>

(* Within a level the memos grow from the front of the vector to its back  *)
(* and stay below memo_seq, so the pair push_order hands out names no      *)
(* other live order: in either build, until a level has been given         *)
(* u32::MAX + 1 orders without ever being empty, and then at that price    *)
(* only, until the level empties.                                          *)
MemosGrow ==
    \A i \in DOMAIN inner : inner[i].price \notin wrapped =>
        /\ \A k, m \in DOMAIN inner[i].inner :
              k < m => inner[i].inner[k].memo < inner[i].inner[m].memo
        /\ \A k \in DOMAIN inner[i].inner : inner[i].inner[k].memo < inner[i].memo_seq

(* iter_rel walks either side in price-time priority ("highest price to    *)
(* lowest", "lowest price to highest", orderbook.rs) and yields the pairs  *)
(* of the live orders and no others.  Only two orders of a level whose     *)
(* memo_seq has wrapped may come out of the order of their memos.          *)
IterRelIsPriceTime ==
    \A side \in OrderSide :
        LET walk == iter_rel(side) IN
            /\ \A a, b \in DOMAIN walk : a < b =>
                  \/ Precedes(walk[a], walk[b])
                  \/ walk[a].price = walk[b].price /\ walk[a].price \in wrapped
            /\ {<<walk[a].price, walk[a].memo>> : a \in DOMAIN walk} = Live

(* The vectors implement the map of order indexes that matching is written *)
(* against: while no level's memo_seq has wrapped, every call of           *)
(* MultiplePriceLevels is a call of OrderIndexMap with the same result, in *)
(* either build.                                                           *)
Map == INSTANCE OrderIndexMap WITH orders <- [pair \in Live |-> QuantityOf(pair)]
ImplementsMap ==
    /\ Map!Init
    /\ [][wrapped = {} /\ wrapped' = {} => [Map!Next]_(Map!vars)]_vars
=============================================================================
