--------------------------- MODULE OrderIndexMap ---------------------------
(***************************************************************************)
(* What one side of the order book promises its users: a map from (price,  *)
(* memo) pairs to quantities.  A pushed order gets a memo above that of    *)
(* every live order of its price; a removed pair is simply absent.         *)
(* PriceLevels, which stores sorted vectors, implements this.              *)
(***************************************************************************)
EXTENDS Orders

VARIABLES
    orders,     \* [live <<price, memo>> -> quantity]
    ret         \* what the last call returned

vars == <<orders, ret>>

None == [tag |-> "None"]
Pair(price, memo) == [tag |-> "Pair", price |-> price, memo |-> memo]
Some(memo, quantity) == [tag |-> "Some", memo |-> memo, quantity |-> quantity]

Init == /\ orders = <<>>
        /\ ret = None

(* The new pair is fresh and younger than every live pair of that price.   *)
Push(price, quantity) ==
    \E memo \in Memo :
        /\ \A live \in DOMAIN orders : live[1] = price => live[2] < memo
        /\ orders' = [live \in DOMAIN orders \union {<<price, memo>>} |->
                         IF live = <<price, memo>> THEN quantity ELSE orders[live]]
        /\ ret' = Pair(price, memo)

Remove(price, memo) ==
    IF <<price, memo>> \in DOMAIN orders
    THEN /\ ret' = Some(memo, orders[<<price, memo>>])
         /\ orders' = [live \in DOMAIN orders \ {<<price, memo>>} |-> orders[live]]
    ELSE /\ ret' = None
         /\ UNCHANGED orders

(* A partial fill: the order keeps its place with a smaller quantity.      *)
Reduce(price, memo) ==
    \/ /\ <<price, memo>> \in DOMAIN orders
       /\ \E quantity \in 1..(orders[<<price, memo>>] - 1) :
              /\ orders' = [orders EXCEPT ![<<price, memo>>] = quantity]
              /\ ret' = Some(memo, quantity)
    \/ /\ <<price, memo>> \notin DOMAIN orders
       /\ ret' = None
       /\ UNCHANGED orders

Next == \E price \in Prices :
    \/ \E quantity \in Quantities : Push(price, quantity)
    \/ \E memo \in Memo : Remove(price, memo) \/ Reduce(price, memo)

Spec == Init /\ [][Next]_vars
=============================================================================
