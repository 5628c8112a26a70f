-------------------------- MODULE PriceLevelsProofs --------------------------
(***************************************************************************)
(* What holds of one side of the order book for any prices, quantities and *)
(* number of levels and orders.                                            *)
(*                                                                         *)
(*  - LevelsSorted is inductive over the types.                            *)
(*  - MemosGrow and IterRelIsPriceTime follow from PInv: types, sorted     *)
(*    levels, and memos that grow but in the levels that have wrapped.     *)
(*  - The refinement of OrderIndexMap is shown of steps with no wrapped    *)
(*    level before or after them, where all memos grow (Orderly).          *)
(*                                                                         *)
(* All of it holds in either build profile.                                *)
(*                                                                         *)
(* A call replaces, adds or drops one level; Replace, Add and Drop say     *)
(* what that does to the vector, and Pushed, Taken and Reduced what a call *)
(* does to its level.  For the refinement the vectors are read as the      *)
(* relation Holds, which does not depend on positions.                     *)
(*                                                                         *)
(* The walk is a recursive function (FlattenSeq).  That it satisfies its   *)
(* equation, and keeps an order that its parts are in, is proved by        *)
(* induction (NatInd).                                                     *)
(***************************************************************************)
EXTENDS PriceLevels, SequenceTheorems, WellFoundedInduction, TLAPS

(* Vectors by their elements: Append, RemoveAt and InsertAt.               *)
LEMMA Appended ==
  ASSUME NEW S, NEW s \in Seq(S), NEW e \in S
  PROVE  /\ Append(s, e) \in Seq(S)
         /\ Len(s) \in Nat /\ DOMAIN s = 1..Len(s)
         /\ Len(Append(s, e)) = Len(s) + 1 /\ DOMAIN Append(s, e) = 1..(Len(s) + 1)
         /\ Append(s, e)[Len(s) + 1] = e
         /\ \A i \in 1..Len(s) : Append(s, e)[i] = s[i]
  BY AppendProperties, LenProperties

LEMMA Removed ==
  ASSUME NEW S, NEW s \in Seq(S), NEW i \in DOMAIN s
  PROVE  /\ RemoveAt(s, i) \in Seq(S)
         /\ Len(s) \in Nat /\ Len(RemoveAt(s, i)) = Len(s) - 1
         /\ DOMAIN RemoveAt(s, i) = 1..(Len(s) - 1)
         /\ \A j \in 1..(Len(s) - 1) : RemoveAt(s, i)[j] = IF j < i THEN s[j] ELSE s[j + 1]
<1> DEFINE a == SubSeq(s, 1, i - 1)
           b == SubSeq(s, i + 1, Len(s))
<1>1. Len(s) \in Nat /\ DOMAIN s = 1..Len(s) /\ i \in 1..Len(s) /\ \A j \in 1..Len(s) : s[j] \in S
  BY LenProperties, ElementOfSeq
<1>2. a \in Seq(S) /\ Len(a) = i - 1 /\ \A j \in 1..(i - 1) : a[j] = s[j]
  <2>1. \A j \in 1..(i - 1) : s[j] \in S BY <1>1
  <2> QED BY <1>1, <2>1, SubSeqProperties
<1>3. b \in Seq(S) /\ Len(b) = Len(s) - i /\ \A j \in 1..(Len(s) - i) : b[j] = s[i + j]
  <2>1. \A j \in (i + 1)..Len(s) : s[j] \in S BY <1>1
  <2> QED BY <1>1, <2>1, SubSeqProperties
<1> HIDE DEF a, b
<1>4. /\ a \o b \in Seq(S) /\ Len(a \o b) = Len(a) + Len(b)
      /\ \A j \in 1..(Len(a) + Len(b)) : (a \o b)[j] = IF j <= Len(a) THEN a[j] ELSE b[j - Len(a)]
  BY <1>2, <1>3, ConcatProperties
<1>5. ASSUME NEW j \in 1..(Len(s) - 1) PROVE (a \o b)[j] = IF j < i THEN s[j] ELSE s[j + 1]
  <2>1. j \in 1..(Len(a) + Len(b)) BY <1>1, <1>2, <1>3
  <2>2. CASE j < i
    <3>1. j \in 1..(i - 1) /\ j <= Len(a) BY <1>1, <1>2, <2>2
    <3> QED BY <1>2, <1>4, <2>1, <2>2, <3>1
  <2>3. CASE ~(j < i)
    <3>1. ~(j <= Len(a)) /\ j - Len(a) \in 1..(Len(s) - i) /\ i + (j - Len(a)) = j + 1
      BY <1>1, <1>2, <2>3
    <3> QED BY <1>3, <1>4, <2>1, <2>3, <3>1
  <2> QED BY <2>2, <2>3
<1>6. RemoveAt(s, i) = a \o b BY DEF RemoveAt, a, b
<1>7. Len(a \o b) = Len(s) - 1 BY <1>1, <1>2, <1>3, <1>4
<1> QED BY <1>1, <1>4, <1>5, <1>6, <1>7, LenProperties

LEMMA InsertedAt ==
  ASSUME NEW S, NEW s \in Seq(S), NEW i \in 1..(Len(s) + 1), NEW e \in S
  PROVE  /\ InsertAt(s, i, e) \in Seq(S)
         /\ Len(s) \in Nat /\ Len(InsertAt(s, i, e)) = Len(s) + 1
         /\ DOMAIN InsertAt(s, i, e) = 1..(Len(s) + 1)
         /\ InsertAt(s, i, e)[i] = e
         /\ \A j \in 1..(i - 1) : InsertAt(s, i, e)[j] = s[j]
         /\ \A j \in i..Len(s) : InsertAt(s, i, e)[j + 1] = s[j]
<1> DEFINE a == SubSeq(s, 1, i - 1)
           b == SubSeq(s, i, Len(s))
           c == a \o <<e>>
<1>1. Len(s) \in Nat /\ DOMAIN s = 1..Len(s) /\ \A j \in 1..Len(s) : s[j] \in S
  BY LenProperties, ElementOfSeq
<1>2. a \in Seq(S) /\ Len(a) = i - 1 /\ \A j \in 1..(i - 1) : a[j] = s[j]
  <2>1. \A j \in 1..(i - 1) : s[j] \in S BY <1>1
  <2> QED BY <1>1, <2>1, SubSeqProperties
<1>3. b \in Seq(S) /\ Len(b) = Len(s) - i + 1 /\ \A j \in 1..(Len(s) - i + 1) : b[j] = s[i + j - 1]
  <2>1. \A j \in i..Len(s) : s[j] \in S BY <1>1
  <2> QED BY <1>1, <2>1, SubSeqProperties
<1>4. /\ c \in Seq(S) /\ Len(c) = i /\ c[i] = e
      /\ \A j \in 1..(i - 1) : c[j] = s[j]
  <2>1. <<e>> \in Seq(S) /\ Len(<<e>>) = 1 /\ <<e>>[1] = e OBVIOUS
  <2> HIDE DEF a
  <2> QED BY <1>1, <1>2, <2>1, ConcatProperties
<1> HIDE DEF a, b, c
<1>5. /\ c \o b \in Seq(S) /\ Len(c \o b) = Len(c) + Len(b)
      /\ \A j \in 1..(Len(c) + Len(b)) : (c \o b)[j] = IF j <= Len(c) THEN c[j] ELSE b[j - Len(c)]
  BY <1>3, <1>4, ConcatProperties
<1>6. ASSUME NEW j \in 1..(Len(s) + 1)
      PROVE  (c \o b)[j] = IF j < i THEN s[j] ELSE IF j = i THEN e ELSE s[j - 1]
  <2>1. j \in 1..(Len(c) + Len(b)) BY <1>1, <1>3, <1>4
  <2>2. CASE j < i
    <3>1. j \in 1..(i - 1) /\ j <= Len(c) BY <1>1, <1>4, <2>2
    <3> QED BY <1>4, <1>5, <2>1, <2>2, <3>1
  <2>3. CASE j = i BY <1>1, <1>4, <1>5, <2>1, <2>3
  <2>4. CASE j > i
    <3>1. ~(j <= Len(c)) /\ j - i \in 1..(Len(s) - i + 1) /\ i + (j - i) - 1 = j - 1
      BY <1>1, <1>4, <2>4
    <3>2. b[j - i] = s[j - 1] BY <1>3, <3>1
    <3> QED BY <1>1, <1>4, <1>5, <2>1, <2>4, <3>1, <3>2
  <2>5. j < i \/ j = i \/ j > i BY <1>1
  <2> QED BY <2>2, <2>3, <2>4, <2>5
<1>7. InsertAt(s, i, e) = c \o b BY DEF InsertAt, a, b, c
<1>8. Len(c \o b) = Len(s) + 1 BY <1>1, <1>3, <1>4, <1>5
<1>9. (c \o b)[i] = e
  <2>1. i \in Int /\ ~(i < i) BY <1>1
  <2> QED BY <1>6, <2>1
<1>10. ASSUME NEW j \in 1..(i - 1) PROVE (c \o b)[j] = s[j]
  <2>1. j \in 1..(Len(s) + 1) /\ j < i BY <1>1
  <2> QED BY <1>6, <2>1
<1>11. ASSUME NEW j \in i..Len(s) PROVE (c \o b)[j + 1] = s[j]
  <2>1. j + 1 \in 1..(Len(s) + 1) /\ ~(j + 1 < i) /\ j + 1 # i /\ (j + 1) - 1 = j BY <1>1
  <2> QED BY <1>6, <2>1
<1> QED BY <1>1, <1>5, <1>7, <1>8, <1>9, <1>10, <1>11, LenProperties
-----------------------------------------------------------------------------
(* A level, whose orders carry its price.                                  *)
Level == {level \in PriceLevel : \A k \in DOMAIN level.inner : level.inner[k].price = level.price}

Types == inner \in Seq(Level)
Builds == profile \in {"dev", "release"}

(* A pushed order goes to the back of its level and takes memo_seq.        *)
LEMMA Pushed ==
  ASSUME NEW level \in Level, NEW quantity \in Quantities
  PROVE  /\ push_order(level, quantity) \in Level
         /\ push_order(level, quantity).price = level.price
         /\ push_order(level, quantity).memo_seq = (level.memo_seq + 1) % (MemoMax + 1)
         /\ push_order(level, quantity).inner =
               Append(level.inner, [memo |-> level.memo_seq, quantity |-> quantity, price |-> level.price])
<1> DEFINE o == [memo |-> level.memo_seq, quantity |-> quantity, price |-> level.price]
<1>1. o \in Order /\ o.price = level.price
  BY QuantitiesAssumption DEF Level, PriceLevel, Order, Quantity
<1>2. (level.memo_seq + 1) % (MemoMax + 1) \in Memo BY MemoMaxAssumption DEF Level, PriceLevel, Memo
<1>3. Append(level.inner, o) \in Seq(Order)
  <2> HIDE DEF o
  <2> QED BY <1>1, Appended DEF Level, PriceLevel
<1>4. /\ push_order(level, quantity) = [level EXCEPT !.memo_seq = (@ + 1) % (MemoMax + 1),
                                                   !.inner = Append(@, o)]
  BY DEF push_order
<1> HIDE DEF o
<1>5. /\ push_order(level, quantity).price = level.price
      /\ push_order(level, quantity).memo_seq = (level.memo_seq + 1) % (MemoMax + 1)
      /\ push_order(level, quantity).inner = Append(level.inner, o)
  BY <1>4 DEF Level, PriceLevel
<1>6. push_order(level, quantity) \in PriceLevel BY <1>2, <1>3, <1>4 DEF Level, PriceLevel
<1>7. \A k \in DOMAIN Append(level.inner, o) : Append(level.inner, o)[k].price = level.price
  <2>1. level.inner \in Seq(Order) BY DEF Level, PriceLevel
  <2>2. /\ DOMAIN level.inner = 1..Len(level.inner) /\ Len(level.inner) \in Nat
        /\ DOMAIN Append(level.inner, o) = 1..(Len(level.inner) + 1)
        /\ Append(level.inner, o)[Len(level.inner) + 1] = o
        /\ \A k \in 1..Len(level.inner) : Append(level.inner, o)[k] = level.inner[k]
    BY <1>1, <2>1, Appended
  <2>3. \A k \in 1..(Len(level.inner) + 1) : k \in 1..Len(level.inner) \/ k = Len(level.inner) + 1 BY <2>2
  <2> QED BY <1>1, <2>2, <2>3 DEF Level
<1>8. push_order(level, quantity) \in Level BY <1>5, <1>6, <1>7 DEF Level
<1> QED BY <1>5, <1>8 DEF o

LEMMA NewLevel ==
  ASSUME NEW price \in Prices
  PROVE  NewPriceLevel(price) \in Level
  BY MemoMaxAssumption DEF NewPriceLevel, Level, PriceLevel, Memo

(* The next memo, where the increment of memo_seq does not panic.          *)
LEMMA NextMemo ==
  ASSUME NEW memo \in Memo, memo # MemoMax
  PROVE  (memo + 1) % (MemoMax + 1) = memo + 1
  BY MemoMaxAssumption DEF Memo

(* The orders of a level by their memos, as MemosGrow has them.            *)
Grows(level) ==
    /\ \A k, m \in DOMAIN level.inner : k < m => level.inner[k].memo < level.inner[m].memo
    /\ \A k \in DOMAIN level.inner : level.inner[k].memo < level.memo_seq

LEMMA PushGrows ==
  ASSUME NEW level \in Level, NEW quantity \in Quantities, Grows(level), level.memo_seq # MemoMax
  PROVE  Grows(push_order(level, quantity))
<1> DEFINE o == [memo |-> level.memo_seq, quantity |-> quantity, price |-> level.price]
           new == push_order(level, quantity)
<1>1. /\ new.memo_seq = level.memo_seq + 1 /\ new.inner = Append(level.inner, o)
      /\ level.memo_seq \in Nat /\ level.inner \in Seq(Order) /\ new.inner \in Seq(Order)
  <2>1. level.memo_seq \in Memo /\ level.inner \in Seq(Order) BY DEF Level, PriceLevel
  <2>2. new \in Level /\ new.inner = Append(level.inner, o)
        /\ new.memo_seq = (level.memo_seq + 1) % (MemoMax + 1)
    BY Pushed
  <2>3. (level.memo_seq + 1) % (MemoMax + 1) = level.memo_seq + 1 BY <2>1, NextMemo
  <2>4. level.memo_seq \in Nat BY <2>1, MemoMaxAssumption DEF Memo
  <2> HIDE DEF o, new
  <2>5. new.inner \in Seq(Order) BY <2>2 DEF Level, PriceLevel
  <2> QED BY <2>1, <2>2, <2>3, <2>4, <2>5
<1>2. o \in Order /\ o.memo = level.memo_seq BY QuantitiesAssumption DEF Level, PriceLevel, Order, Quantity
<1> HIDE DEF o, new
<1>3. /\ DOMAIN level.inner = 1..Len(level.inner) /\ Len(level.inner) \in Nat
      /\ DOMAIN new.inner = 1..(Len(level.inner) + 1)
      /\ new.inner[Len(level.inner) + 1] = o
      /\ \A k \in 1..Len(level.inner) : new.inner[k] = level.inner[k]
  BY <1>1, <1>2, Appended
<1>4. \A k \in DOMAIN new.inner : new.inner[k].memo \in Nat
  <2>1. \A k \in DOMAIN new.inner : new.inner[k] \in Order BY <1>1, ElementOfSeq, LenProperties
  <2> QED BY <2>1, MemoMaxAssumption DEF Order, Memo
<1>5. ASSUME NEW k \in DOMAIN new.inner PROVE new.inner[k].memo < new.memo_seq
  BY <1>1, <1>2, <1>3, <1>4 DEF Grows
<1>6. ASSUME NEW k \in DOMAIN new.inner, NEW m \in DOMAIN new.inner, k < m
      PROVE  new.inner[k].memo < new.inner[m].memo
  BY <1>1, <1>2, <1>3, <1>4, <1>6 DEF Grows
<1> QED BY <1>5, <1>6 DEF Grows, new

(* Taking an order out keeps the others, in their order.                   *)
LEMMA Taken ==
  ASSUME NEW level \in Level, NEW k \in DOMAIN level.inner,
         NEW new, new = [level EXCEPT !.inner = RemoveAt(level.inner, k)]
  PROVE  /\ new \in Level /\ new.price = level.price /\ new.memo_seq = level.memo_seq
         /\ new.inner = RemoveAt(level.inner, k)
         /\ DOMAIN level.inner = 1..Len(level.inner) /\ Len(level.inner) \in Nat
         /\ DOMAIN new.inner = 1..(Len(level.inner) - 1)
         /\ \A j \in 1..(Len(level.inner) - 1) :
               new.inner[j] = IF j < k THEN level.inner[j] ELSE level.inner[j + 1]
<1>1. level.inner \in Seq(Order) BY DEF Level, PriceLevel
<1>2. RemoveAt(level.inner, k) \in Seq(Order) BY <1>1, Removed
<1>3. new \in PriceLevel /\ new.price = level.price /\ new.memo_seq = level.memo_seq
      /\ new.inner = RemoveAt(level.inner, k)
  BY <1>2 DEF Level, PriceLevel
<1>4. /\ DOMAIN level.inner = 1..Len(level.inner) /\ Len(level.inner) \in Nat
      /\ DOMAIN new.inner = 1..(Len(level.inner) - 1)
      /\ \A j \in 1..(Len(level.inner) - 1) :
               new.inner[j] = IF j < k THEN level.inner[j] ELSE level.inner[j + 1]
  BY <1>1, <1>3, Removed, LenProperties
<1>5. \A j \in 1..(Len(level.inner) - 1) : j \in DOMAIN level.inner /\ j + 1 \in DOMAIN level.inner BY <1>4
<1>6. new \in Level
  <2>1. \A j \in DOMAIN level.inner : level.inner[j].price = level.price BY DEF Level
  <2>2. ASSUME NEW j \in DOMAIN new.inner PROVE new.inner[j].price = new.price
    <3>1. new.inner[j] = level.inner[j] \/ new.inner[j] = level.inner[j + 1] BY <1>4
    <3> QED BY <1>3, <1>4, <1>5, <2>1, <3>1
  <2> QED BY <1>3, <2>2 DEF Level
<1> QED BY <1>3, <1>4, <1>6

LEMMA TakenGrows ==
  ASSUME NEW level \in Level, NEW k \in DOMAIN level.inner, Grows(level),
         NEW new, new = [level EXCEPT !.inner = RemoveAt(level.inner, k)]
  PROVE  Grows(new)
<1>1. /\ DOMAIN level.inner = 1..Len(level.inner) /\ Len(level.inner) \in Nat
      /\ DOMAIN new.inner = 1..(Len(level.inner) - 1) /\ new.memo_seq = level.memo_seq
      /\ \A j \in 1..(Len(level.inner) - 1) :
               new.inner[j] = IF j < k THEN level.inner[j] ELSE level.inner[j + 1]
  BY Taken
<1> DEFINE old(j) == IF j < k THEN j ELSE j + 1
<1>2. /\ \A j \in DOMAIN new.inner : old(j) \in DOMAIN level.inner /\ new.inner[j] = level.inner[old(j)]
      /\ \A j, m \in DOMAIN new.inner : j < m => old(j) < old(m)
  BY <1>1
<1> HIDE DEF old
<1> QED BY <1>1, <1>2 DEF Grows

(* A partial fill touches one quantity.                                    *)
LEMMA Reduced ==
  ASSUME NEW level \in Level, NEW k \in DOMAIN level.inner,
         NEW quantity \in 1..(level.inner[k].quantity - 1),
         NEW new, new = [level EXCEPT !.inner[k].quantity = quantity]
  PROVE  /\ new \in Level /\ new.price = level.price /\ new.memo_seq = level.memo_seq
         /\ DOMAIN new.inner = DOMAIN level.inner
         /\ \A j \in DOMAIN level.inner : new.inner[j].memo = level.inner[j].memo
         /\ \A j \in DOMAIN level.inner : j # k => new.inner[j] = level.inner[j]
         /\ new.inner[k].quantity = quantity
<1> DEFINE o == [level.inner[k] EXCEPT !.quantity = quantity]
           left == [level.inner EXCEPT ![k] = o]
<1>1. level.inner \in Seq(Order) /\ level.inner[k] \in Order BY ElementOfSeq, LenProperties DEF Level, PriceLevel
<1>2. /\ o \in Order /\ o.memo = level.inner[k].memo /\ o.quantity = quantity
      /\ o.price = level.inner[k].price
  <2>1. level.inner[k].quantity \in Nat BY <1>1 DEF Order, Quantity
  <2>2. quantity \in Quantity BY <2>1 DEF Quantity
  <2> QED BY <1>1, <2>2 DEF Order
<1>3. new = [level EXCEPT !.inner = left] OBVIOUS
<1> HIDE DEF o
<1>4. /\ left \in Seq(Order) /\ DOMAIN left = DOMAIN level.inner /\ left[k] = o
      /\ \A j \in DOMAIN level.inner : j # k => left[j] = level.inner[j]
  BY <1>1, <1>2, ExceptSeq, LenProperties
<1> HIDE DEF left
<1>5. new \in PriceLevel /\ new.price = level.price /\ new.memo_seq = level.memo_seq /\ new.inner = left
  BY <1>3, <1>4 DEF Level, PriceLevel
<1>6. ASSUME NEW j \in DOMAIN level.inner PROVE new.inner[j].memo = level.inner[j].memo
  BY <1>2, <1>4, <1>5
<1>7. new \in Level
  <2>1. \A j \in DOMAIN level.inner : level.inner[j].price = level.price BY DEF Level
  <2>2. ASSUME NEW j \in DOMAIN left PROVE left[j].price = new.price BY <1>2, <1>4, <1>5, <2>1
  <2> QED BY <1>5, <2>2 DEF Level
<1> QED BY <1>2, <1>4, <1>5, <1>6, <1>7

LEMMA ReducedGrows ==
  ASSUME NEW level \in Level, NEW k \in DOMAIN level.inner, Grows(level),
         NEW quantity \in 1..(level.inner[k].quantity - 1),
         NEW new, new = [level EXCEPT !.inner[k].quantity = quantity]
  PROVE  Grows(new)
  BY Reduced DEF Grows
-----------------------------------------------------------------------------
LEMMA Vector ==
  ASSUME Types
  PROVE  /\ Len(inner) \in Nat /\ DOMAIN inner = 1..Len(inner)
         /\ \A i \in 1..Len(inner) : inner[i] \in Level /\ inner[i].price \in Nat
<1>1. /\ Len(inner) \in Nat /\ DOMAIN inner = 1..Len(inner)
      /\ \A i \in 1..Len(inner) : inner[i] \in Level
  BY LenProperties, ElementOfSeq DEF Types
<1> QED BY <1>1, PricesAssumption DEF Level, PriceLevel

(* The memos grow in every level but those of the prices W.                *)
GrowBut(W) == \A i \in DOMAIN inner : inner[i].price \notin W => Grows(inner[i])

LEMMA MemosGrowByLevel == MemosGrow <=> GrowBut(wrapped)
  BY DEF MemosGrow, Grows, GrowBut

LEMMA MemosGrowByLevelNext == MemosGrow' <=> GrowBut(wrapped)'
  BY DEF MemosGrow, Grows, GrowBut

(* What the three ways to change the vector of levels do to it: a level is *)
(* replaced, added or dropped.                                             *)
LEMMA Replace ==
  ASSUME Types, LevelsSorted, NEW i \in DOMAIN inner, NEW new \in Level,
         new.price = inner[i].price, new.inner # <<>>, inner' = [inner EXCEPT ![i] = new], NEW W
  PROVE  /\ Types' /\ LevelsSorted'
         /\ DOMAIN inner' = DOMAIN inner /\ inner'[i] = new
         /\ \A j \in DOMAIN inner : j # i => inner'[j] = inner[j]
         /\ GrowBut(W) /\ (new.price \notin W => Grows(new)) => GrowBut(W)'
<1>1. Types' BY Vector, ExceptSeq DEF Types
<1>2. /\ DOMAIN inner' = DOMAIN inner /\ inner'[i] = new
      /\ \A j \in DOMAIN inner : j # i => inner'[j] = inner[j]
  BY Vector
<1>3. \A j \in DOMAIN inner : inner'[j].price = inner[j].price BY <1>2
<1>4. LevelsSorted' BY <1>2, <1>3 DEF LevelsSorted
<1>5. ASSUME GrowBut(W), new.price \notin W => Grows(new) PROVE GrowBut(W)'
  <2>1. \A j \in DOMAIN inner' : inner'[j].price \notin W => Grows(inner'[j])
    BY <1>2, <1>5 DEF GrowBut
  <2> QED BY <2>1 DEF Grows, GrowBut
<1> QED BY <1>1, <1>2, <1>4, <1>5

LEMMA Add ==
  ASSUME Types, LevelsSorted, NEW i \in 1..(Len(inner) + 1), NEW new \in Level,
         \A j \in 1..(i - 1) : inner[j].price < new.price,
         \A j \in i..Len(inner) : new.price < inner[j].price,
         new.inner # <<>>, inner' = InsertAt(inner, i, new), NEW W
  PROVE  /\ Types' /\ LevelsSorted'
         /\ \A j \in DOMAIN inner : \E m \in DOMAIN inner' : inner'[m] = inner[j]
         /\ i \in DOMAIN inner' /\ inner'[i] = new
         /\ \A m \in DOMAIN inner' : m # i => \E j \in DOMAIN inner : inner'[m] = inner[j]
         /\ GrowBut(W) /\ Grows(new) => GrowBut(W)'
<1>1. /\ Types' /\ DOMAIN inner' = 1..(Len(inner) + 1) /\ Len(inner) \in Nat
      /\ \A j \in 1..(Len(inner) + 1) :
            inner'[j] = IF j < i THEN inner[j] ELSE IF j = i THEN new ELSE inner[j - 1]
  <2>1. inner \in Seq(Level) BY DEF Types
  <2>2. /\ InsertAt(inner, i, new) \in Seq(Level) /\ Len(inner) \in Nat
        /\ DOMAIN InsertAt(inner, i, new) = 1..(Len(inner) + 1)
    BY <2>1, InsertedAt
  <2>3. /\ InsertAt(inner, i, new)[i] = new
        /\ \A j \in 1..(i - 1) : InsertAt(inner, i, new)[j] = inner[j]
        /\ \A j \in i..Len(inner) : InsertAt(inner, i, new)[j + 1] = inner[j]
    <3>1. InsertAt(inner, i, new)[i] = new BY <2>1, InsertedAt
    <3>2. \A j \in 1..(i - 1) : InsertAt(inner, i, new)[j] = inner[j] BY <2>1, InsertedAt
    <3>3. \A j \in i..Len(inner) : InsertAt(inner, i, new)[j + 1] = inner[j] BY <2>1, InsertedAt
    <3> QED BY <3>1, <3>2, <3>3
  <2>4. \A j \in 1..(Len(inner) + 1) : j < i => j \in 1..(i - 1) BY <2>2
  <2>5. \A j \in 1..(Len(inner) + 1) : ~(j < i) /\ j # i =>
            j - 1 \in i..Len(inner) /\ (j - 1) + 1 = j
    BY <2>2
  <2> QED BY <2>2, <2>3, <2>4, <2>5 DEF Types
<1>2. /\ DOMAIN inner = 1..Len(inner) /\ new.price \in Nat /\ \A j \in 1..Len(inner) : inner[j].price \in Nat
  BY Vector, PricesAssumption DEF Level, PriceLevel
<1>3. inner'[i] = new /\ i \in DOMAIN inner' BY <1>1
<1>4. ASSUME NEW m \in DOMAIN inner', m # i PROVE \E j \in DOMAIN inner : inner'[m] = inner[j]
  <2>1. CASE m < i BY <1>1, <1>2, <2>1
  <2>2. CASE ~(m < i)
    <3>1. m - 1 \in DOMAIN inner BY <1>1, <1>2, <1>4, <2>2
    <3> QED BY <1>1, <1>4, <2>2, <3>1
  <2> QED BY <2>1, <2>2
<1>5. ASSUME NEW j \in DOMAIN inner PROVE \E m \in DOMAIN inner' : inner'[m] = inner[j]
  <2>1. CASE j < i BY <1>1, <1>2, <2>1
  <2>2. CASE ~(j < i)
    <3>1. j + 1 \in DOMAIN inner' /\ ~(j + 1 < i) /\ j + 1 # i /\ (j + 1) - 1 = j BY <1>1, <1>2, <2>2
    <3> QED BY <1>1, <3>1
  <2> QED BY <2>1, <2>2
<1>6. ASSUME NEW a \in DOMAIN inner', NEW b \in DOMAIN inner', a < b
      PROVE  inner'[a].price < inner'[b].price
  <2>1. CASE b < i
    <3>1. a \in DOMAIN inner /\ b \in DOMAIN inner /\ a < i BY <1>1, <1>2, <1>6, <2>1
    <3> QED BY <1>1, <1>6, <2>1, <3>1 DEF LevelsSorted
  <2>2. CASE b = i
    <3>1. a \in 1..(i - 1) /\ a < i BY <1>1, <1>6, <2>2
    <3> QED BY <1>1, <1>3, <2>2, <3>1
  <2>3. CASE b > i /\ a < i
    <3>1. a \in 1..(i - 1) /\ a \in DOMAIN inner /\ b - 1 \in i..Len(inner) /\ b - 1 \in DOMAIN inner
          /\ ~(b < i) /\ b # i
      BY <1>1, <1>2, <2>3
    <3>2. inner'[a] = inner[a] /\ inner'[b] = inner[b - 1] BY <1>1, <2>3, <3>1
    <3>3. inner[a].price < new.price /\ new.price < inner[b - 1].price BY <3>1
    <3> QED BY <1>2, <3>1, <3>2, <3>3
  <2>4. CASE b > i /\ a = i
    <3>1. b - 1 \in i..Len(inner) /\ ~(b < i) /\ b # i BY <1>1, <1>2, <2>4
    <3> QED BY <1>1, <1>3, <2>4, <3>1
  <2>5. CASE b > i /\ a > i
    <3>1. a - 1 \in DOMAIN inner /\ b - 1 \in DOMAIN inner /\ a - 1 < b - 1
          /\ ~(b < i) /\ b # i /\ ~(a < i) /\ a # i
      BY <1>1, <1>2, <1>6, <2>5
    <3> QED BY <1>1, <3>1 DEF LevelsSorted
  <2>6. (b < i \/ b = i \/ b > i) /\ (a < i \/ a = i \/ a > i) BY <1>1
  <2> QED BY <2>1, <2>2, <2>3, <2>4, <2>5, <2>6
<1>7. \A m \in DOMAIN inner' : inner'[m].inner # <<>> BY <1>3, <1>4 DEF LevelsSorted
<1>8. ASSUME GrowBut(W), Grows(new) PROVE GrowBut(W)'
  <2>1. \A j \in DOMAIN inner' : inner'[j].price \notin W => Grows(inner'[j])
    BY <1>3, <1>4, <1>8 DEF GrowBut
  <2> QED BY <2>1 DEF Grows, GrowBut
<1> QED BY <1>1, <1>3, <1>4, <1>5, <1>6, <1>7, <1>8 DEF LevelsSorted

(* Prices tell the levels apart.                                          *)
LEMMA PricesApart ==
  ASSUME Types, LevelsSorted, NEW i \in DOMAIN inner, NEW j \in DOMAIN inner,
         inner[i].price = inner[j].price
  PROVE  i = j
<1>1. SUFFICES ASSUME i # j PROVE FALSE OBVIOUS
<1>2. i < j \/ j < i BY <1>1, Vector
<1>3. inner[i].price \in Nat /\ inner[j].price \in Nat BY Vector
<1> QED BY <1>2, <1>3 DEF LevelsSorted

LEMMA Drop ==
  ASSUME Types, LevelsSorted, NEW i \in DOMAIN inner, inner' = RemoveAt(inner, i), NEW W
  PROVE  /\ Types' /\ LevelsSorted'
         /\ \A j \in DOMAIN inner : j # i => \E m \in DOMAIN inner' : inner'[m] = inner[j]
         /\ \A m \in DOMAIN inner' : \E j \in DOMAIN inner : j # i /\ inner'[m] = inner[j]
         /\ GrowBut(W \union {inner[i].price}) => GrowBut(W)'
<1>1. /\ Types' /\ DOMAIN inner' = 1..(Len(inner) - 1) /\ Len(inner) \in Nat
      /\ \A j \in 1..(Len(inner) - 1) : inner'[j] = IF j < i THEN inner[j] ELSE inner[j + 1]
  BY Removed DEF Types
<1>2. DOMAIN inner = 1..Len(inner) BY Vector
<1> DEFINE old(m) == IF m < i THEN m ELSE m + 1
<1>3. /\ \A m \in DOMAIN inner' : old(m) \in DOMAIN inner /\ old(m) # i /\ inner'[m] = inner[old(m)]
      /\ \A a, b \in DOMAIN inner' : a < b => old(a) < old(b)
  BY <1>1, <1>2
<1>4. ASSUME NEW j \in DOMAIN inner, j # i PROVE \E m \in DOMAIN inner' : inner'[m] = inner[j]
  <2>1. CASE j < i BY <1>1, <1>2, <2>1
  <2>2. CASE ~(j < i)
    <3>1. j - 1 \in DOMAIN inner' /\ ~(j - 1 < i) /\ (j - 1) + 1 = j BY <1>1, <1>2, <1>4, <2>2
    <3> QED BY <1>1, <3>1
  <2> QED BY <2>1, <2>2
<1> HIDE DEF old
<1>5. LevelsSorted' BY <1>3 DEF LevelsSorted
<1>6. ASSUME GrowBut(W \union {inner[i].price}) PROVE GrowBut(W)'
  <2>1. \A j \in DOMAIN inner : j # i => inner[j].price # inner[i].price BY PricesApart
  <2>2. \A j \in DOMAIN inner' : inner'[j].price \notin W => Grows(inner'[j])
    BY <1>3, <1>6, <2>1 DEF GrowBut
  <2> QED BY <2>2 DEF Grows, GrowBut
<1> QED BY <1>1, <1>3, <1>4, <1>5, <1>6
-----------------------------------------------------------------------------
(* Each call, in these terms.                                              *)
LEMMA PushExisting ==
  ASSUME Types, LevelsSorted, NEW i \in DOMAIN inner, NEW quantity \in Quantities,
         ~IncrementPanics(inner[i]), inner' = [inner EXCEPT ![i] = push_order(@, quantity)]
  PROVE  /\ Types' /\ LevelsSorted'
         /\ DOMAIN inner' = DOMAIN inner /\ inner'[i] = push_order(inner[i], quantity)
         /\ \A j \in DOMAIN inner : j # i => inner'[j] = inner[j]
         /\ /\ Builds /\ MemosGrow
            /\ wrapped' = IF IncrementWraps(inner[i]) THEN wrapped \union {inner[i].price} ELSE wrapped
            => MemosGrow'
<1> DEFINE new == push_order(inner[i], quantity)
           o == [memo |-> inner[i].memo_seq, quantity |-> quantity, price |-> inner[i].price]
<1>1. inner[i] \in Level BY Vector
<1>2. new \in Level /\ new.price = inner[i].price /\ new.inner = Append(inner[i].inner, o)
  BY <1>1, Pushed
<1>3. new.inner # <<>>
  <2>1. o \in Order BY <1>1, QuantitiesAssumption DEF Level, PriceLevel, Order, Quantity
  <2> HIDE DEF o, new
  <2> QED BY <1>1, <1>2, <2>1, AppendProperties DEF Level, PriceLevel
<1>4. ASSUME Builds, MemosGrow, NEW W,
             W = IF IncrementWraps(inner[i]) THEN wrapped \union {inner[i].price} ELSE wrapped
      PROVE  GrowBut(W) /\ (new.price \notin W => Grows(new))
  <2>1. GrowBut(W) BY <1>4, MemosGrowByLevel DEF GrowBut
  <2>2. ASSUME inner[i].price \notin W PROVE inner[i].memo_seq # MemoMax
    BY <1>4, <2>2 DEF IncrementPanics, IncrementWraps, Builds
  <2>3. ASSUME inner[i].price \notin W PROVE Grows(new)
    BY <1>1, <2>1, <2>2, <2>3, PushGrows DEF GrowBut
  <2> HIDE DEF new
  <2> QED BY <1>2, <2>1, <2>3
<1>5. inner' = [inner EXCEPT ![i] = new] OBVIOUS
<1> HIDE DEF new
<1>6. /\ Types' /\ LevelsSorted'
      /\ DOMAIN inner' = DOMAIN inner /\ inner'[i] = new
      /\ \A j \in DOMAIN inner : j # i => inner'[j] = inner[j]
  BY <1>2, <1>3, <1>5, Replace
<1>7. ASSUME Builds, MemosGrow,
             wrapped' = IF IncrementWraps(inner[i]) THEN wrapped \union {inner[i].price} ELSE wrapped
      PROVE  MemosGrow'
  <2>1. PICK W : W = wrapped' OBVIOUS
  <2>2. GrowBut(W)' BY <1>2, <1>3, <1>4, <1>5, <1>7, <2>1, Replace
  <2> QED BY <2>1, <2>2, MemosGrowByLevelNext DEF GrowBut, Grows
<1> QED BY <1>6, <1>7 DEF new

LEMMA PushNew ==
  ASSUME Types, LevelsSorted, NEW price \in Prices, NEW quantity \in Quantities,
         NEW i \in 1..(Len(inner) + 1),
         \A j \in 1..(i - 1) : inner[j].price < price,
         \A j \in i..Len(inner) : price < inner[j].price,
         inner' = InsertAt(inner, i, push_order(NewPriceLevel(price), quantity))
  PROVE  /\ Types' /\ LevelsSorted'
         /\ \A j \in DOMAIN inner : \E m \in DOMAIN inner' : inner'[m] = inner[j]
         /\ i \in DOMAIN inner'
         /\ inner'[i].price = price /\ inner'[i].inner = <<[memo |-> 0, quantity |-> quantity, price |-> price]>>
         /\ \A m \in DOMAIN inner' : m # i => \E j \in DOMAIN inner : inner'[m] = inner[j]
         /\ MemosGrow /\ wrapped' = wrapped => MemosGrow'
<1> DEFINE new == push_order(NewPriceLevel(price), quantity)
           o == [memo |-> 0, quantity |-> quantity, price |-> price]
<1>1. /\ NewPriceLevel(price) \in Level /\ NewPriceLevel(price).memo_seq = 0
      /\ NewPriceLevel(price).price = price /\ NewPriceLevel(price).inner = <<>>
  BY NewLevel DEF NewPriceLevel
<1>2. new \in Level /\ new.price = price /\ new.inner = <<o>>
  <2>1. new \in Level /\ new.price = price /\ new.inner = Append(<<>>, o) BY <1>1, Pushed
  <2> HIDE DEF o, new
  <2> QED BY <2>1
<1>3. new.inner # <<>> BY <1>2
<1>4. Grows(new)
  <2>1. Grows(NewPriceLevel(price)) BY <1>1 DEF Grows
  <2> QED BY <1>1, <2>1, MemoMaxAssumption, PushGrows
<1> HIDE DEF new
<1>5. inner' = InsertAt(inner, i, new) BY DEF new
<1>6. /\ Types' /\ LevelsSorted'
      /\ \A j \in DOMAIN inner : \E m \in DOMAIN inner' : inner'[m] = inner[j]
      /\ i \in DOMAIN inner' /\ inner'[i] = new
      /\ \A m \in DOMAIN inner' : m # i => \E j \in DOMAIN inner : inner'[m] = inner[j]
  BY <1>2, <1>3, <1>5, Add
<1>7. ASSUME MemosGrow, wrapped' = wrapped PROVE MemosGrow'
  <2>1. PICK W : W = wrapped OBVIOUS
  <2>2. GrowBut(W) BY <1>7, <2>1, MemosGrowByLevel
  <2>3. GrowBut(W)' BY <1>2, <1>3, <1>4, <1>5, <2>2, Add
  <2> QED BY <1>7, <2>1, <2>3, MemosGrowByLevelNext DEF GrowBut, Grows
<1> QED BY <1>2, <1>6, <1>7

LEMMA TakeKeeps ==
  ASSUME Types, LevelsSorted, NEW i \in DOMAIN inner, NEW k \in DOMAIN inner[i].inner,
         inner' = WithoutOrder(i, k)
  PROVE  /\ Types' /\ LevelsSorted'
         /\ /\ MemosGrow
            /\ wrapped' = IF Len(inner[i].inner) = 1 THEN wrapped \ {inner[i].price} ELSE wrapped
            => MemosGrow'
<1> DEFINE left == RemoveAt(inner[i].inner, k)
           new == [inner[i] EXCEPT !.inner = left]
<1>1. inner[i] \in Level BY Vector
<1>2. new \in Level /\ new.price = inner[i].price /\ new.inner = left BY <1>1, Taken
<1>3. left = <<>> => Len(inner[i].inner) = 1
  <2>1. /\ DOMAIN inner[i].inner = 1..Len(inner[i].inner) /\ Len(inner[i].inner) \in Nat
        /\ DOMAIN left = 1..(Len(inner[i].inner) - 1)
    BY <1>1, <1>2, Taken
  <2>2. left = <<>> => DOMAIN left = {} OBVIOUS
  <2> HIDE DEF left, new
  <2>3. PICK n : n = Len(inner[i].inner) OBVIOUS
  <2>4. n \in Nat /\ k \in 1..n BY <2>1, <2>3
  <2>5. left = <<>> => 1..(n - 1) = {} BY <2>1, <2>2, <2>3
  <2>6. n # 1 => 1 \in 1..(n - 1) BY <2>4
  <2> QED BY <2>3, <2>5, <2>6
<1>4. left # <<>> => Len(inner[i].inner) # 1
  <2>1. inner[i].inner \in Seq(Order) BY <1>1 DEF Level, PriceLevel
  <2>2. left \in Seq(Order) /\ Len(left) = Len(inner[i].inner) - 1 BY <2>1, Removed
  <2> HIDE DEF left
  <2>3. left # <<>> => Len(left) # 0 BY <2>2, EmptySeq
  <2> QED BY <2>2, <2>3
<1>5. CASE left = <<>>
  <2>1. inner' = RemoveAt(inner, i) BY <1>5 DEF WithoutOrder
  <2>2. ASSUME MemosGrow, NEW W, W = wrapped \ {inner[i].price} PROVE GrowBut(W)'
    <3>1. GrowBut(W \union {inner[i].price}) BY <2>2, MemosGrowByLevel DEF GrowBut
    <3> QED BY <2>1, <3>1, Drop
  <2>3. ASSUME MemosGrow, wrapped' = wrapped \ {inner[i].price} PROVE MemosGrow'
    <3>1. PICK W : W = wrapped' OBVIOUS
    <3> QED BY <2>2, <2>3, <3>1, MemosGrowByLevelNext DEF GrowBut, Grows
  <2> QED BY <1>3, <1>5, <2>1, <2>3, Drop
<1>6. CASE left # <<>>
  <2>1. inner' = [inner EXCEPT ![i] = new] BY <1>6 DEF WithoutOrder
  <2>2. Grows(inner[i]) => Grows(new) BY <1>1, TakenGrows
  <2> HIDE DEF new, left
  <2>3. Types' /\ LevelsSorted' BY <1>2, <1>6, <2>1, Replace
  <2>4. ASSUME MemosGrow, wrapped' = wrapped PROVE MemosGrow'
    <3>1. PICK W : W = wrapped OBVIOUS
    <3>2. GrowBut(W) BY <2>4, <3>1, MemosGrowByLevel
    <3>3. new.price \notin W => Grows(new) BY <1>2, <2>2, <3>2 DEF GrowBut
    <3>4. GrowBut(W)' BY <1>2, <1>6, <2>1, <3>2, <3>3, Replace
    <3> QED BY <2>4, <3>1, <3>4, MemosGrowByLevelNext DEF GrowBut, Grows
  <2> QED BY <1>4, <1>6, <2>3, <2>4
<1> QED BY <1>5, <1>6

LEMMA ReduceKeeps ==
  ASSUME Types, LevelsSorted, NEW i \in DOMAIN inner, NEW k \in DOMAIN inner[i].inner,
         NEW quantity \in 1..(inner[i].inner[k].quantity - 1),
         inner' = [inner EXCEPT ![i].inner[k].quantity = quantity]
  PROVE  /\ Types' /\ LevelsSorted' /\ (MemosGrow /\ wrapped' = wrapped => MemosGrow')
         /\ DOMAIN inner' = DOMAIN inner
         /\ inner'[i] = [inner[i] EXCEPT !.inner[k].quantity = quantity]
         /\ \A j \in DOMAIN inner : j # i => inner'[j] = inner[j]
<1> DEFINE new == [inner[i] EXCEPT !.inner[k].quantity = quantity]
<1>1. inner[i] \in Level BY Vector
<1>2. new \in Level /\ new.price = inner[i].price /\ DOMAIN new.inner = DOMAIN inner[i].inner
  BY <1>1, Reduced
<1>3. inner' = [inner EXCEPT ![i] = new] OBVIOUS
<1>4. Grows(inner[i]) => Grows(new) BY <1>1, ReducedGrows
<1> HIDE DEF new
<1>5. new.inner # <<>> BY <1>2
<1>6. /\ Types' /\ LevelsSorted'
      /\ DOMAIN inner' = DOMAIN inner /\ inner'[i] = new
      /\ \A j \in DOMAIN inner : j # i => inner'[j] = inner[j]
  BY <1>2, <1>3, <1>5, Replace
<1>7. ASSUME MemosGrow, wrapped' = wrapped PROVE MemosGrow'
  <2>1. PICK W : W = wrapped OBVIOUS
  <2>2. GrowBut(W) BY <1>7, <2>1, MemosGrowByLevel
  <2>3. new.price \notin W => Grows(new) BY <1>2, <1>4, <2>2 DEF GrowBut
  <2>4. GrowBut(W)' BY <1>2, <1>3, <1>5, <2>2, <2>3, Replace
  <2> QED BY <1>7, <2>1, <2>4, MemosGrowByLevelNext DEF GrowBut, Grows
<1> QED BY <1>6, <1>7 DEF new

LEMMA LevelsNext ==
  ASSUME Types, LevelsSorted, [Next]_vars
  PROVE  Types' /\ LevelsSorted' /\ (Builds => Builds') /\ (Builds /\ MemosGrow => MemosGrow')
<1>1. ASSUME NEW price \in Prices, NEW quantity \in Quantities, PushToExistingLevel(price, quantity)
      PROVE  Types' /\ LevelsSorted' /\ UNCHANGED profile /\ (Builds /\ MemosGrow => MemosGrow')
  <2>1. PICK i \in DOMAIN inner :
            /\ inner[i].price = price
            /\ IF IncrementPanics(inner[i]) THEN UNCHANGED <<inner, wrapped>>
               ELSE /\ inner' = [inner EXCEPT ![i] = push_order(@, quantity)]
                    /\ wrapped' = IF IncrementWraps(inner[i]) THEN wrapped \union {price} ELSE wrapped
            /\ UNCHANGED profile
    BY <1>1 DEF PushToExistingLevel
  <2>2. CASE IncrementPanics(inner[i])
    <3>1. UNCHANGED <<inner, wrapped, profile>> BY <2>1, <2>2
    <3> QED BY <3>1 DEF Types, LevelsSorted, MemosGrow
  <2>3. CASE ~IncrementPanics(inner[i])
    <3>1. /\ inner' = [inner EXCEPT ![i] = push_order(@, quantity)]
          /\ wrapped' = IF IncrementWraps(inner[i]) THEN wrapped \union {inner[i].price} ELSE wrapped
      BY <2>1, <2>3
    <3> QED BY <2>1, <2>3, <3>1, PushExisting
  <2> QED BY <2>2, <2>3
<1>2. ASSUME NEW price \in Prices, NEW quantity \in Quantities, PushToNewLevel(price, quantity)
      PROVE  Types' /\ LevelsSorted' /\ UNCHANGED profile /\ (MemosGrow => MemosGrow')
  <2>1. PICK i \in 1..(Len(inner) + 1) :
            /\ \A j \in 1..(i - 1) : inner[j].price < price
            /\ \A j \in i..Len(inner) : price < inner[j].price
            /\ inner' = InsertAt(inner, i, push_order(NewPriceLevel(price), quantity))
            /\ UNCHANGED <<profile, wrapped>>
    BY <1>2 DEF PushToNewLevel
  <2> QED BY <2>1, PushNew
<1>3. ASSUME NEW price \in Prices, NEW memo \in Memo, NotFound(price, memo)
      PROVE  Types' /\ LevelsSorted' /\ UNCHANGED profile /\ (MemosGrow => MemosGrow')
  BY <1>3 DEF NotFound, Types, LevelsSorted, MemosGrow
<1>4. ASSUME NEW price \in Prices, NEW memo \in Memo, remove_order_from_level(price, memo)
      PROVE  Types' /\ LevelsSorted' /\ UNCHANGED profile /\ (MemosGrow => MemosGrow')
  <2>1. CASE NotFound(price, memo) BY <1>3, <2>1
  <2>2. CASE \E i \in DOMAIN inner : \E k \in DOMAIN inner[i].inner :
                /\ inner' = WithoutOrder(i, k)
                /\ wrapped' = IF Len(inner[i].inner) = 1 THEN wrapped \ {inner[i].price} ELSE wrapped
                /\ UNCHANGED profile
    BY <2>2, TakeKeeps
  <2> QED BY <1>4, <2>1, <2>2 DEF remove_order_from_level
<1>5. ASSUME NEW price \in Prices, NEW memo \in Memo, get_mut(price, memo)
      PROVE  Types' /\ LevelsSorted' /\ UNCHANGED profile /\ (MemosGrow => MemosGrow')
  <2>1. CASE NotFound(price, memo) BY <1>3, <2>1
  <2>2. CASE \E i \in DOMAIN inner : \E k \in DOMAIN inner[i].inner :
                \E quantity \in 1..(inner[i].inner[k].quantity - 1) :
                    /\ inner' = [inner EXCEPT ![i].inner[k].quantity = quantity]
                    /\ UNCHANGED <<profile, wrapped>>
    BY <2>2, ReduceKeeps
  <2> QED BY <1>5, <2>1, <2>2, ZenonT(60) DEF get_mut
<1>6. CASE UNCHANGED vars BY <1>6 DEF vars, Types, LevelsSorted, MemosGrow, Builds
<1> QED BY <1>1, <1>2, <1>4, <1>5, <1>6 DEF Next, Builds

(* MultiplePriceLevels::inner stays strictly sorted by price and free of   *)
(* empty levels, whatever was pushed, removed and reduced: the contract of *)
(* every binary_search_by_key.                                             *)
THEOREM LevelsStaySorted == Spec => []LevelsSorted
<1>1. Init => Types /\ LevelsSorted BY DEF Init, Types, LevelsSorted
<1>2. Types /\ LevelsSorted /\ [Next]_vars => (Types /\ LevelsSorted)' BY LevelsNext
<1> QED BY <1>1, <1>2, PTL DEF Spec

PInv == Types /\ LevelsSorted /\ Builds /\ MemosGrow

LEMMA PInvInit == Init => PInv BY DEF Init, PInv, Types, LevelsSorted, Builds, MemosGrow

LEMMA PInvNext == ASSUME PInv, [Next]_vars PROVE PInv' BY LevelsNext DEF PInv

(* In either build the memos of a level grow from front to back and stay   *)
(* below memo_seq, so the pair push_order hands out names no other live    *)
(* order, unless the level's memo_seq has wrapped (release only).          *)
THEOREM MemosKeepGrowing == Spec => []MemosGrow
<1>1. PInv /\ [Next]_vars => PInv' BY PInvNext
<1>2. PInv => MemosGrow BY DEF PInv
<1> QED BY <1>1, <1>2, PInvInit, PTL DEF Spec

(* No level has wrapped: the memos of every level grow.                    *)
Orderly == PInv /\ wrapped = {}

LEMMA AllGrow ==
  ASSUME Orderly
  PROVE  \A i \in DOMAIN inner : Grows(inner[i])
  BY MemosGrowByLevel DEF Orderly, PInv, GrowBut
-----------------------------------------------------------------------------
(* The contents of a level and of the vector of levels as relations.       *)
HoldsIn(level, memo, quantity) ==
    \E k \in DOMAIN level.inner : level.inner[k].memo = memo /\ level.inner[k].quantity = quantity

Holds(price, memo, quantity) ==
    \E i \in DOMAIN inner : inner[i].price = price /\ HoldsIn(inner[i], memo, quantity)

(* Memos tell the orders of a level apart.                                 *)
LEMMA MemosApart ==
  ASSUME NEW level \in Level, Grows(level)
  PROVE  /\ DOMAIN level.inner = 1..Len(level.inner) /\ Len(level.inner) \in Nat
         /\ \A k \in DOMAIN level.inner : level.inner[k].memo \in Nat
         /\ \A k, m \in DOMAIN level.inner : level.inner[k].memo = level.inner[m].memo => k = m
<1>1. level.inner \in Seq(Order) BY DEF Level, PriceLevel
<1>2. DOMAIN level.inner = 1..Len(level.inner) /\ Len(level.inner) \in Nat BY <1>1, LenProperties
<1>3. \A k \in DOMAIN level.inner : level.inner[k].memo \in Nat
  <2>1. \A k \in DOMAIN level.inner : level.inner[k] \in Order BY <1>1, <1>2, ElementOfSeq
  <2> QED BY <2>1, MemoMaxAssumption DEF Order, Memo
<1>4. ASSUME NEW k \in DOMAIN level.inner, NEW m \in DOMAIN level.inner,
             level.inner[k].memo = level.inner[m].memo, k # m
      PROVE  FALSE
  <2>1. k < m \/ m < k BY <1>2, <1>4
  <2> QED BY <1>3, <1>4, <2>1 DEF Grows
<1> QED BY <1>2, <1>3, <1>4

LEMMA PushHolds ==
  ASSUME NEW level \in Level, NEW quantity \in Quantities, NEW m, NEW q
  PROVE  HoldsIn(push_order(level, quantity), m, q) <=>
            HoldsIn(level, m, q) \/ (m = level.memo_seq /\ q = quantity)
<1> DEFINE o == [memo |-> level.memo_seq, quantity |-> quantity, price |-> level.price]
           new == push_order(level, quantity)
<1>1. new.inner = Append(level.inner, o) /\ level.inner \in Seq(Order) BY Pushed DEF Level, PriceLevel
<1>2. o \in Order /\ o.memo = level.memo_seq /\ o.quantity = quantity
  BY QuantitiesAssumption DEF Level, PriceLevel, Order, Quantity
<1> HIDE DEF o, new
<1>3. /\ DOMAIN level.inner = 1..Len(level.inner) /\ Len(level.inner) \in Nat
      /\ DOMAIN new.inner = 1..(Len(level.inner) + 1)
      /\ new.inner[Len(level.inner) + 1] = o
      /\ \A k \in 1..Len(level.inner) : new.inner[k] = level.inner[k]
  BY <1>1, <1>2, Appended
<1>4. ASSUME HoldsIn(new, m, q) PROVE HoldsIn(level, m, q) \/ (m = level.memo_seq /\ q = quantity)
  <2>1. PICK k \in DOMAIN new.inner : new.inner[k].memo = m /\ new.inner[k].quantity = q BY <1>4 DEF HoldsIn
  <2>2. k \in 1..Len(level.inner) \/ k = Len(level.inner) + 1 BY <1>3
  <2> QED BY <1>2, <1>3, <2>1, <2>2 DEF HoldsIn
<1>5. ASSUME HoldsIn(level, m, q) PROVE HoldsIn(new, m, q)
  <2>1. \A k \in DOMAIN level.inner : k \in DOMAIN new.inner BY <1>3
  <2> QED BY <1>3, <1>5, <2>1 DEF HoldsIn
<1>6. ASSUME m = level.memo_seq, q = quantity PROVE HoldsIn(new, m, q)
  <2>1. Len(level.inner) + 1 \in DOMAIN new.inner BY <1>3
  <2> QED BY <1>2, <1>3, <1>6, <2>1 DEF HoldsIn
<1> QED BY <1>4, <1>5, <1>6 DEF new

LEMMA TakeHolds ==
  ASSUME NEW level \in Level, NEW k \in DOMAIN level.inner, Grows(level),
         NEW new, new = [level EXCEPT !.inner = RemoveAt(level.inner, k)], NEW m, NEW q
  PROVE  HoldsIn(new, m, q) <=> HoldsIn(level, m, q) /\ m # level.inner[k].memo
<1>1. /\ DOMAIN level.inner = 1..Len(level.inner) /\ Len(level.inner) \in Nat
      /\ DOMAIN new.inner = 1..(Len(level.inner) - 1)
      /\ \A j \in 1..(Len(level.inner) - 1) :
               new.inner[j] = IF j < k THEN level.inner[j] ELSE level.inner[j + 1]
  BY Taken
<1>2. ASSUME HoldsIn(new, m, q) PROVE HoldsIn(level, m, q) /\ m # level.inner[k].memo
  <2>1. PICK j \in DOMAIN new.inner : new.inner[j].memo = m /\ new.inner[j].quantity = q BY <1>2 DEF HoldsIn
  <2>2. PICK l \in DOMAIN level.inner : l # k /\ new.inner[j] = level.inner[l]
    <3>1. CASE j < k BY <1>1, <3>1
    <3>2. CASE ~(j < k)
      <4>1. j + 1 \in DOMAIN level.inner /\ j + 1 # k BY <1>1, <3>2
      <4> QED BY <1>1, <3>2, <4>1
    <3> QED BY <3>1, <3>2
  <2> QED BY <2>1, <2>2, MemosApart DEF HoldsIn
<1>3. ASSUME HoldsIn(level, m, q), m # level.inner[k].memo PROVE HoldsIn(new, m, q)
  <2>1. PICK l \in DOMAIN level.inner : level.inner[l].memo = m /\ level.inner[l].quantity = q
    BY <1>3 DEF HoldsIn
  <2>2. l # k BY <1>3, <2>1
  <2>3. PICK j \in DOMAIN new.inner : new.inner[j] = level.inner[l]
    <3>1. CASE l < k BY <1>1, <3>1
    <3>2. CASE ~(l < k)
      <4>1. l - 1 \in DOMAIN new.inner /\ ~(l - 1 < k) /\ (l - 1) + 1 = l BY <1>1, <2>2, <3>2
      <4> QED BY <1>1, <4>1
    <3> QED BY <3>1, <3>2
  <2> QED BY <2>1, <2>3 DEF HoldsIn
<1> QED BY <1>2, <1>3

LEMMA ReduceHolds ==
  ASSUME NEW level \in Level, NEW k \in DOMAIN level.inner, Grows(level),
         NEW quantity \in 1..(level.inner[k].quantity - 1),
         NEW new, new = [level EXCEPT !.inner[k].quantity = quantity], NEW m, NEW q
  PROVE  HoldsIn(new, m, q) <=>
            \/ HoldsIn(level, m, q) /\ m # level.inner[k].memo
            \/ m = level.inner[k].memo /\ q = quantity
<1>1. /\ DOMAIN new.inner = DOMAIN level.inner
      /\ \A j \in DOMAIN level.inner : new.inner[j].memo = level.inner[j].memo
      /\ \A j \in DOMAIN level.inner : j # k => new.inner[j] = level.inner[j]
      /\ new.inner[k].quantity = quantity
  BY Reduced
<1>2. \A j \in DOMAIN level.inner : level.inner[j].memo = level.inner[k].memo => j = k BY MemosApart
<1> QED BY <1>1, <1>2 DEF HoldsIn

(* The contents of the vector, when one level of it changes.               *)
LEMMA ReplaceHolds ==
  ASSUME Types, LevelsSorted, NEW i \in DOMAIN inner, NEW new, new.price = inner[i].price,
         DOMAIN inner' = DOMAIN inner, inner'[i] = new,
         \A j \in DOMAIN inner : j # i => inner'[j] = inner[j],
         NEW p, NEW m, NEW q
  PROVE  Holds(p, m, q)' <=> IF p = inner[i].price THEN HoldsIn(new, m, q) ELSE Holds(p, m, q)
<1>1. CASE p = inner[i].price
  <2>1. \A j \in DOMAIN inner : inner'[j].price = p => j = i BY <1>1, PricesApart
  <2>2. Holds(p, m, q)' <=> HoldsIn(inner'[i], m, q) BY <1>1, <2>1 DEF Holds, HoldsIn
  <2> QED BY <1>1, <2>2
<1>2. CASE p # inner[i].price
  <2>1. \A j \in DOMAIN inner : inner'[j].price = p => inner'[j] = inner[j] BY <1>2
  <2>2. \A j \in DOMAIN inner : inner[j].price = p => inner'[j] = inner[j] BY <1>2
  <2>3. Holds(p, m, q)' <=> Holds(p, m, q) BY <2>1, <2>2 DEF Holds, HoldsIn
  <2> QED BY <1>2, <2>3
<1> QED BY <1>1, <1>2

LEMMA HoldsOf ==
  ASSUME Types, LevelsSorted, NEW i \in DOMAIN inner, NEW m, NEW q
  PROVE  Holds(inner[i].price, m, q) <=> HoldsIn(inner[i], m, q)
<1>1. \A j \in DOMAIN inner : inner[j].price = inner[i].price => j = i BY PricesApart
<1> QED BY <1>1 DEF Holds
-----------------------------------------------------------------------------
(* The map that the vectors implement has the same contents.               *)
Viewed ==
    /\ \A p, m, q : Holds(p, m, q) => <<p, m>> \in Live /\ QuantityOf(<<p, m>>) = q
    /\ \A pair \in Live : \E p, m, q : pair = <<p, m>> /\ Holds(p, m, q)

LEMMA View == Orderly => Viewed
<1> SUFFICES ASSUME Orderly PROVE Viewed OBVIOUS
<1> USE DEF Orderly, PInv
<1>1. ASSUME NEW p, NEW m, NEW q, Holds(p, m, q)
      PROVE  <<p, m>> \in Live /\ QuantityOf(<<p, m>>) = q
  <2>1. PICK i \in DOMAIN inner : inner[i].price = p /\ HoldsIn(inner[i], m, q) BY <1>1 DEF Holds
  <2>2. PICK k \in DOMAIN inner[i].inner : inner[i].inner[k].memo = m /\ inner[i].inner[k].quantity = q
    BY <2>1 DEF HoldsIn
  <2>3. <<p, m>> \in Live BY <2>1, <2>2 DEF Live
  <2>4. \A j \in DOMAIN inner : inner[j].price = p => j = i BY <2>1, PricesApart
  <2>5. inner[i] \in Level /\ Grows(inner[i]) BY Vector, AllGrow
  <2>6. \A j \in DOMAIN inner[i].inner : inner[i].inner[j].memo = m => j = k BY <2>2, <2>5, MemosApart
  <2>7. IsPosition(inner[i], m, k)
    <3>1. \A j \in 1..(k - 1) : j \in DOMAIN inner[i].inner /\ j # k BY <2>5, MemosApart
    <3> QED BY <2>2, <2>6, <3>1 DEF IsPosition
  <2>8. \A j \in DOMAIN inner[i].inner : IsPosition(inner[i], m, j) => j = k BY <2>6 DEF IsPosition
  <2> DEFINE pair == <<p, m>>
             i0 == CHOOSE j \in DOMAIN inner : inner[j].price = pair[1]
             k0 == CHOOSE j \in DOMAIN inner[i0].inner : IsPosition(inner[i0], pair[2], j)
  <2>9. i0 = i BY <2>1, <2>4
  <2>10. k0 = k BY <2>7, <2>8, <2>9
  <2>11. QuantityOf(pair) = inner[i0].inner[k0].quantity BY DEF QuantityOf
  <2> QED BY <2>2, <2>3, <2>9, <2>10, <2>11
<1>2. ASSUME NEW pair \in Live PROVE \E p, m, q : pair = <<p, m>> /\ Holds(p, m, q)
  <2>1. PICK i \in DOMAIN inner : \E k \in DOMAIN inner[i].inner : pair = <<inner[i].price, inner[i].inner[k].memo>>
    BY DEF Live
  <2>2. PICK k \in DOMAIN inner[i].inner : pair = <<inner[i].price, inner[i].inner[k].memo>> BY <2>1
  <2>3. Holds(inner[i].price, inner[i].inner[k].memo, inner[i].inner[k].quantity) BY DEF Holds, HoldsIn
  <2> QED BY <2>2, <2>3
<1> QED BY <1>1, <1>2 DEF Viewed

LEMMA ViewNext == Orderly' => Viewed' BY View, PTL

(* The map, computed from the vectors.                                     *)
AsMap == [pair \in Live |-> QuantityOf(pair)]

LEMMA MapPush ==
  ASSUME Viewed, Viewed', NEW price, NEW memo, NEW quantity,
         \A p, m, q : Holds(p, m, q) => Holds(p, m, q)',
         \A p, m, q : Holds(p, m, q)' => Holds(p, m, q) \/ (p = price /\ m = memo),
         Holds(price, memo, quantity)', \A q : ~Holds(price, memo, q)
  PROVE  AsMap' = [live \in DOMAIN AsMap \union {<<price, memo>>} |->
                           IF live = <<price, memo>> THEN quantity ELSE AsMap[live]]
<1>1. Holds(price, memo, quantity)' OBVIOUS
<1>2. ASSUME NEW pair \in Live' PROVE pair \in Live \/ pair = <<price, memo>>
  <2>1. PICK p, m, q : pair = <<p, m>> /\ Holds(p, m, q)' BY <1>2 DEF Viewed
  <2> QED BY <2>1 DEF Viewed
<1>3. ASSUME NEW pair \in Live
      PROVE  pair \in Live' /\ pair # <<price, memo>> /\ QuantityOf(pair)' = QuantityOf(pair)
  <2>1. PICK p, m, q : pair = <<p, m>> /\ Holds(p, m, q) BY <1>3 DEF Viewed
  <2>2. Holds(p, m, q)' BY <2>1
  <2>3. pair # <<price, memo>> BY <2>1
  <2>4. <<p, m>> \in Live' /\ QuantityOf(<<p, m>>)' = q BY <2>2 DEF Viewed
  <2>5. QuantityOf(<<p, m>>) = q BY <2>1 DEF Viewed
  <2> QED BY <2>1, <2>3, <2>4, <2>5
<1>4. <<price, memo>> \in Live' /\ QuantityOf(<<price, memo>>)' = quantity BY <1>1 DEF Viewed
<1>5. Live' = Live \union {<<price, memo>>} BY <1>2, <1>3, <1>4
<1> QED BY <1>3, <1>4, <1>5 DEF AsMap

LEMMA MapRemove ==
  ASSUME Viewed, Viewed', NEW price, NEW memo, NEW quantity, Holds(price, memo, quantity),
         \A p, m, q : Holds(p, m, q)' <=> Holds(p, m, q) /\ ~(p = price /\ m = memo)
  PROVE  /\ <<price, memo>> \in DOMAIN AsMap /\ AsMap[<<price, memo>>] = quantity
         /\ AsMap' = [live \in DOMAIN AsMap \ {<<price, memo>>} |-> AsMap[live]]
<1>1. <<price, memo>> \in Live /\ QuantityOf(<<price, memo>>) = quantity BY DEF Viewed
<1>2. ASSUME NEW pair \in Live' PROVE pair \in Live /\ pair # <<price, memo>>
  <2>1. PICK p, m, q : pair = <<p, m>> /\ Holds(p, m, q)' BY <1>2 DEF Viewed
  <2> QED BY <2>1 DEF Viewed
<1>3. ASSUME NEW pair \in Live, pair # <<price, memo>>
      PROVE  pair \in Live' /\ QuantityOf(pair)' = QuantityOf(pair)
  <2>1. PICK p, m, q : pair = <<p, m>> /\ Holds(p, m, q) BY <1>3 DEF Viewed
  <2>2. Holds(p, m, q)' BY <1>3, <2>1
  <2>3. <<p, m>> \in Live' /\ QuantityOf(<<p, m>>)' = q BY <2>2 DEF Viewed
  <2>4. QuantityOf(<<p, m>>) = q BY <2>1 DEF Viewed
  <2> QED BY <2>1, <2>3, <2>4
<1>4. Live' = Live \ {<<price, memo>>} BY <1>2, <1>3
<1> QED BY <1>1, <1>3, <1>4 DEF AsMap

LEMMA MapReduce ==
  ASSUME Viewed, Viewed', NEW price, NEW memo, NEW old, Holds(price, memo, old), NEW quantity,
         \A p, m, q : Holds(p, m, q) => Holds(p, m, q)' \/ (p = price /\ m = memo),
         \A p, m, q : Holds(p, m, q)' => Holds(p, m, q) \/ (p = price /\ m = memo),
         Holds(price, memo, quantity)'
  PROVE  /\ <<price, memo>> \in DOMAIN AsMap /\ AsMap[<<price, memo>>] = old
         /\ AsMap' = [AsMap EXCEPT ![<<price, memo>>] = quantity]
<1>1. <<price, memo>> \in Live /\ QuantityOf(<<price, memo>>) = old BY DEF Viewed
<1>2. ASSUME NEW pair \in Live' PROVE pair \in Live
  <2>1. PICK p, m, q : pair = <<p, m>> /\ Holds(p, m, q)' BY <1>2 DEF Viewed
  <2> QED BY <1>1, <2>1 DEF Viewed
<1>3. ASSUME NEW pair \in Live, pair # <<price, memo>>
      PROVE  pair \in Live' /\ QuantityOf(pair)' = QuantityOf(pair)
  <2>1. PICK p, m, q : pair = <<p, m>> /\ Holds(p, m, q) BY <1>3 DEF Viewed
  <2>2. Holds(p, m, q)'
    <3>1. ~(p = price /\ m = memo) BY <1>3, <2>1
    <3> QED BY <2>1, <3>1
  <2>3. <<p, m>> \in Live' /\ QuantityOf(<<p, m>>)' = q BY <2>2 DEF Viewed
  <2>4. QuantityOf(<<p, m>>) = q BY <2>1 DEF Viewed
  <2> QED BY <2>1, <2>3, <2>4
<1>4. Holds(price, memo, quantity)' OBVIOUS
<1>5. <<price, memo>> \in Live' /\ QuantityOf(<<price, memo>>)' = quantity BY <1>4 DEF Viewed
<1>6. Live' = Live BY <1>2, <1>3, <1>5
<1> QED BY <1>1, <1>3, <1>5, <1>6 DEF AsMap
-----------------------------------------------------------------------------
(* Each call of MultiplePriceLevels is the call of OrderIndexMap.          *)
LEMMA RefinePushExisting ==
  ASSUME Orderly, Orderly', NEW price \in Prices, NEW quantity \in Quantities,
         PushToExistingLevel(price, quantity)
  PROVE  Map!Next \/ UNCHANGED Map!vars
<1> USE DEF Orderly, PInv
<1>1. PICK i \in DOMAIN inner :
          /\ inner[i].price = price
          /\ IF IncrementPanics(inner[i])
             THEN UNCHANGED <<inner, ret>>
             ELSE /\ inner' = [inner EXCEPT ![i] = push_order(@, quantity)]
                  /\ ret' = Pair(price, inner[i].memo_seq)
  BY DEF PushToExistingLevel
<1>2. CASE IncrementPanics(inner[i])
  <2>1. UNCHANGED <<inner, ret>> BY <1>1, <1>2
  <2> QED BY <2>1 DEF Map!vars, Live, QuantityOf, IsPosition
<1>3. CASE ~IncrementPanics(inner[i])
  <2> DEFINE memo == inner[i].memo_seq
  <2>1. inner[i] \in Level /\ Grows(inner[i]) /\ memo \in Memo
    BY Vector, AllGrow DEF Level, PriceLevel
  <2>2. inner' = [inner EXCEPT ![i] = push_order(@, quantity)] /\ ret' = Pair(price, memo) BY <1>1, <1>3
  <2>3. /\ DOMAIN inner' = DOMAIN inner /\ inner'[i] = push_order(inner[i], quantity)
        /\ \A j \in DOMAIN inner : j # i => inner'[j] = inner[j]
        /\ push_order(inner[i], quantity).price = inner[i].price
    BY <1>3, <2>1, <2>2, PushExisting, Pushed
  <2>4. ASSUME NEW p, NEW m, NEW q
        PROVE  Holds(p, m, q)' <=> Holds(p, m, q) \/ (p = price /\ m = memo /\ q = quantity)
    <3>1. Holds(p, m, q)' <=> IF p = inner[i].price THEN HoldsIn(push_order(inner[i], quantity), m, q)
                              ELSE Holds(p, m, q)
      BY <2>3, ReplaceHolds
    <3>2. HoldsIn(push_order(inner[i], quantity), m, q) <=>
              HoldsIn(inner[i], m, q) \/ (m = memo /\ q = quantity)
      BY <2>1, PushHolds
    <3>3. Holds(inner[i].price, m, q) <=> HoldsIn(inner[i], m, q) BY HoldsOf
    <3> QED BY <1>1, <3>1, <3>2, <3>3
  <2>5. ASSUME NEW m, NEW q, Holds(price, m, q) PROVE m < memo
    <3>1. HoldsIn(inner[i], m, q) BY <1>1, <2>5, HoldsOf
    <3> QED BY <2>1, <3>1 DEF HoldsIn, Grows
  <2>6. \A q : ~Holds(price, memo, q)
    <3>1. ~(memo < memo) BY <2>1, MemoMaxAssumption DEF Memo
    <3> QED BY <2>5, <3>1
  <2>7. Viewed /\ Viewed' BY View, ViewNext
  <2>8. PICK n : n = memo OBVIOUS
  <2>9. AsMap' = [live \in DOMAIN AsMap \union {<<price, n>>} |->
                          IF live = <<price, n>> THEN quantity ELSE AsMap[live]]
    BY <2>4, <2>6, <2>7, <2>8, MapPush
  <2>10. ASSUME NEW live \in DOMAIN AsMap, live[1] = price PROVE live[2] < n
    <3>1. live \in Live BY DEF AsMap
    <3>2. PICK p, m, q : live = <<p, m>> /\ Holds(p, m, q) BY <2>7, <3>1 DEF Viewed
    <3> QED BY <2>5, <2>8, <2>10, <3>2
  <2>11. ret' = Map!Pair(price, n) BY <2>2, <2>8 DEF Map!Pair, Pair
  <2>12. Map!Push(price, quantity) BY <2>1, <2>8, <2>9, <2>10, <2>11 DEF Map!Push, Map!Memo, Memo, AsMap
  <2> QED BY <2>12 DEF Map!Next
<1> QED BY <1>2, <1>3

LEMMA RefinePushNew ==
  ASSUME Orderly, Orderly', NEW price \in Prices, NEW quantity \in Quantities, PushToNewLevel(price, quantity)
  PROVE  Map!Next
<1> USE DEF Orderly, PInv
<1>1. PICK i \in 1..(Len(inner) + 1) :
          /\ \A j \in 1..(i - 1) : inner[j].price < price
          /\ \A j \in i..Len(inner) : price < inner[j].price
          /\ inner' = InsertAt(inner, i, push_order(NewPriceLevel(price), quantity))
          /\ ret' = Pair(price, 0)
  BY DEF PushToNewLevel
<1>2. /\ \A j \in DOMAIN inner : \E m \in DOMAIN inner' : inner'[m] = inner[j]
      /\ i \in DOMAIN inner'
      /\ inner'[i].price = price /\ inner'[i].inner = <<[memo |-> 0, quantity |-> quantity, price |-> price]>>
      /\ \A m \in DOMAIN inner' : m # i => \E j \in DOMAIN inner : inner'[m] = inner[j]
  BY <1>1, PushNew
<1>3. \A j \in DOMAIN inner : inner[j].price # price
  <2>1. ASSUME NEW j \in DOMAIN inner PROVE inner[j].price # price
    <3>1. j \in 1..(i - 1) \/ j \in i..Len(inner) BY Vector
    <3>2. inner[j].price \in Nat /\ price \in Nat BY Vector, PricesAssumption
    <3> QED BY <1>1, <3>1, <3>2
  <2> QED BY <2>1
<1>4. \A m, q : HoldsIn(inner'[i], m, q) <=> m = 0 /\ q = quantity
  <2> DEFINE o == [memo |-> 0, quantity |-> quantity, price |-> price]
  <2>1. o.memo = 0 /\ o.quantity = quantity OBVIOUS
  <2>2. inner'[i].inner = <<o>> BY <1>2
  <2> HIDE DEF o
  <2>3. DOMAIN <<o>> = {1} /\ <<o>>[1] = o OBVIOUS
  <2> QED BY <2>1, <2>2, <2>3 DEF HoldsIn
<1>5. ASSUME NEW p, NEW m, NEW q
      PROVE  Holds(p, m, q)' <=> Holds(p, m, q) \/ (p = price /\ m = 0 /\ q = quantity)
  <2>1. ASSUME Holds(p, m, q)' PROVE Holds(p, m, q) \/ (p = price /\ m = 0 /\ q = quantity)
    <3>1. PICK l \in DOMAIN inner' : inner'[l].price = p /\ HoldsIn(inner'[l], m, q)
      BY <2>1 DEF Holds, HoldsIn
    <3>2. CASE l = i BY <1>2, <1>4, <3>1, <3>2
    <3>3. CASE l # i BY <1>2, <3>1, <3>3 DEF Holds
    <3> QED BY <3>2, <3>3
  <2>2. ASSUME Holds(p, m, q) PROVE Holds(p, m, q)'
    <3>1. PICK j \in DOMAIN inner : inner[j].price = p /\ HoldsIn(inner[j], m, q) BY <2>2 DEF Holds
    <3>2. PICK l \in DOMAIN inner' : inner'[l] = inner[j] BY <1>2
    <3>3. inner'[l].price = p /\ HoldsIn(inner'[l], m, q) BY <3>1, <3>2
    <3> QED BY <3>3 DEF Holds, HoldsIn
  <2>3. ASSUME p = price, m = 0, q = quantity PROVE Holds(p, m, q)'
    <3>1. inner'[i].price = p /\ HoldsIn(inner'[i], m, q) BY <1>2, <1>4, <2>3
    <3> QED BY <1>2, <3>1 DEF Holds, HoldsIn
  <2> QED BY <2>1, <2>2, <2>3
<1>6. \A m, q : ~Holds(price, m, q) BY <1>3 DEF Holds
<1>7. Viewed /\ Viewed' BY View, ViewNext
<1>8. AsMap' = [live \in DOMAIN AsMap \union {<<price, 0>>} |->
                        IF live = <<price, 0>> THEN quantity ELSE AsMap[live]]
  BY <1>5, <1>6, <1>7, MapPush
<1>9. ASSUME NEW live \in DOMAIN AsMap, live[1] = price PROVE live[2] < 0
  <2>1. live \in Live BY DEF AsMap
  <2>2. PICK p, m, q : live = <<p, m>> /\ Holds(p, m, q) BY <1>7, <2>1 DEF Viewed
  <2> QED BY <1>6, <1>9, <2>2
<1>10. ret' = Map!Pair(price, 0) /\ 0 \in Memo BY <1>1, MemoMaxAssumption DEF Map!Pair, Pair, Memo
<1>11. Map!Push(price, quantity) BY <1>8, <1>9, <1>10 DEF Map!Push, Map!Memo, Memo, AsMap
<1> QED BY <1>11 DEF Map!Next

(* The order at a position is the one its pair names.                      *)
LEMMA AtPosition ==
  ASSUME Orderly, NEW i \in DOMAIN inner, NEW k \in DOMAIN inner[i].inner
  PROVE  /\ inner[i] \in Level /\ Grows(inner[i])
         /\ Holds(inner[i].price, inner[i].inner[k].memo, inner[i].inner[k].quantity)
         /\ IsPosition(inner[i], inner[i].inner[k].memo, k)
<1>1. inner[i] \in Level /\ Grows(inner[i]) BY Vector, AllGrow DEF Orderly, PInv
<1>2. Holds(inner[i].price, inner[i].inner[k].memo, inner[i].inner[k].quantity) BY DEF Holds, HoldsIn
<1>3. \A j \in 1..(k - 1) : j \in DOMAIN inner[i].inner /\ j # k BY <1>1, MemosApart
<1>4. \A j \in DOMAIN inner[i].inner : inner[i].inner[j].memo = inner[i].inner[k].memo => j = k
  BY <1>1, MemosApart
<1> QED BY <1>1, <1>2, <1>3, <1>4 DEF IsPosition

LEMMA RemoveHolds ==
  ASSUME Orderly, NEW i \in DOMAIN inner, NEW k \in DOMAIN inner[i].inner, inner' = WithoutOrder(i, k),
         NEW p, NEW m, NEW q
  PROVE  Holds(p, m, q)' <=>
            Holds(p, m, q) /\ ~(p = inner[i].price /\ m = inner[i].inner[k].memo)
<1> USE DEF Orderly, PInv
<1> DEFINE left == RemoveAt(inner[i].inner, k)
           new == [inner[i] EXCEPT !.inner = left]
<1>1. inner[i] \in Level /\ Grows(inner[i]) BY AtPosition
<1>2. new \in Level /\ new.price = inner[i].price /\ new.inner = left BY <1>1, Taken
<1>3. HoldsIn(new, m, q) <=> HoldsIn(inner[i], m, q) /\ m # inner[i].inner[k].memo BY <1>1, TakeHolds
<1>4. Holds(inner[i].price, m, q) <=> HoldsIn(inner[i], m, q) BY HoldsOf
<1>5. CASE left # <<>>
  <2>1. inner' = [inner EXCEPT ![i] = new] BY <1>5 DEF WithoutOrder
  <2> HIDE DEF new, left
  <2>2. /\ DOMAIN inner' = DOMAIN inner /\ inner'[i] = new
        /\ \A j \in DOMAIN inner : j # i => inner'[j] = inner[j]
    BY <1>2, <1>5, <2>1, Replace
  <2>3. Holds(p, m, q)' <=> IF p = inner[i].price THEN HoldsIn(new, m, q) ELSE Holds(p, m, q)
    BY <1>2, <2>2, ReplaceHolds
  <2> QED BY <1>3, <1>4, <2>3
<1>6. CASE left = <<>>
  <2>1. inner' = RemoveAt(inner, i) BY <1>6 DEF WithoutOrder
  <2> HIDE DEF new, left
  <2>2. /\ \A j \in DOMAIN inner : j # i => \E l \in DOMAIN inner' : inner'[l] = inner[j]
        /\ \A l \in DOMAIN inner' : \E j \in DOMAIN inner : j # i /\ inner'[l] = inner[j]
    BY <2>1, Drop
  <2>3. ~HoldsIn(new, m, q)
    <3>1. DOMAIN new.inner = {} BY <1>2, <1>6
    <3> QED BY <3>1 DEF HoldsIn
  <2>4. ASSUME Holds(p, m, q)' PROVE Holds(p, m, q) /\ p # inner[i].price
    <3>1. PICK l \in DOMAIN inner' : inner'[l].price = p /\ HoldsIn(inner'[l], m, q)
      BY <2>4 DEF Holds, HoldsIn
    <3>2. PICK j \in DOMAIN inner : j # i /\ inner'[l] = inner[j] BY <2>2
    <3>3. inner[j].price = p /\ HoldsIn(inner[j], m, q) BY <3>1, <3>2
    <3>4. p # inner[i].price BY <3>2, <3>3, PricesApart
    <3> QED BY <3>3, <3>4 DEF Holds
  <2>5. ASSUME Holds(p, m, q), p # inner[i].price PROVE Holds(p, m, q)'
    <3>1. PICK j \in DOMAIN inner : inner[j].price = p /\ HoldsIn(inner[j], m, q) BY <2>5 DEF Holds
    <3>2. j # i BY <2>5, <3>1
    <3>3. PICK l \in DOMAIN inner' : inner'[l] = inner[j] BY <2>2, <3>2
    <3>4. inner'[l].price = p /\ HoldsIn(inner'[l], m, q) BY <3>1, <3>3
    <3> QED BY <3>4 DEF Holds, HoldsIn
  <2> QED BY <1>3, <1>4, <2>3, <2>4, <2>5
<1> QED BY <1>5, <1>6

(* A pair that no order has is absent from the map.                        *)
LEMMA RefineNotFound ==
  ASSUME Orderly, NEW price \in Prices, NEW memo \in Memo, NotFound(price, memo)
  PROVE  Map!Remove(price, memo) /\ Map!Reduce(price, memo)
<1>1. /\ \A i \in DOMAIN inner : \A k \in DOMAIN inner[i].inner :
            ~(inner[i].price = price /\ IsPosition(inner[i], memo, k))
      /\ ret' = None /\ UNCHANGED inner
  BY DEF NotFound
<1>2. \A q : ~Holds(price, memo, q) BY <1>1, AtPosition DEF Holds, HoldsIn
<1>3. <<price, memo>> \notin Live
  <2>1. SUFFICES ASSUME <<price, memo>> \in Live PROVE FALSE OBVIOUS
  <2>2. Viewed BY View
  <2>3. PICK p, m, q : <<price, memo>> = <<p, m>> /\ Holds(p, m, q) BY <2>1, <2>2 DEF Viewed
  <2>4. p = price /\ m = memo BY <2>3
  <2> QED BY <1>2, <2>3, <2>4
<1>4. <<price, memo>> \notin DOMAIN AsMap BY <1>3 DEF AsMap
<1>5. AsMap' = AsMap BY <1>1 DEF AsMap, Live, QuantityOf, IsPosition
<1> QED BY <1>1, <1>4, <1>5 DEF Map!Remove, Map!Reduce, Map!None, None, AsMap

LEMMA RefineRemove ==
  ASSUME Orderly, Orderly', NEW price \in Prices, NEW memo \in Memo, remove_order_from_level(price, memo)
  PROVE  Map!Next
<1>1. Viewed /\ Viewed' BY View, ViewNext
<1>2. ASSUME NEW i \in DOMAIN inner, NEW k \in DOMAIN inner[i].inner, inner[i].price = price,
             IsPosition(inner[i], memo, k), inner' = WithoutOrder(i, k),
             ret' = Some(memo, inner[i].inner[k].quantity)
      PROVE  Map!Remove(price, memo)
  <2>1. inner[i].inner[k].memo = memo BY <1>2 DEF IsPosition
  <2>2. PICK old : old = inner[i].inner[k].quantity OBVIOUS
  <2>3. Holds(price, memo, old) BY <1>2, <2>1, <2>2, AtPosition
  <2>4. \A p, m, q : Holds(p, m, q)' <=> Holds(p, m, q) /\ ~(p = price /\ m = memo)
    BY <1>2, <2>1, RemoveHolds
  <2>5. /\ <<price, memo>> \in DOMAIN AsMap /\ AsMap[<<price, memo>>] = old
        /\ AsMap' = [live \in DOMAIN AsMap \ {<<price, memo>>} |-> AsMap[live]]
    BY <1>1, <2>3, <2>4, MapRemove
  <2>6. ret' = Map!Some(memo, old) BY <1>2, <2>2 DEF Map!Some, Some
  <2> QED BY <2>5, <2>6 DEF Map!Remove, AsMap
<1>3. NotFound(price, memo) => Map!Remove(price, memo) BY RefineNotFound
<1>4. Map!Remove(price, memo) BY <1>2, <1>3 DEF remove_order_from_level
<1> QED BY <1>4 DEF Map!Next, Map!Memo, Memo

LEMMA RefineReduce ==
  ASSUME Orderly, Orderly', NEW price \in Prices, NEW memo \in Memo, get_mut(price, memo)
  PROVE  Map!Next
<1> SUFFICES ASSUME ~NotFound(price, memo) PROVE Map!Reduce(price, memo)
  BY RefineNotFound DEF Map!Next, Map!Memo, Memo
<1>1. Viewed /\ Viewed' BY View, ViewNext
<1>2. PICK i \in DOMAIN inner : \E k \in DOMAIN inner[i].inner :
        /\ inner[i].price = price
        /\ IsPosition(inner[i], memo, k)
        /\ \E quantity \in 1..(inner[i].inner[k].quantity - 1) :
              /\ inner' = [inner EXCEPT ![i].inner[k].quantity = quantity]
              /\ ret' = Some(memo, quantity)
  BY DEF get_mut
<1>3. PICK k \in DOMAIN inner[i].inner :
        /\ IsPosition(inner[i], memo, k)
        /\ \E quantity \in 1..(inner[i].inner[k].quantity - 1) :
              /\ inner' = [inner EXCEPT ![i].inner[k].quantity = quantity]
              /\ ret' = Some(memo, quantity)
  BY <1>2
<1>4. PICK quantity \in 1..(inner[i].inner[k].quantity - 1) :
              /\ inner' = [inner EXCEPT ![i].inner[k].quantity = quantity]
              /\ ret' = Some(memo, quantity)
  BY <1>3
<1>5. inner[i].price = price /\ inner[i].inner[k].memo = memo BY <1>2, <1>3 DEF IsPosition
<1>6. inner[i] \in Level /\ Grows(inner[i]) BY AtPosition
<1> DEFINE new == [inner[i] EXCEPT !.inner[k].quantity = quantity]
<1>7. /\ DOMAIN inner' = DOMAIN inner /\ inner'[i] = new
      /\ \A j \in DOMAIN inner : j # i => inner'[j] = inner[j]
  BY <1>4, ReduceKeeps DEF Orderly, PInv
<1>8. new.price = inner[i].price BY <1>4, <1>6, Reduced
<1>9. ASSUME NEW p, NEW m, NEW q
      PROVE  Holds(p, m, q)' <=> \/ Holds(p, m, q) /\ ~(p = price /\ m = memo)
                                 \/ p = price /\ m = memo /\ q = quantity
  <2>1. HoldsIn(new, m, q) <=> \/ HoldsIn(inner[i], m, q) /\ m # inner[i].inner[k].memo
                               \/ m = inner[i].inner[k].memo /\ q = quantity
    BY <1>4, <1>6, ReduceHolds
  <2> HIDE DEF new
  <2>2. Holds(p, m, q)' <=> IF p = inner[i].price THEN HoldsIn(new, m, q) ELSE Holds(p, m, q)
    BY <1>7, <1>8, ReplaceHolds DEF Orderly, PInv
  <2>3. Holds(inner[i].price, m, q) <=> HoldsIn(inner[i], m, q) BY HoldsOf DEF Orderly, PInv
  <2> QED BY <1>5, <2>1, <2>2, <2>3
<1>10. PICK old : old = inner[i].inner[k].quantity OBVIOUS
<1>11. Holds(price, memo, old) BY <1>5, <1>10, AtPosition
<1> HIDE DEF new
<1>12. /\ \A p, m, q : Holds(p, m, q) => Holds(p, m, q)' \/ (p = price /\ m = memo)
       /\ \A p, m, q : Holds(p, m, q)' => Holds(p, m, q) \/ (p = price /\ m = memo)
       /\ Holds(price, memo, quantity)'
  BY <1>9
<1>13. /\ <<price, memo>> \in DOMAIN AsMap /\ AsMap[<<price, memo>>] = old
       /\ AsMap' = [AsMap EXCEPT ![<<price, memo>>] = quantity]
  BY <1>1, <1>11, <1>12, MapReduce
<1>14. ret' = Map!Some(memo, quantity) /\ quantity \in 1..(old - 1) BY <1>4, <1>10 DEF Map!Some, Some
<1> QED BY <1>13, <1>14 DEF Map!Reduce, AsMap

(* The sorted vectors implement the map of order indexes that matching is  *)
(* written against: in either build, and until a memo_seq wraps, every     *)
(* call is the call of OrderIndexMap with the same result.                 *)
THEOREM PriceLevelsImplementMap == Spec => ImplementsMap
<1>1. Init => Map!Init
  <2>1. ASSUME Init PROVE Live = {} BY <2>1 DEF Init, Live
  <2>2. ASSUME Live = {} PROVE [pair \in Live |-> QuantityOf(pair)] = <<>> BY <2>2
  <2> QED BY <2>1, <2>2 DEF Init, Map!Init, Map!None, None
<1>2. PInv /\ [Next]_vars => PInv' BY PInvNext
<1>3. PInv /\ PInv' /\ [Next]_vars => [wrapped = {} /\ wrapped' = {} => [Map!Next]_(Map!vars)]_vars
  <2> SUFFICES ASSUME PInv, PInv', Next, wrapped = {}, wrapped' = {} PROVE Map!Next \/ UNCHANGED Map!vars
    OBVIOUS
  <2>1. Orderly /\ Orderly' BY DEF Orderly
  <2> QED BY <2>1, RefinePushExisting, RefinePushNew, RefineRemove, RefineReduce DEF Next
<1> QED BY <1>1, <1>2, <1>3, PInvInit, PTL DEF Spec, ImplementsMap
-----------------------------------------------------------------------------
(* Induction over the natural numbers, with a set for the property.        *)
LEMMA NatInd ==
  ASSUME NEW T, 0 \in T, \A n \in Nat : n \in T => n + 1 \in T
  PROVE  Nat \subseteq T
<1> DEFINE R == OpToRel(<, Nat)
           B == Nat \ T
<1>1. IsWellFoundedOn(R, Nat) BY NatLessThanWellFounded, Zenon
<1>2. \A x, y \in Nat : x < y => <<x, y>> \in R BY DEF OpToRel
<1> HIDE DEF R
<1>3. SUFFICES ASSUME B # {} PROVE FALSE OBVIOUS
<1>4. PICK x \in B : \A y \in B : ~(<<y, x>> \in R)
  <2>1. B \subseteq Nat OBVIOUS
  <2> HIDE DEF B
  <2> QED BY <1>1, <1>3, <2>1, WFMin
<1>5. x # 0 /\ x \in Nat OBVIOUS
<1>6. x - 1 \in Nat /\ x - 1 < x BY <1>5
<1>7. x - 1 \in T BY <1>2, <1>4, <1>5, <1>6
<1>8. (x - 1) + 1 = x BY <1>5
<1> QED BY <1>6, <1>7, <1>8

(* The function FlattenSeq is defined by: the first i sequences, in a row. *)
Flats(seqs) ==
    CHOOSE flat : flat = [i \in 1..Len(seqs) |-> IF i = 1 THEN seqs[i] ELSE flat[i - 1] \o seqs[i]]

(* There is such a function, so that it satisfies its equation.            *)
LEMMA FlatsEquation ==
  ASSUME NEW seqs, Len(seqs) \in Nat
  PROVE  \A i \in 1..Len(seqs) : Flats(seqs)[i] = IF i = 1 THEN seqs[1] ELSE Flats(seqs)[i - 1] \o seqs[i]
<1> DEFINE T == {n \in Nat : \E f : f = [i \in 1..n |-> IF i = 1 THEN seqs[i] ELSE f[i - 1] \o seqs[i]]}
<1>1. 0 \in T
  <2> DEFINE f == [i \in 1..0 |-> seqs[i]]
  <2>1. f = [i \in 1..0 |-> IF i = 1 THEN seqs[i] ELSE f[i - 1] \o seqs[i]] OBVIOUS
  <2> QED BY <2>1
<1>2. ASSUME NEW n \in Nat, n \in T PROVE n + 1 \in T
  <2>1. PICK f : f = [i \in 1..n |-> IF i = 1 THEN seqs[i] ELSE f[i - 1] \o seqs[i]] BY <1>2
  <2> DEFINE g == [i \in 1..(n + 1) |->
                      IF i = n + 1 THEN (IF i = 1 THEN seqs[i] ELSE f[n] \o seqs[n + 1]) ELSE f[i]]
  <2>2. ASSUME NEW i \in 1..(n + 1) PROVE g[i] = IF i = 1 THEN seqs[i] ELSE g[i - 1] \o seqs[i]
    <3>1. CASE i = n + 1
      <4>1. CASE i = 1 BY <3>1, <4>1
      <4>2. CASE i # 1
        <5>1. n \in 1..(n + 1) /\ n # n + 1 /\ i - 1 = n BY <3>1, <4>2
        <5>2. g[n] = f[n] BY <5>1
        <5> QED BY <3>1, <4>2, <5>1, <5>2
      <4> QED BY <4>1, <4>2
    <3>2. CASE i \in 1..n
      <4>1. g[i] = f[i] BY <3>2
      <4>2. f[i] = IF i = 1 THEN seqs[i] ELSE f[i - 1] \o seqs[i] BY <2>1, <3>2
      <4>3. i # 1 => i - 1 \in 1..(n + 1) /\ i - 1 # n + 1 BY <3>2
      <4>4. i # 1 => g[i - 1] = f[i - 1] BY <4>3
      <4> HIDE DEF g
      <4> QED BY <4>1, <4>2, <4>4
    <3>3. i = n + 1 \/ i \in 1..n OBVIOUS
    <3> QED BY <3>1, <3>2, <3>3
  <2>3. g = [i \in 1..(n + 1) |-> g[i]] OBVIOUS
  <2> HIDE DEF g
  <2>4. g = [i \in 1..(n + 1) |-> IF i = 1 THEN seqs[i] ELSE g[i - 1] \o seqs[i]] BY <2>2, <2>3
  <2>5. n + 1 \in Nat OBVIOUS
  <2> QED BY <2>4, <2>5, Zenon
<1> HIDE DEF T
<1>3. Len(seqs) \in T BY <1>1, <1>2, NatInd
<1>4. \E f : f = [i \in 1..Len(seqs) |-> IF i = 1 THEN seqs[i] ELSE f[i - 1] \o seqs[i]] BY <1>3 DEF T
<1>5. Flats(seqs) = [i \in 1..Len(seqs) |-> IF i = 1 THEN seqs[i] ELSE Flats(seqs)[i - 1] \o seqs[i]]
  BY <1>4 DEF Flats
<1> QED BY <1>5

(* Concatenation, for elements in the order of a relation R.               *)
Ordered(R, s) == \A a, b \in DOMAIN s : a < b => <<s[a], s[b]>> \in R

LEMMA Concatenated ==
  ASSUME NEW S, NEW s \in Seq(S), NEW t \in Seq(S)
  PROVE  /\ s \o t \in Seq(S)
         /\ \A a \in DOMAIN s : a \in DOMAIN (s \o t) /\ (s \o t)[a] = s[a]
         /\ \A b \in DOMAIN t : Len(s) + b \in DOMAIN (s \o t) /\ (s \o t)[Len(s) + b] = t[b]
         /\ \A c \in DOMAIN (s \o t) : c \in DOMAIN s \/ \E b \in DOMAIN t : c = Len(s) + b
<1>1. /\ Len(s) \in Nat /\ DOMAIN s = 1..Len(s) /\ Len(t) \in Nat /\ DOMAIN t = 1..Len(t)
      /\ s \o t \in Seq(S) /\ Len(s \o t) = Len(s) + Len(t)
      /\ \A j \in 1..(Len(s) + Len(t)) : (s \o t)[j] = IF j <= Len(s) THEN s[j] ELSE t[j - Len(s)]
  BY LenProperties, ConcatProperties
<1>2. DOMAIN (s \o t) = 1..(Len(s) + Len(t)) BY <1>1, LenProperties
<1>3. ASSUME NEW a \in DOMAIN s PROVE a \in DOMAIN (s \o t) /\ (s \o t)[a] = s[a]
  <2>1. a \in 1..(Len(s) + Len(t)) /\ a <= Len(s) BY <1>1
  <2> QED BY <1>1, <1>2, <2>1
<1>4. ASSUME NEW b \in DOMAIN t PROVE Len(s) + b \in DOMAIN (s \o t) /\ (s \o t)[Len(s) + b] = t[b]
  <2>1. /\ Len(s) + b \in 1..(Len(s) + Len(t)) /\ ~(Len(s) + b <= Len(s))
        /\ (Len(s) + b) - Len(s) = b
    BY <1>1
  <2> QED BY <1>1, <1>2, <2>1
<1>5. ASSUME NEW c \in DOMAIN (s \o t) PROVE c \in DOMAIN s \/ \E b \in DOMAIN t : c = Len(s) + b
  <2>1. c \in 1..Len(s) \/ (c - Len(s) \in 1..Len(t) /\ c = Len(s) + (c - Len(s))) BY <1>1, <1>2
  <2> QED BY <1>1, <2>1
<1> QED BY <1>1, <1>3, <1>4, <1>5

LEMMA OrderedConcat ==
  ASSUME NEW S, NEW s \in Seq(S), NEW t \in Seq(S), NEW R, Ordered(R, s), Ordered(R, t),
         \A a \in DOMAIN s : \A b \in DOMAIN t : <<s[a], t[b]>> \in R
  PROVE  Ordered(R, s \o t)
<1>1. Len(s) \in Nat /\ DOMAIN s = 1..Len(s) /\ Len(t) \in Nat /\ DOMAIN t = 1..Len(t) BY LenProperties
<1>2. SUFFICES ASSUME NEW x \in DOMAIN (s \o t), NEW y \in DOMAIN (s \o t), x < y
               PROVE  <<(s \o t)[x], (s \o t)[y]>> \in R
  BY DEF Ordered
<1>3. /\ x \in DOMAIN s \/ \E b \in DOMAIN t : x = Len(s) + b
      /\ y \in DOMAIN s \/ \E b \in DOMAIN t : y = Len(s) + b
  BY Concatenated
<1>4. CASE x \in DOMAIN s /\ y \in DOMAIN s
  <2>1. (s \o t)[x] = s[x] /\ (s \o t)[y] = s[y] BY <1>4, Concatenated
  <2> QED BY <1>2, <1>4, <2>1 DEF Ordered
<1>5. ASSUME NEW b \in DOMAIN t, y = Len(s) + b, x \in DOMAIN s PROVE <<(s \o t)[x], (s \o t)[y]>> \in R
  <2>1. (s \o t)[x] = s[x] /\ (s \o t)[y] = t[b] BY <1>5, Concatenated
  <2> QED BY <1>5, <2>1
<1>6. ASSUME NEW a \in DOMAIN t, x = Len(s) + a, NEW b \in DOMAIN t, y = Len(s) + b
      PROVE  <<(s \o t)[x], (s \o t)[y]>> \in R
  <2>1. (s \o t)[x] = t[a] /\ (s \o t)[y] = t[b] BY <1>6, Concatenated
  <2>2. a < b BY <1>1, <1>2, <1>6
  <2> QED BY <2>1, <2>2 DEF Ordered
<1>7. ASSUME NEW a \in DOMAIN t, x = Len(s) + a, y \in DOMAIN s PROVE FALSE BY <1>1, <1>2, <1>7
<1> QED BY <1>3, <1>4, <1>5, <1>6, <1>7

(* w holds the elements of the first n sequences, in the order of R.       *)
IsFlat(S, R, seqs, n, w) ==
    /\ w \in Seq(S) /\ Ordered(R, w)
    /\ \A a \in DOMAIN w : \E i \in 1..n : \E k \in DOMAIN seqs[i] : w[a] = seqs[i][k]
    /\ \A i \in 1..n : \A k \in DOMAIN seqs[i] : \E a \in DOMAIN w : w[a] = seqs[i][k]

(* Sequences each in the order of R, and one after the other in it, give a *)
(* sequence in the order of R, with the same elements.                     *)
LEMMA Flattened ==
  ASSUME NEW S, NEW seqs \in Seq(Seq(S)), NEW R,
         \A i \in DOMAIN seqs : Ordered(R, seqs[i]),
         \A i, j \in DOMAIN seqs : i < j =>
            \A a \in DOMAIN seqs[i] : \A b \in DOMAIN seqs[j] : <<seqs[i][a], seqs[j][b]>> \in R
  PROVE  IsFlat(S, R, seqs, Len(seqs), FlattenSeq(seqs))
<1> DEFINE N == Len(seqs)
           f == Flats(seqs)
           T == {n \in Nat : n \in 1..N => IsFlat(S, R, seqs, n, f[n])}
<1>1. N \in Nat /\ DOMAIN seqs = 1..N /\ \A i \in 1..N : seqs[i] \in Seq(S) BY LenProperties, ElementOfSeq
<1>2. \A i \in 1..N : f[i] = IF i = 1 THEN seqs[1] ELSE f[i - 1] \o seqs[i] BY <1>1, FlatsEquation
<1> HIDE DEF f, N
<1>3. 0 \in T OBVIOUS
<1>4. ASSUME NEW n \in Nat, n \in T, n + 1 \in 1..N PROVE IsFlat(S, R, seqs, n + 1, f[n + 1])
  <2>1. CASE n = 0
    <3>1. f[1] = seqs[1] /\ 1 \in 1..N BY <1>2, <1>4, <2>1
    <3>2. IsFlat(S, R, seqs, 1, seqs[1])
      <4>1. seqs[1] \in Seq(S) /\ Ordered(R, seqs[1]) /\ 1 \in 1..1 /\ \A i \in 1..1 : i = 1 BY <1>1, <3>1
      <4> QED BY <4>1 DEF IsFlat
    <3> QED BY <2>1, <3>1, <3>2
  <2>2. CASE n # 0
    <3>1. n \in 1..N /\ n + 1 # 1 /\ (n + 1) - 1 = n BY <1>1, <1>4, <2>2
    <3>2. IsFlat(S, R, seqs, n, f[n]) BY <1>4, <3>1
    <3> DEFINE s == f[n]
               t == seqs[n + 1]
    <3>3. f[n + 1] = s \o t BY <1>2, <1>4, <3>1
    <3>4. s \in Seq(S) /\ t \in Seq(S) /\ Ordered(R, s) /\ Ordered(R, t) BY <1>1, <1>4, <3>2 DEF IsFlat
    <3>5. ASSUME NEW a \in DOMAIN s, NEW b \in DOMAIN t PROVE <<s[a], t[b]>> \in R
      <4>1. PICK i \in 1..n : \E k \in DOMAIN seqs[i] : s[a] = seqs[i][k] BY <3>2 DEF IsFlat
      <4>2. i \in DOMAIN seqs /\ n + 1 \in DOMAIN seqs /\ i < n + 1 BY <1>1, <1>4, <3>1
      <4> QED BY <4>1, <4>2
    <3>6. /\ \A a \in DOMAIN s : \E i \in 1..n : \E k \in DOMAIN seqs[i] : s[a] = seqs[i][k]
          /\ \A i \in 1..n : \A k \in DOMAIN seqs[i] : \E a \in DOMAIN s : s[a] = seqs[i][k]
      BY <3>2 DEF IsFlat
    <3>7. \A i \in 1..(n + 1) : i \in 1..n \/ i = n + 1 OBVIOUS
    <3>8. 1..n \subseteq 1..(n + 1) /\ n + 1 \in 1..(n + 1) OBVIOUS
    <3> HIDE DEF s, t
    <3>9. /\ s \o t \in Seq(S)
          /\ \A a \in DOMAIN s : a \in DOMAIN (s \o t) /\ (s \o t)[a] = s[a]
          /\ \A b \in DOMAIN t : Len(s) + b \in DOMAIN (s \o t) /\ (s \o t)[Len(s) + b] = t[b]
          /\ \A c \in DOMAIN (s \o t) : c \in DOMAIN s \/ \E b \in DOMAIN t : c = Len(s) + b
      BY <3>4, Concatenated
    <3>10. Ordered(R, s \o t) BY <3>4, <3>5, OrderedConcat
    <3>11. ASSUME NEW c \in DOMAIN (s \o t)
           PROVE  \E i \in 1..(n + 1) : \E k \in DOMAIN seqs[i] : (s \o t)[c] = seqs[i][k]
      <4>1. CASE c \in DOMAIN s BY <3>6, <3>8, <3>9, <4>1
      <4>2. ASSUME NEW b \in DOMAIN t, c = Len(s) + b PROVE (s \o t)[c] = t[b] BY <3>9, <4>2
      <4> QED BY <3>8, <3>9, <4>1, <4>2 DEF t
    <3>12. ASSUME NEW i \in 1..(n + 1), NEW k \in DOMAIN seqs[i]
           PROVE  \E c \in DOMAIN (s \o t) : (s \o t)[c] = seqs[i][k]
      <4>1. CASE i \in 1..n BY <3>6, <3>9, <4>1
      <4>2. CASE i = n + 1 BY <3>9, <4>2 DEF t
      <4> QED BY <3>7, <4>1, <4>2
    <3>13. IsFlat(S, R, seqs, n + 1, s \o t) BY <3>9, <3>10, <3>11, <3>12 DEF IsFlat
    <3> QED BY <3>3, <3>13
  <2> QED BY <2>1, <2>2
<1>5. ASSUME NEW n \in Nat, n \in T PROVE n + 1 \in T
  <2>1. n + 1 \in Nat OBVIOUS
  <2> QED BY <1>4, <1>5, <2>1
<1>6. Nat \subseteq T
  <2> HIDE DEF T
  <2> QED BY <1>3, <1>5, NatInd
<1>7. CASE N = 0
  <2>1. FlattenSeq(seqs) = seqs BY <1>7 DEF FlattenSeq, N
  <2>2. seqs = <<>> /\ Len(seqs) = 0 BY <1>7, EmptySeq DEF N
  <2>3. IsFlat(S, R, <<>>, 0, <<>>) BY DEF IsFlat, Ordered
  <2> QED BY <2>1, <2>2, <2>3
<1>8. CASE N # 0
  <2>1. N \in T /\ N \in 1..N BY <1>1, <1>6, <1>8
  <2>2. IsFlat(S, R, seqs, N, f[N]) BY <2>1
  <2>3. FlattenSeq(seqs) = f[N] BY <1>8 DEF FlattenSeq, Flats, N, f
  <2> QED BY <2>2, <2>3 DEF N
<1> QED BY <1>7, <1>8
-----------------------------------------------------------------------------
(* The walk over levels in the order of their prices.                      *)
Indexed(side, level) ==
    [k \in DOMAIN level.inner |->
        [side |-> side, price |-> level.inner[k].price, memo |-> level.inner[k].memo]]

Before == {pair \in OrderIndex \X OrderIndex :
              \/ Precedes(pair[1], pair[2])
              \/ pair[1].price = pair[2].price /\ pair[1].price \in wrapped}

LEMMA IndexedLevel ==
  ASSUME NEW level \in Level, level.price \notin wrapped => Grows(level), NEW side \in OrderSide
  PROVE  /\ Indexed(side, level) \in Seq(OrderIndex)
         /\ DOMAIN Indexed(side, level) = DOMAIN level.inner
         /\ \A k \in DOMAIN level.inner :
               Indexed(side, level)[k] = [side |-> side, price |-> level.price, memo |-> level.inner[k].memo]
         /\ Ordered(Before, Indexed(side, level))
<1>1. level.inner \in Seq(Order) /\ Len(level.inner) \in Nat /\ DOMAIN level.inner = 1..Len(level.inner)
  BY LenProperties DEF Level, PriceLevel
<1>2. \A k \in DOMAIN level.inner : level.inner[k] \in Order BY <1>1, ElementOfSeq
<1>3. \A k \in DOMAIN level.inner : level.inner[k].memo \in Memo /\ level.inner[k].price = level.price
  BY <1>2 DEF Order, Level
<1>4. level.price \in Prices BY DEF Level, PriceLevel
<1>5. \A k \in DOMAIN level.inner :
          Indexed(side, level)[k] = [side |-> side, price |-> level.price, memo |-> level.inner[k].memo]
  BY <1>3 DEF Indexed
<1>6. DOMAIN Indexed(side, level) = 1..Len(level.inner) BY <1>1 DEF Indexed
<1>7. ASSUME NEW k \in 1..Len(level.inner) PROVE Indexed(side, level)[k] \in OrderIndex
  <2>1. level.inner[k].memo \in Memo BY <1>1, <1>3
  <2>2. [side |-> side, price |-> level.price, memo |-> level.inner[k].memo] \in OrderIndex
    BY <1>4, <2>1 DEF OrderIndex
  <2> QED BY <1>1, <1>5, <2>2
<1>8. Indexed(side, level) \in Seq(OrderIndex)
  <2>1. Indexed(side, level) = [k \in 1..Len(level.inner) |-> Indexed(side, level)[k]] BY <1>1 DEF Indexed
  <2> DEFINE x == Indexed(side, level)
  <2> HIDE DEF x
  <2>2. x = [k \in 1..Len(level.inner) |-> x[k]] /\ \A k \in 1..Len(level.inner) : x[k] \in OrderIndex
    BY <1>7, <2>1 DEF x
  <2>3. x \in [1..Len(level.inner) -> OrderIndex] BY <2>2
  <2>4. x \in Seq(OrderIndex) BY <1>1, <2>3, SeqDef
  <2> QED BY <2>4 DEF x
<1>9. ASSUME NEW a \in DOMAIN level.inner, NEW b \in DOMAIN level.inner, a < b
      PROVE  <<Indexed(side, level)[a], Indexed(side, level)[b]>> \in Before
  <2>1. level.price \notin wrapped => level.inner[a].memo < level.inner[b].memo BY <1>9 DEF Grows
  <2> DEFINE x == Indexed(side, level)[a]
             y == Indexed(side, level)[b]
  <2>2. Precedes(x, y) \/ (x.price = y.price /\ x.price \in wrapped)
    <3>1. ASSUME NEW k \in DOMAIN level.inner, NEW z, z = Indexed(side, level)[k]
          PROVE  z.price = level.price /\ z.memo = level.inner[k].memo
      <4>1. z = [side |-> side, price |-> level.price, memo |-> level.inner[k].memo] BY <1>5, <3>1
      <4> QED BY <4>1
    <3>2. /\ x.price = level.price /\ x.memo = level.inner[a].memo
          /\ y.price = level.price /\ y.memo = level.inner[b].memo
      BY <3>1
    <3> HIDE DEF x, y
    <3> QED BY <2>1, <3>2 DEF Precedes
  <2>3. x \in OrderIndex /\ y \in OrderIndex BY <1>1, <1>7
  <2> QED BY <2>2, <2>3 DEF Before
<1>10. Ordered(Before, Indexed(side, level)) BY <1>1, <1>6, <1>9 DEF Ordered
<1> QED BY <1>1, <1>5, <1>6, <1>8, <1>10

LEMMA Walk ==
  ASSUME PInv, NEW side \in OrderSide, NEW levels \in Seq(Level),
         \A i \in DOMAIN levels : \E j \in DOMAIN inner : levels[i] = inner[j],
         \A j \in DOMAIN inner : \E i \in DOMAIN levels : levels[i] = inner[j],
         \A i, j \in DOMAIN levels : i < j =>
            IF side = "Sell" THEN levels[i].price < levels[j].price ELSE levels[i].price > levels[j].price,
         NEW walk, walk = FlattenSeq([i \in DOMAIN levels |-> Indexed(side, levels[i])])
  PROVE  /\ \A a, b \in DOMAIN walk : a < b =>
               \/ Precedes(walk[a], walk[b])
               \/ walk[a].price = walk[b].price /\ walk[a].price \in wrapped
         /\ {<<walk[a].price, walk[a].memo>> : a \in DOMAIN walk} = Live
<1> DEFINE seqs == [i \in DOMAIN levels |-> Indexed(side, levels[i])]
<1>1. DOMAIN levels = 1..Len(levels) /\ Len(levels) \in Nat BY LenProperties
<1>2. \A i \in DOMAIN levels : levels[i] \in Level /\ (levels[i].price \notin wrapped => Grows(levels[i]))
  BY Vector, MemosGrowByLevel DEF PInv, GrowBut
<1>3. DOMAIN seqs = DOMAIN levels /\ \A i \in DOMAIN levels : seqs[i] = Indexed(side, levels[i]) OBVIOUS
<1>4. seqs \in [1..Len(levels) -> Seq(OrderIndex)] BY <1>1, <1>2, IndexedLevel
<1>5. seqs \in Seq(Seq(OrderIndex)) BY <1>1, <1>4, SeqDef
<1> HIDE DEF seqs
<1>6. \A i \in DOMAIN seqs : Ordered(Before, seqs[i]) BY <1>2, <1>3, IndexedLevel
<1>7. ASSUME NEW i \in DOMAIN seqs
      PROVE  /\ DOMAIN seqs[i] = DOMAIN levels[i].inner
             /\ \A k \in DOMAIN seqs[i] :
                   seqs[i][k] = [side |-> side, price |-> levels[i].price, memo |-> levels[i].inner[k].memo]
  <2>1. /\ levels[i] \in Level /\ (levels[i].price \notin wrapped => Grows(levels[i]))
        /\ seqs[i] = Indexed(side, levels[i])
    BY <1>2, <1>3
  <2>2. DOMAIN seqs[i] = DOMAIN levels[i].inner BY <2>1, IndexedLevel
  <2>3. \A k \in DOMAIN levels[i].inner : Indexed(side, levels[i])[k] =
            [side |-> side, price |-> levels[i].price, memo |-> levels[i].inner[k].memo]
    BY <2>1, IndexedLevel
  <2> QED BY <2>1, <2>2, <2>3
<1>8. ASSUME NEW i \in DOMAIN seqs, NEW j \in DOMAIN seqs, i < j,
             NEW a \in DOMAIN seqs[i], NEW b \in DOMAIN seqs[j]
      PROVE  <<seqs[i][a], seqs[j][b]>> \in Before
  <2>1. IF side = "Sell" THEN levels[i].price < levels[j].price ELSE levels[i].price > levels[j].price
    BY <1>3, <1>8
  <2>2. /\ seqs[i][a] = [side |-> side, price |-> levels[i].price, memo |-> levels[i].inner[a].memo]
        /\ seqs[j][b] = [side |-> side, price |-> levels[j].price, memo |-> levels[j].inner[b].memo]
    BY <1>7
  <2>3. Precedes(seqs[i][a], seqs[j][b]) BY <2>1, <2>2 DEF Precedes, OrderSide
  <2>4. seqs[i] \in Seq(OrderIndex) /\ seqs[j] \in Seq(OrderIndex) BY <1>1, <1>3, <1>4
  <2>5. seqs[i][a] \in OrderIndex /\ seqs[j][b] \in OrderIndex BY <2>4, ElementOfSeq, LenProperties
  <2> QED BY <2>3, <2>5 DEF Before
<1>9. walk = FlattenSeq(seqs) BY DEF seqs
<1>10. /\ Ordered(Before, walk)
       /\ \A a \in DOMAIN walk : \E i \in 1..Len(seqs) : \E k \in DOMAIN seqs[i] : walk[a] = seqs[i][k]
       /\ \A i \in 1..Len(seqs) : \A k \in DOMAIN seqs[i] : \E a \in DOMAIN walk : walk[a] = seqs[i][k]
  <2>1. \A i, j \in DOMAIN seqs : i < j =>
            \A a \in DOMAIN seqs[i] : \A b \in DOMAIN seqs[j] : <<seqs[i][a], seqs[j][b]>> \in Before
    BY <1>8
  <2>2. IsFlat(OrderIndex, Before, seqs, Len(seqs), walk) BY <1>5, <1>6, <1>9, <2>1, Flattened
  <2> QED BY <2>2, Zenon DEF IsFlat
<1> DOMAIN seqs = 1..Len(seqs) BY <1>5, LenProperties
<1>11. ASSUME NEW a \in DOMAIN walk, NEW b \in DOMAIN walk, a < b
       PROVE  \/ Precedes(walk[a], walk[b])
              \/ walk[a].price = walk[b].price /\ walk[a].price \in wrapped
  <2>1. <<walk[a], walk[b]>> \in Before BY <1>10, <1>11 DEF Ordered
  <2> QED BY <2>1 DEF Before
<1>12. ASSUME NEW a \in DOMAIN walk PROVE <<walk[a].price, walk[a].memo>> \in Live
  <2>1. PICK i \in DOMAIN seqs : \E k \in DOMAIN seqs[i] : walk[a] = seqs[i][k] BY <1>10
  <2>2. PICK k \in DOMAIN seqs[i] : walk[a] = seqs[i][k] BY <2>1
  <2>3. walk[a].price = levels[i].price /\ walk[a].memo = levels[i].inner[k].memo BY <1>7, <2>2
  <2>4. PICK j \in DOMAIN inner : levels[i] = inner[j] BY <1>3
  <2>5. k \in DOMAIN inner[j].inner BY <1>7, <2>4
  <2>6. <<inner[j].price, inner[j].inner[k].memo>> \in Live BY <2>5 DEF Live
  <2> QED BY <2>3, <2>4, <2>6
<1>13. ASSUME NEW pair \in Live PROVE \E a \in DOMAIN walk : pair = <<walk[a].price, walk[a].memo>>
  <2>1. PICK j \in DOMAIN inner : \E k \in DOMAIN inner[j].inner : pair = <<inner[j].price, inner[j].inner[k].memo>>
    BY DEF Live
  <2>2. PICK k \in DOMAIN inner[j].inner : pair = <<inner[j].price, inner[j].inner[k].memo>> BY <2>1
  <2>3. PICK i \in DOMAIN levels : levels[i] = inner[j] OBVIOUS
  <2>4. i \in DOMAIN seqs /\ k \in DOMAIN seqs[i] BY <1>3, <1>7, <2>3
  <2>5. PICK a \in DOMAIN walk : walk[a] = seqs[i][k] BY <1>10, <2>4
  <2>6. walk[a].price = inner[j].price /\ walk[a].memo = inner[j].inner[k].memo BY <1>7, <2>3, <2>4, <2>5
  <2> QED BY <2>2, <2>6
<1> QED BY <1>11, <1>12, <1>13, ZenonT(60)

(* iter_rel walks either side in price-time priority and meets every live  *)
(* order, for any number of levels and orders and in either build; only    *)
(* two orders of a level that has wrapped may come out of order.           *)
THEOREM WalksInPriceTime == Spec => []IterRelIsPriceTime
<1>1. ASSUME PInv, NEW side \in OrderSide
      PROVE  /\ \A a, b \in DOMAIN iter_rel(side) : a < b =>
                   \/ Precedes(iter_rel(side)[a], iter_rel(side)[b])
                   \/ /\ iter_rel(side)[a].price = iter_rel(side)[b].price
                      /\ iter_rel(side)[a].price \in wrapped
             /\ {<<iter_rel(side)[a].price, iter_rel(side)[a].memo>> : a \in DOMAIN iter_rel(side)} = Live
  <2>1. inner \in Seq(Level) /\ Len(inner) \in Nat /\ DOMAIN inner = 1..Len(inner)
    BY <1>1, LenProperties DEF PInv, Types
  <2>2. CASE side = "Sell"
    <3>1. iter_rel(side) = FlattenSeq([i \in DOMAIN inner |-> Indexed(side, inner[i])])
      BY <2>2 DEF iter_rel, Indexed
    <3>2. \A i, j \in DOMAIN inner : i < j => inner[i].price < inner[j].price BY <1>1 DEF PInv, LevelsSorted
    <3> QED BY <1>1, <2>1, <2>2, <3>1, <3>2, Walk
  <2>3. CASE side # "Sell"
    <3> DEFINE levels == Reverse(inner)
    <3>1. iter_rel(side) = FlattenSeq([i \in DOMAIN levels |-> Indexed(side, levels[i])])
      BY <2>3 DEF iter_rel, Indexed
    <3>2. levels = [i \in 1..Len(inner) |-> inner[(Len(inner) - i) + 1]] BY DEF Reverse
    <3> HIDE DEF levels
    <3>3. \A i \in 1..Len(inner) : (Len(inner) - i) + 1 \in 1..Len(inner)
                                 /\ (Len(inner) - ((Len(inner) - i) + 1)) + 1 = i
      BY <2>1
    <3>4. DOMAIN levels = 1..Len(inner) /\ \A i \in 1..Len(inner) : levels[i] = inner[(Len(inner) - i) + 1]
      BY <3>2
    <3>5. levels \in Seq(Level)
      <4>1. \A i \in 1..Len(inner) : inner[i] \in Level BY <2>1, ElementOfSeq
      <4>2. levels \in [1..Len(inner) -> Level] BY <3>2, <3>3, <4>1
      <4> QED BY <2>1, <4>2, SeqDef
    <3>6. \A i \in DOMAIN levels : \E j \in DOMAIN inner : levels[i] = inner[j] BY <2>1, <3>3, <3>4
    <3>7. ASSUME NEW j \in DOMAIN inner PROVE \E i \in DOMAIN levels : levels[i] = inner[j]
      <4>1. (Len(inner) - j) + 1 \in DOMAIN levels BY <2>1, <3>3, <3>4
      <4>2. levels[(Len(inner) - j) + 1] = inner[j] BY <2>1, <3>3, <3>4
      <4> QED BY <4>1, <4>2
    <3>8. ASSUME NEW i \in DOMAIN levels, NEW j \in DOMAIN levels, i < j
          PROVE  levels[i].price > levels[j].price
      <4>1. (Len(inner) - j) + 1 < (Len(inner) - i) + 1 BY <2>1, <3>4, <3>8
      <4>2. inner[(Len(inner) - j) + 1].price < inner[(Len(inner) - i) + 1].price
        BY <1>1, <2>1, <3>3, <3>4, <4>1 DEF PInv, LevelsSorted
      <4>3. \A k \in DOMAIN inner : inner[k].price \in Nat BY <1>1, Vector DEF PInv
      <4> QED BY <2>1, <3>3, <3>4, <4>2, <4>3
    <3> QED BY <1>1, <2>3, <3>1, <3>5, <3>6, <3>7, <3>8, Walk
  <2> QED BY <2>2, <2>3
<1>2. PInv => IterRelIsPriceTime BY <1>1 DEF IterRelIsPriceTime
<1>3. PInv /\ [Next]_vars => PInv' BY PInvNext
<1> QED BY <1>2, <1>3, PInvInit, PTL DEF Spec
=============================================================================
