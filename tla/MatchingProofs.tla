--------------------------- MODULE MatchingProofs ---------------------------
(***************************************************************************)
(* Proofs about Matching, for every set of prices and quantities: IInv is  *)
(* inductive, so the book is never crossed, no assert of the matching code *)
(* fires, and a refused order leaves no trace; with QInv, quantity is      *)
(* neither made nor lost; with RInv, the loops implement PlaceOrderSpec.   *)
(* A call is never stuck and its Work shrinks with every step, so it ends. *)
(* The last part is about the function of PlaceOrderFn: it crosses no book *)
(* that was not crossed before.                                            *)
(***************************************************************************)
EXTENDS Matching, FiniteSetTheorems, WellFoundedInduction, TLAPS

(* The initial state: an empty book and no order in hand.                  *)
LEMMA InitIInv == Init => IInv
  <1> SUFFICES ASSUME Init PROVE IInv
    OBVIOUS
  <1>1. DOMAIN book = {}
    BY DEF Init, EmptyBook
  <1>2. TypeOK
    BY <1>1, MemoMaxAssumption DEF Init, TypeOK, EmptyMemoSeq, Memo, FillType
  <1>3. NotCrossed /\ NoPanic
    BY <1>1 DEF Init, NotCrossed, NoPanic
  <1>4. MemoInv /\ TodoInv /\ FillsLive /\ FillsAddUp
    BY <1>1 DEF Init, MemoInv, TodoInv, FillsLive, FillsAddUp, Busy
  <1>5. RemInv /\ OutcomeInv /\ Covered /\ BookInv
    BY <1>1 DEF Init, RemInv, OutcomeInv, Covered, BookInv, Busy
  <1> QED
    BY <1>2, <1>3, <1>4, <1>5 DEF IInv

(* Calling do_place_order starts a scan of the whole maker side.           *)
LEMMA ReceiveIInv ==
  ASSUME IInv, NEW o \in PlaceOrder, Receive(o)
  PROVE  IInv'
  <1> USE DEF Receive, answered
  <1>1. TypeOK'
    BY QuantitiesAssumption DEF IInv, TypeOK, PlaceOrder, FillType
  <1>2. NotCrossed' /\ NoPanic'
    BY DEF IInv, NotCrossed, NoPanic
  <1>3. MemoInv' /\ TodoInv'
    BY DEF IInv, MemoInv, TodoInv, Busy
  <1>4. FillsLive' /\ FillsAddUp'
    BY DEF FillsLive, FillsAddUp
  <1>5. Left' = o.quantity /\ o.quantity \in Nat \ {0}
    BY QuantitiesAssumption DEF Left, PlaceOrder
  <1>6. RemInv' /\ OutcomeInv'
    BY <1>5 DEF RemInv, OutcomeInv
  <1>7. Covered' /\ BookInv'
    BY DEF IInv, Covered, BookInv
  <1> QED
    BY <1>1, <1>2, <1>3, <1>4, <1>6, <1>7 DEF IInv

(* A maker that does not meet the limit price is not eligible.             *)
LEMMA SkipMakerIInv ==
  ASSUME IInv, NEW oix \in todo, SkipMaker(oix)
  PROVE  IInv'
  <1> USE DEF SkipMaker, answered
  <1>1. Left' = Left
    BY DEF Left
  <1>2. TypeOK' /\ NotCrossed' /\ NoPanic' /\ MemoInv'
    BY DEF IInv, TypeOK, NotCrossed, NoPanic, MemoInv, Busy
  <1>3. TodoInv' /\ FillsLive' /\ FillsAddUp' /\ BookInv'
    BY DEF IInv, TodoInv, FillsLive, FillsAddUp, BookInv, Busy
  <1>4. RemInv' /\ OutcomeInv'
    BY <1>1 DEF IInv, RemInv, OutcomeInv, Busy
  <1>5. Covered'
    BY <1>1 DEF IInv, Covered, Busy
  <1> QED
    BY <1>2, <1>3, <1>4, <1>5 DEF IInv
(* One more MakerFill: the fills still describe the book and add up.       *)
LEMMA FillMakerIInv ==
  ASSUME IInv, NEW oix \in todo, FillMaker(oix)
  PROVE  IInv'
  <1> DEFINE n == Len(maker_fills)
             amount == IF book[oix] <= rem THEN book[oix] ELSE rem
             fill == [oix |-> oix, quantity |-> book[oix],
                      fill_type |-> IF amount = book[oix] THEN "Complete" ELSE "Partial"]
  <1>1. /\ pc = "scan" /\ pc' = "scan" /\ next' = next /\ next = 1
        /\ maker_fills' = Append(maker_fills, fill)
        /\ rems' = Append(rems, rem)
        /\ order' = order /\ book' = book /\ memo_seq' = memo_seq
        /\ UNCHANGED answered
    BY DEF FillMaker, IInv, RemInv
  <1>2. /\ oix \in DOMAIN book /\ oix \in OrderIndex
        /\ book[oix] \in Quantity /\ rem \in Quantity
        /\ oix.side = MakerSide(order.side)
        /\ \A i \in DOMAIN maker_fills : maker_fills[i].oix # oix
    BY <1>1 DEF IInv, TypeOK, TodoInv, RemInv, Quantity
  <1>3. /\ n \in Nat /\ Len(rems) = n
        /\ maker_fills \in Seq(MakerFill) /\ rems \in Seq(Quantity)
        /\ order.quantity \in Quantity
    <2>1. order.quantity \in Quantity
      BY QuantitiesAssumption DEF IInv, TypeOK, PlaceOrder, Quantity
    <2> QED
      BY <2>1 DEF IInv, TypeOK, FillsAddUp
  <1>4. fill \in MakerFill
    BY <1>2 DEF MakerFill, FillType
  <1>5. /\ Len(maker_fills') = n + 1 /\ Len(rems') = n + 1
        /\ DOMAIN maker_fills' = 1..(n + 1)
        /\ maker_fills'[n + 1] = fill /\ rems'[n + 1] = rem
        /\ \A i \in 1..n : maker_fills'[i] = maker_fills[i] /\ rems'[i] = rems[i]
        /\ maker_fills' # <<>>
    BY <1>1, <1>3, <1>4, <1>2
  <1>6. rem = Left /\ rem <= order.quantity
    <2>1. rem = Left
      BY <1>1 DEF IInv, RemInv
    <2>2. CASE maker_fills = <<>>
      BY <2>1, <2>2, <1>3 DEF Left, Quantity
    <2>3. CASE maker_fills # <<>>
      <3>1. n \in DOMAIN maker_fills /\ n > 0
        BY <2>3, <1>3
      <3>2. rems[n] \in Nat /\ rems[n] <= order.quantity /\ maker_fills[n].quantity \in Nat
        <4>1. n \in 1..Len(rems) /\ rems[n] \in Quantity /\ maker_fills[n] \in MakerFill
          BY <3>1, <1>3
        <4>2. rems[n] <= order.quantity
          BY <3>1 DEF IInv, FillsAddUp
        <4> QED
          BY <4>1, <4>2 DEF MakerFill, Quantity
      <3> QED
        BY <2>1, <2>3, <3>1, <3>2, <1>3 DEF Left, Quantity
    <2> QED
      BY <2>1, <2>2, <2>3
  <1>7. /\ amount \in Quantity /\ amount <= rem /\ amount <= book[oix]
        /\ rem' = rem - amount
        /\ Left' = rem'
        /\ rem' = 0 => outcome' = "Complete" /\ todo' = {}
        /\ rem' # 0 => outcome' = "Partial" /\ todo' = todo \ {oix} /\ amount = book[oix]
    <2>1. amount \in Quantity /\ amount <= rem /\ amount <= book[oix]
      BY <1>2 DEF Quantity
    <2>2. rem' = rem - amount
      BY <1>2, <2>1 DEF FillMaker, Quantity
    <2>3. Left' = rem'
      BY <1>2, <1>3, <1>5, <2>1, <2>2 DEF Left, Quantity
    <2>4. rem' = 0 => outcome' = "Complete" /\ todo' = {}
      BY <1>2, <2>1, <2>2 DEF FillMaker, Quantity
    <2>5. rem' # 0 => outcome' = "Partial" /\ todo' = todo \ {oix} /\ amount = book[oix]
      BY <1>2, <2>1, <2>2 DEF FillMaker, Quantity
    <2> QED
      BY <2>1, <2>2, <2>3, <2>4, <2>5
  <1> HIDE DEF n, amount, fill
  <1>8. TypeOK'
    <2>1. maker_fills' \in Seq(MakerFill) /\ rems' \in Seq(Quantity)
      BY <1>1, <1>2, <1>3, <1>4
    <2>2. rem' \in Nat /\ outcome' \in FillType /\ todo' \subseteq OrderIndex
      BY <1>7, <1>2 DEF IInv, TypeOK, FillType, Quantity
    <2> QED
      BY <1>1, <2>1, <2>2 DEF IInv, TypeOK
  <1>9. NotCrossed' /\ NoPanic' /\ MemoInv' /\ BookInv'
    BY <1>1 DEF IInv, NotCrossed, NoPanic, MemoInv, BookInv, Busy, answered
  <1>10. TodoInv'
    BY <1>1, <1>2, <1>3, <1>5, <1>7 DEF IInv, TodoInv, fill
  <1>11. FillsLive'
    BY <1>1, <1>2, <1>3, <1>5 DEF IInv, FillsLive, Busy, fill
  <1>12. FillsAddUp'
    <2>1. rems'[1] = order.quantity
      <3>1. CASE n = 0
        BY <3>1, <1>3, <1>5, <1>6 DEF Left, n
      <3>2. CASE n > 0
        BY <3>2, <1>3, <1>5 DEF IInv, FillsAddUp, n
      <3> QED
        BY <3>1, <3>2, <1>3
    <2>2. \A i \in 1..n : maker_fills[i].fill_type = "Complete"
      <3> SUFFICES ASSUME NEW i \in 1..n, maker_fills[i].fill_type # "Complete" PROVE FALSE
        OBVIOUS
      <3>1. i = n
        BY <1>3 DEF IInv, FillsAddUp, n
      <3>2. Left = 0
        BY <3>1, <1>3 DEF Left, n
      <3> QED
        BY <3>2, <1>6, <1>2 DEF Quantity
    <2>3. n > 0 => rem = rems[n] - maker_fills[n].quantity
      BY <2>2, <1>3, <1>6 DEF Left, n
    <2>4. \A i \in 1..(n + 1) :
            /\ rems'[i] <= order.quantity
            /\ maker_fills'[i].fill_type = "Complete" => maker_fills'[i].quantity <= rems'[i]
            /\ maker_fills'[i].fill_type # "Complete" =>
                  maker_fills'[i].fill_type = "Partial" /\ rems'[i] < maker_fills'[i].quantity
      <3> TAKE i \in 1..(n + 1)
      <3>1. CASE i \in 1..n
        BY <3>1, <1>3, <1>5 DEF IInv, FillsAddUp, n
      <3>2. CASE i = n + 1
        BY <3>2, <1>2, <1>5, <1>6, <1>7 DEF fill, amount, Quantity
      <3> QED
        BY <3>1, <3>2, <1>3
    <2>5. \A i \in 1..n : /\ maker_fills'[i].fill_type = "Complete"
                          /\ rems'[i + 1] = rems'[i] - maker_fills'[i].quantity
      <3> TAKE i \in 1..n
      <3>1. CASE i < n
        BY <3>1, <2>2, <1>3, <1>5 DEF IInv, FillsAddUp, n
      <3>2. CASE i = n
        BY <3>2, <2>2, <2>3, <1>3, <1>5
      <3> QED
        BY <3>1, <3>2, <1>3
    <2> QED
      BY <2>1, <2>4, <2>5, <1>1, <1>3, <1>5 DEF FillsAddUp
  <1>13. RemInv'
    BY <1>1, <1>7, <1>2 DEF RemInv, Quantity
  <1>14. OutcomeInv'
    <2>1. rem' \in Nat /\ rem' < order.quantity
      BY <1>2, <1>3, <1>6, <1>7 DEF Quantity
    <2> QED
      BY <2>1, <1>1, <1>7 DEF OutcomeInv
  <1>15. Covered'
    <2> SUFFICES ASSUME NEW o \in DOMAIN book, Left' # 0,
                        o.side = MakerSide(order.side), MeetsPrice(order, o.price)
                 PROVE  \/ o \in todo'
                        \/ \E i \in 1..(n + 1) : /\ i >= next'
                                                 /\ maker_fills'[i].oix = o
                                                 /\ maker_fills'[i].fill_type = "Complete"
      BY <1>1, <1>5 DEF Covered
    <2>1. todo' = todo \ {oix} /\ fill.fill_type = "Complete" /\ fill.oix = oix
      BY <1>7 DEF fill
    <2>2. CASE o = oix
      BY <2>1, <2>2, <1>1, <1>3, <1>5
    <2>3. CASE o # oix
      <3>1. Left # 0
        BY <1>6, <1>2 DEF Quantity
      <3>2. \/ o \in todo
            \/ \E i \in DOMAIN maker_fills :
                  i >= next /\ maker_fills[i].oix = o /\ maker_fills[i].fill_type = "Complete"
        BY <3>1, <1>1 DEF IInv, Covered, Busy
      <3> QED
        BY <3>2, <2>1, <2>3, <1>1, <1>3, <1>5 DEF n
    <2> QED
      BY <2>2, <2>3
  <1> QED
    BY <1>8, <1>9, <1>10, <1>11, <1>12, <1>13, <1>14, <1>15 DEF IInv

(* The end of the loop of try_fill_orders changes no outcome.              *)
LEMMA EndScanIInv ==
  ASSUME IInv, EndScan
  PROVE  IInv'
  <1> USE DEF EndScan, answered
  <1>1. Left' = Left /\ order.quantity \in Nat \ {0}
    BY QuantitiesAssumption DEF Left, IInv, TypeOK, PlaceOrder
  <1>2. TypeOK' /\ NotCrossed' /\ NoPanic' /\ MemoInv'
    BY DEF IInv, TypeOK, NotCrossed, NoPanic, MemoInv, Busy, FillType
  <1>3. TodoInv' /\ FillsLive' /\ FillsAddUp' /\ BookInv' /\ RemInv' /\ Covered'
    BY <1>1 DEF IInv, TodoInv, FillsLive, FillsAddUp, BookInv, RemInv, Covered, Busy
  <1>4. OutcomeInv'
    BY <1>1 DEF IInv, OutcomeInv, RemInv, Busy
  <1> QED
    BY <1>2, <1>3, <1>4 DEF IInv
(* Returning from do_place_order empties its locals: what is left to show  *)
(* is that the book it leaves is sound.                                    *)
LEMMA AnswerIInv ==
  ASSUME IInv, NEW result, Answer(result),
         DOMAIN book' \subseteq OrderIndex,
         \A o \in DOMAIN book' : book'[o] \in Quantity,
         memo_seq' \in [OrderSide -> [Prices -> Memo]],
         \A o \in DOMAIN book' : o.memo < memo_seq'[o.side][o.price],
         NotCrossed',
         result.tag = "Err" => result.error # "InvalidOrderIndex"
  PROVE  IInv'
  <1> USE DEF Answer
  <1>1. TypeOK'
    BY DEF IInv, TypeOK, FillType
  <1>2. NoPanic' /\ MemoInv' /\ TodoInv' /\ FillsLive' /\ FillsAddUp'
    BY DEF NoPanic, MemoInv, TodoInv, FillsLive, FillsAddUp, Busy
  <1>3. RemInv' /\ OutcomeInv' /\ Covered' /\ BookInv'
    BY DEF RemInv, OutcomeInv, Covered, BookInv, Busy
  <1> QED
    BY <1>1, <1>2, <1>3 DEF IInv

(* The time-in-force table either refuses, with the book untouched, or     *)
(* goes on to commit.                                                      *)
LEMMA EnforceTimeInForceIInv ==
  ASSUME IInv, EnforceTimeInForce
  PROVE  IInv'
  <1> USE DEF locals, answered
  <1>1. CASE pc = "tif" /\ pc' = "validate" /\ UNCHANGED <<book, memo_seq, locals, answered>>
    <2>1. Left' = Left
      BY <1>1 DEF Left
    <2>2. TypeOK' /\ NotCrossed' /\ NoPanic' /\ MemoInv' /\ TodoInv' /\ BookInv'
      BY <1>1 DEF IInv, TypeOK, NotCrossed, NoPanic, MemoInv, TodoInv, BookInv, Busy
    <2>3. FillsLive' /\ FillsAddUp' /\ RemInv' /\ OutcomeInv' /\ Covered'
      BY <1>1, <2>1 DEF IInv, FillsLive, FillsAddUp, RemInv, OutcomeInv, Covered, Busy
    <2> QED
      BY <2>2, <2>3 DEF IInv
  <1>2. ASSUME NEW error \in Refusal(outcome, order.time_in_force),
               UNCHANGED <<book, memo_seq>>, Answer(Err(error))
        PROVE  IInv'
    <2>1. Err(error).tag = "Err" => Err(error).error # "InvalidOrderIndex"
      BY DEF Err, Refusal
    <2>2. NotCrossed'
      BY <1>2 DEF IInv, NotCrossed
    <2> QED
      BY <1>2, <2>1, <2>2, AnswerIInv DEF IInv, TypeOK, MemoInv
  <1> QED
    BY <1>1, <1>2 DEF EnforceTimeInForce

(* The validation pass of commit finds every maker.                        *)
LEMMA ValidateIInv ==
  ASSUME IInv, Validate
  PROVE  IInv'
  <1>1. /\ pc = "validate" /\ pc' = "commit" /\ rem' = order.quantity
        /\ UNCHANGED <<book, memo_seq, order, todo, outcome, maker_fills, next, rems, answered>>
    <2>1. \A i \in DOMAIN maker_fills : i >= 1
      BY DEF IInv, TypeOK
    <2>2. \A i \in DOMAIN maker_fills : maker_fills[i].oix \in DOMAIN book
      BY <2>1 DEF Validate, IInv, FillsLive, RemInv, Busy
    <2> QED
      BY <2>2 DEF Validate
  <1> USE DEF answered
  <1>2. Left' = Left
    BY <1>1 DEF Left
  <1>3. TypeOK' /\ NotCrossed' /\ NoPanic' /\ MemoInv' /\ TodoInv' /\ BookInv'
    BY <1>1, QuantitiesAssumption
    DEF IInv, TypeOK, NotCrossed, NoPanic, MemoInv, TodoInv, BookInv, Busy, PlaceOrder
  <1>4. FillsLive' /\ FillsAddUp' /\ OutcomeInv' /\ Covered'
    BY <1>1, <1>2 DEF IInv, FillsLive, FillsAddUp, OutcomeInv, Covered, Busy
  <1>5. RemInv'
    BY <1>1, <1>2 DEF IInv, TypeOK, RemInv, FillsAddUp, Left
  <1> QED
    BY <1>3, <1>4, <1>5 DEF IInv

(* Facts about the fill that commit is about to apply.                     *)
LEMMA NextFill ==
  ASSUME IInv, pc = "commit", next \in DOMAIN maker_fills
  PROVE  LET fill == maker_fills[next] IN
           /\ fill \in MakerFill
           /\ next \in 1..Len(maker_fills)
           /\ fill.oix \in DOMAIN book
           /\ fill.oix.side = MakerSide(order.side)
           /\ book[fill.oix] = fill.quantity
           /\ rem = rems[next] /\ rem \in Quantity
           /\ fill.fill_type = "Complete" => fill.quantity <= rem
           /\ fill.fill_type # "Complete" => /\ fill.fill_type = "Partial"
                                             /\ rem < fill.quantity
                                             /\ next = Len(maker_fills)
           /\ rem - fill.quantity \in Int
           /\ fill.fill_type = "Complete" =>
                rem - fill.quantity = IF next + 1 <= Len(maker_fills) THEN rems[next + 1] ELSE Left
           /\ fill.fill_type # "Complete" => Left = 0
  <1>1. /\ maker_fills[next] \in MakerFill
        /\ next \in 1..Len(maker_fills)
        /\ rems[next] \in Quantity
        /\ Len(maker_fills) \in Nat
    BY DEF IInv, TypeOK, FillsAddUp
  <1>2. rem = rems[next]
    BY <1>1 DEF IInv, RemInv
  <1>3. /\ maker_fills[next].oix \in DOMAIN book
        /\ maker_fills[next].oix.side = MakerSide(order.side)
        /\ book[maker_fills[next].oix] = maker_fills[next].quantity
    BY <1>1 DEF IInv, FillsLive, Busy
  <1>4. maker_fills[next].fill_type = "Complete" => maker_fills[next].quantity <= rem
    BY <1>1, <1>2 DEF IInv, FillsAddUp
  <1>5. maker_fills[next].fill_type # "Complete" =>
          /\ maker_fills[next].fill_type = "Partial"
          /\ rem < maker_fills[next].quantity
          /\ next = Len(maker_fills)
    BY <1>1, <1>2 DEF IInv, FillsAddUp
  <1>6. maker_fills[next].fill_type = "Complete" =>
          rem - maker_fills[next].quantity
             = IF next + 1 <= Len(maker_fills) THEN rems[next + 1] ELSE Left
    BY <1>1, <1>2 DEF IInv, FillsAddUp, Left
  <1>7. maker_fills[next].fill_type # "Complete" => Left = 0
    BY <1>1, <1>5 DEF Left
  <1>8. rem - maker_fills[next].quantity \in Int
    BY <1>1, <1>2 DEF MakerFill, Quantity
  <1> QED
    BY <1>1, <1>2, <1>3, <1>4, <1>5, <1>6, <1>7, <1>8
(* A completely filled maker leaves the book; nobody else's fill changes.  *)
LEMMA CommitCompleteIInv ==
  ASSUME IInv, CommitComplete
  PROVE  IInv'
  <1> DEFINE fill == maker_fills[next]
             gone == maker_fills[next].oix
  <1>1. pc = "commit" /\ next \in DOMAIN maker_fills /\ fill.fill_type = "Complete"
    BY DEF CommitComplete
  <1>2. /\ fill \in MakerFill /\ next \in 1..Len(maker_fills)
        /\ gone \in DOMAIN book /\ gone.side = MakerSide(order.side)
        /\ book[gone] = fill.quantity /\ fill.quantity <= rem /\ rem \in Quantity
        /\ rem - fill.quantity
             = IF next + 1 <= Len(maker_fills) THEN rems[next + 1] ELSE Left
    BY <1>1, NextFill
  <1>3. /\ fill.quantity \in Quantity
        /\ ~(book[gone] # fill.quantity \/ rem < book[gone])
    BY <1>2 DEF MakerFill, Quantity
  <1>4. /\ RemoveFromBook(gone) /\ rem' = rem - fill.quantity /\ next' = next + 1
        /\ UNCHANGED <<pc, order, todo, outcome, maker_fills, rems, answered>>
    BY <1>2, <1>3 DEF CommitComplete
  <1> HIDE DEF fill, gone
  <1>5. /\ DOMAIN book' = DOMAIN book \ {gone}
        /\ \A o \in DOMAIN book' : book'[o] = book[o]
    BY <1>4 DEF RemoveFromBook
  <1>6. /\ gone \in OrderIndex
        /\ memo_seq' \in [OrderSide -> [Prices -> Memo]]
        /\ \A side \in OrderSide, price \in Prices :
              \/ memo_seq'[side][price] = memo_seq[side][price]
              \/ /\ side = gone.side /\ price = gone.price
                 /\ memo_seq'[side][price] = 0
                 /\ \A o \in DOMAIN book' : ~(o.side = side /\ o.price = price)
    <2>1. gone \in OrderIndex /\ gone.side \in OrderSide /\ gone.price \in Prices
      BY <1>2 DEF IInv, TypeOK, OrderIndex
    <2>2. CASE memo_seq' = memo_seq
      BY <2>1, <2>2 DEF IInv, TypeOK
    <2>3. CASE memo_seq' # memo_seq
      <3>1. /\ memo_seq' = [memo_seq EXCEPT ![gone.side][gone.price] = 0]
            /\ \A o \in DOMAIN book' : ~(o.side = gone.side /\ o.price = gone.price)
        BY <2>3, <1>4, <1>5 DEF RemoveFromBook
      <3>2. memo_seq \in [OrderSide -> [Prices -> Memo]] /\ 0 \in Memo
        BY MemoMaxAssumption DEF IInv, TypeOK, Memo
      <3> QED
        BY <2>1, <3>1, <3>2
    <2> QED
      BY <2>2, <2>3
  <1>7. order.side \in OrderSide /\ order.price \in Prices /\ gone.side # order.side
    BY <1>2 DEF IInv, TypeOK, PlaceOrder, OrderSide, MakerSide
  <1>8. TypeOK'
    <2>1. DOMAIN book' \subseteq OrderIndex /\ \A o \in DOMAIN book' : book'[o] \in Quantity
      BY <1>5 DEF IInv, TypeOK
    <2>2. rem' \in Nat /\ next' \in Nat
      BY <1>2, <1>3, <1>4 DEF Quantity
    <2> QED
      BY <2>1, <2>2, <1>4, <1>6 DEF IInv, TypeOK
  <1>9. NotCrossed'
    BY <1>5 DEF IInv, NotCrossed
  <1>10. NoPanic' /\ TodoInv' /\ FillsAddUp' /\ BookInv'
    BY <1>1, <1>4 DEF IInv, NoPanic, TodoInv, FillsAddUp, BookInv, answered
  <1>11. MemoInv'
    <2>1. \A o \in DOMAIN book' : o.memo < memo_seq'[o.side][o.price]
      <3> TAKE o \in DOMAIN book'
      <3>1. o \in DOMAIN book /\ o.side \in OrderSide /\ o.price \in Prices
        BY <1>5 DEF IInv, TypeOK, OrderIndex
      <3> QED
        BY <3>1, <1>6 DEF IInv, MemoInv
    <2>2. memo_seq'[order.side][order.price] < MemoMax
      BY <1>1, <1>6, <1>7 DEF IInv, MemoInv, Busy
    <2> QED
      BY <2>1, <2>2, <1>4 DEF MemoInv
  <1>12. FillsLive'
    <2> SUFFICES ASSUME NEW i \in DOMAIN maker_fills, i >= next + 1
                 PROVE  /\ maker_fills[i].oix \in DOMAIN book'
                        /\ maker_fills[i].oix.side = MakerSide(order.side)
                        /\ book'[maker_fills[i].oix] = maker_fills[i].quantity
                        /\ \A j \in DOMAIN maker_fills :
                              maker_fills[i].oix = maker_fills[j].oix => i = j
      BY <1>4 DEF FillsLive
    <2>1. i >= next /\ i # next
      BY <1>2
    <2>2. /\ maker_fills[i].oix \in DOMAIN book
          /\ maker_fills[i].oix.side = MakerSide(order.side)
          /\ book[maker_fills[i].oix] = maker_fills[i].quantity
          /\ \A j \in DOMAIN maker_fills : maker_fills[i].oix = maker_fills[j].oix => i = j
      BY <2>1, <1>1 DEF IInv, FillsLive, Busy
    <2>3. maker_fills[i].oix # gone
      BY <2>1, <2>2, <1>1 DEF gone
    <2> QED
      BY <2>2, <2>3, <1>5
  <1>13. Left' = Left
    BY <1>4 DEF Left
  <1>14. RemInv'
    BY <1>1, <1>2, <1>4, <1>13 DEF RemInv, IInv, TodoInv
  <1>15. OutcomeInv'
    BY <1>1, <1>4, <1>13 DEF IInv, OutcomeInv, Busy
  <1>16. Covered'
    <2> SUFFICES ASSUME NEW o \in DOMAIN book', Left # 0,
                        o.side = MakerSide(order.side), MeetsPrice(order, o.price)
                 PROVE  \E i \in DOMAIN maker_fills : /\ i >= next + 1
                                                      /\ maker_fills[i].oix = o
                                                      /\ maker_fills[i].fill_type = "Complete"
      BY <1>4, <1>13 DEF Covered
    <2>1. o \in DOMAIN book /\ o # gone /\ o \notin todo
      BY <1>1, <1>5 DEF IInv, TodoInv
    <2>2. PICK i \in DOMAIN maker_fills :
            i >= next /\ maker_fills[i].oix = o /\ maker_fills[i].fill_type = "Complete"
      BY <2>1, <1>1 DEF IInv, Covered, Busy
    <2>3. i # next /\ i \in Int
      BY <2>1, <2>2, <1>2 DEF gone, IInv, TypeOK
    <2> QED
      BY <2>2, <2>3, <1>2
  <1> QED
    BY <1>8, <1>9, <1>10, <1>11, <1>12, <1>14, <1>15, <1>16 DEF IInv

(* A partially filled maker keeps a positive quantity and ends the loop.   *)
LEMMA CommitPartialIInv ==
  ASSUME IInv, CommitPartial
  PROVE  IInv'
  <1> DEFINE fill == maker_fills[next]
             kept == maker_fills[next].oix
  <1>1. pc = "commit" /\ next \in DOMAIN maker_fills /\ fill.fill_type = "Partial"
    BY DEF CommitPartial
  <1>2. /\ fill \in MakerFill /\ next \in 1..Len(maker_fills)
        /\ kept \in DOMAIN book /\ book[kept] = fill.quantity
        /\ rem \in Quantity /\ rem < fill.quantity
        /\ next = Len(maker_fills) /\ Left = 0
    BY <1>1, NextFill
  <1>3. /\ fill.quantity \in Quantity
        /\ ~(book[kept] # fill.quantity \/ rem >= book[kept])
    BY <1>2 DEF MakerFill, Quantity
  <1>4. /\ book' = [book EXCEPT ![kept] = @ - rem] /\ rem' = 0 /\ next' = next + 1
        /\ UNCHANGED <<memo_seq, pc, order, todo, outcome, maker_fills, rems, answered>>
    BY <1>2, <1>3 DEF CommitPartial
  <1> HIDE DEF fill, kept
  <1>5. /\ DOMAIN book' = DOMAIN book
        /\ \A o \in DOMAIN book' : book'[o] \in Quantity
    BY <1>2, <1>3, <1>4 DEF IInv, TypeOK, Quantity
  <1>6. Left' = 0
    BY <1>2, <1>4 DEF Left
  <1>7. TypeOK'
    BY <1>2, <1>4, <1>5 DEF IInv, TypeOK
  <1>8. NotCrossed' /\ MemoInv'
    BY <1>4, <1>5 DEF IInv, NotCrossed, MemoInv, Busy
  <1>9. NoPanic' /\ TodoInv' /\ FillsAddUp' /\ BookInv'
    BY <1>1, <1>4 DEF IInv, NoPanic, TodoInv, FillsAddUp, BookInv, answered
  <1>10. FillsLive'
    BY <1>2, <1>4 DEF IInv, TypeOK, FillsLive
  <1>11. RemInv'
    BY <1>1, <1>2, <1>4, <1>6 DEF RemInv, IInv, TypeOK
  <1>12. OutcomeInv' /\ Covered'
    BY <1>1, <1>2, <1>4, <1>6 DEF IInv, OutcomeInv, Covered, Busy
  <1> QED
    BY <1>7, <1>8, <1>9, <1>10, <1>11, <1>12 DEF IInv
(* What rests could not have traded: no eligible maker is left, so the     *)
(* book stays uncrossed and the new index is above its level's memos.      *)
LEMMA SettleIInv ==
  ASSUME IInv, Settle
  PROVE  IInv'
  <1> DEFINE oix == [side |-> order.side, price |-> order.price,
                     memo |-> memo_seq[order.side][order.price]]
             rests == rem > 0 /\ order.time_in_force # "ImmediateOrCancel"
             result == Ok(order, IF rests THEN {oix} ELSE {}, outcome, rem)
  <1>1. pc = "commit" /\ next \notin DOMAIN maker_fills
    BY DEF Settle
  <1>2. next = Len(maker_fills) + 1 /\ Len(maker_fills) \in Nat
        /\ DOMAIN maker_fills = 1..Len(maker_fills)
    BY <1>1 DEF IInv, TypeOK, RemInv
  <1>3. /\ order.quantity \in Quantity /\ order.side \in OrderSide /\ order.price \in Prices
        /\ order.order_type \in OrderType
    BY QuantitiesAssumption DEF IInv, TypeOK, PlaceOrder, Quantity
  <1>4. rem = Left /\ rem \in Nat /\ rem <= order.quantity
    <2>1. rem = Left /\ rem \in Nat
      BY <1>1, <1>2 DEF IInv, TypeOK, RemInv
    <2>2. CASE maker_fills = <<>>
      BY <2>1, <2>2, <1>3 DEF Left, Quantity
    <2>3. CASE maker_fills # <<>>
      <3>1. Len(maker_fills) \in DOMAIN maker_fills
        BY <2>3, <1>2 DEF IInv, TypeOK
      <3>2. /\ maker_fills[Len(maker_fills)] \in MakerFill
            /\ rems[Len(maker_fills)] \in Quantity
            /\ rems[Len(maker_fills)] <= order.quantity
        BY <3>1, <1>2 DEF IInv, TypeOK, FillsAddUp
      <3> QED
        BY <2>1, <2>3, <3>2, <1>3 DEF Left, MakerFill, Quantity
    <2> QED
      BY <2>1, <2>2, <2>3
  <1>5. OutcomeAgrees
    <2>1. outcome = IF rem = 0 THEN "Complete"
                    ELSE IF rem < order.quantity THEN "Partial" ELSE "None"
      BY <1>1, <1>4 DEF IInv, OutcomeInv, Busy
    <2> QED
      BY <2>1, <1>3, <1>4 DEF OutcomeAgrees, Quantity
  <1>6. /\ book' = IF rests THEN WithOrder(book, oix, rem) ELSE book
        /\ memo_seq' = IF rests THEN [memo_seq EXCEPT ![order.side][order.price] = @ + 1]
                       ELSE memo_seq
        /\ Answer(result)
    BY <1>3, <1>4, <1>5 DEF Settle, Quantity
  <1>7. result.tag = "Ok"
    BY DEF Ok
  <1> HIDE DEF result
  <1>8. CASE ~rests
    <2>1. UNCHANGED <<book, memo_seq>>
      BY <1>6, <1>8
    <2>2. NotCrossed'
      BY <2>1 DEF IInv, NotCrossed
    <2> QED
      BY <2>1, <2>2, <1>6, <1>7, AnswerIInv DEF IInv, TypeOK, MemoInv
  <1>9. CASE rests
    <2>1. /\ memo_seq \in [OrderSide -> [Prices -> Memo]]
          /\ memo_seq[order.side][order.price] \in Nat
          /\ memo_seq[order.side][order.price] < MemoMax
      BY <1>1, <1>3, MemoMaxAssumption DEF IInv, TypeOK, MemoInv, Busy, Memo
    <2>2. oix \in OrderIndex
      BY <1>3, <2>1, MemoMaxAssumption DEF OrderIndex, Memo
    <2>3. /\ DOMAIN book' = DOMAIN book \union {oix}
          /\ \A o \in DOMAIN book' : book'[o] = IF o = oix THEN rem ELSE book[o]
      BY <1>6, <1>9 DEF WithOrder
    <2>4. /\ DOMAIN book' \subseteq OrderIndex
          /\ \A o \in DOMAIN book' : book'[o] \in Quantity
      BY <2>2, <2>3, <1>4, <1>9 DEF IInv, TypeOK, Quantity
    <2>5. memo_seq' = [memo_seq EXCEPT ![order.side][order.price] = @ + 1]
      BY <1>6, <1>9
    <2>6. memo_seq' \in [OrderSide -> [Prices -> Memo]]
      BY <2>1, <2>5, <1>3, MemoMaxAssumption DEF Memo
    <2>7. \A side \in OrderSide, price \in Prices :
             memo_seq'[side][price] = IF side = order.side /\ price = order.price
                                      THEN memo_seq[side][price] + 1
                                      ELSE memo_seq[side][price]
      BY <2>1, <2>5, <1>3
    <2>8. \A o \in DOMAIN book' : o.memo < memo_seq'[o.side][o.price]
      <3> TAKE o \in DOMAIN book'
      <3>1. o.side \in OrderSide /\ o.price \in Prices /\ o.memo \in Nat
        BY <2>4, MemoMaxAssumption DEF OrderIndex, Memo
      <3>2. CASE o = oix
        BY <3>1, <3>2, <2>1, <2>7
      <3>3. CASE o # oix
        <4>1. o.memo < memo_seq[o.side][o.price] /\ memo_seq[o.side][o.price] \in Nat
          BY <3>1, <3>3, <2>1, <2>3, MemoMaxAssumption DEF IInv, MemoInv, Memo
        <4> QED
          BY <4>1, <3>1, <2>7
      <3> QED
        BY <3>2, <3>3
    <2>9. \A o \in DOMAIN book : o.side = MakerSide(order.side) => ~MeetsPrice(order, o.price)
      BY <1>1, <1>2, <1>4, <1>9 DEF IInv, Covered, TodoInv, Busy
    <2>10. NotCrossed'
      <3> SUFFICES ASSUME NEW bid \in DOMAIN book', NEW ask \in DOMAIN book',
                          bid.side = "Buy", ask.side = "Sell"
                   PROVE  bid.price < ask.price
        BY DEF NotCrossed
      <3>1. bid.price \in Nat /\ ask.price \in Nat /\ order.price \in Nat
        BY <2>4, <1>3, PricesAssumption DEF OrderIndex
      <3>2. CASE bid \in DOMAIN book /\ ask \in DOMAIN book
        BY <3>2 DEF IInv, NotCrossed
      <3>3. CASE bid = oix /\ ask \in DOMAIN book
        BY <3>1, <3>3, <2>9 DEF MakerSide, MeetsPrice
      <3>4. CASE ask = oix /\ bid \in DOMAIN book
        BY <3>1, <3>4, <2>9 DEF MakerSide, MeetsPrice
      <3>5. ~(bid = oix /\ ask = oix)
        OBVIOUS
      <3> QED
        BY <3>2, <3>3, <3>4, <3>5, <2>3
    <2> QED
      BY <2>4, <2>6, <2>8, <2>10, <1>6, <1>7, AnswerIInv
  <1> QED
    BY <1>8, <1>9

(* IInv is inductive.                                                      *)
LEMMA NextIInv == IInv /\ [Next]_vars => IInv'
  <1> SUFFICES ASSUME IInv, [Next]_vars PROVE IInv'
    OBVIOUS
  <1>1. CASE UNCHANGED vars
    <2> USE <1>1 DEF vars, locals, answered
    <2>1. Left' = Left
      BY DEF Left
    <2>2. TypeOK' /\ NotCrossed' /\ NoPanic' /\ MemoInv' /\ TodoInv' /\ BookInv'
      BY DEF IInv, TypeOK, NotCrossed, NoPanic, MemoInv, TodoInv, BookInv, Busy
    <2>3. FillsLive' /\ FillsAddUp' /\ RemInv' /\ OutcomeInv' /\ Covered'
      BY <2>1 DEF IInv, FillsLive, FillsAddUp, RemInv, OutcomeInv, Covered, Busy
    <2> QED
      BY <2>2, <2>3 DEF IInv
  <1>2. ASSUME NEW o \in PlaceOrder, Receive(o) PROVE IInv'
    BY <1>2, ReceiveIInv
  <1>3. ASSUME NEW oix \in todo, SkipMaker(oix) PROVE IInv'
    BY <1>3, SkipMakerIInv
  <1>4. ASSUME NEW oix \in todo, FillMaker(oix) PROVE IInv'
    BY <1>4, FillMakerIInv
  <1> QED
    BY <1>1, <1>2, <1>3, <1>4, EndScanIInv, EnforceTimeInForceIInv, ValidateIInv,
       CommitCompleteIInv, CommitPartialIInv, SettleIInv DEF Next, Step

(* Every state of the matching code satisfies IInv.                        *)
THEOREM MatchingInvariant == Spec => []IInv
  BY InitIInv, NextIInv, PTL DEF Spec

(* Type correctness of the matching code.                                  *)
THEOREM MatchingTypeOK == Spec => []TypeOK
  <1>1. IInv => TypeOK
    BY DEF IInv
  <1> QED
    BY <1>1, MatchingInvariant, PTL

(* However orders are placed, do_place_order never leaves, and never shows *)
(* on the way, a book whose best bid reaches its best ask.                 *)
THEOREM BookNeverCrossed == Spec => []NotCrossed
  <1>1. IInv => NotCrossed
    BY DEF IInv
  <1> QED
    BY <1>1, MatchingInvariant, PTL

(* No assert, expect or subtraction of try_fill_orders, PendingFill::commit *)
(* and do_place_order fires, and commit never returns InvalidOrderIndex.   *)
THEOREM MatchingNeverPanics == Spec => []NoPanic
  <1>1. IInv => NoPanic
    BY DEF IInv
  <1> QED
    BY <1>1, MatchingInvariant, PTL

(* An order answered with an error has changed neither the book nor any    *)
(* memo_seq since the previous answer.                                     *)
THEOREM RefusedOrderLeavesBook == Spec => ErrLeavesBook
  <1>1. IInv /\ [Next]_vars =>
          [pc # "idle" /\ pc' = "idle" /\ (\E r \in reply' : r.result.tag = "Err")
              => book' = book0 /\ memo_seq' = memo_seq0]_vars
    <2> SUFFICES ASSUME IInv, Next, pc # "idle", pc' = "idle",
                        \E r \in reply' : r.result.tag = "Err"
                 PROVE  book' = book0 /\ memo_seq' = memo_seq0
      OBVIOUS
    <2>1. CASE EnforceTimeInForce
      BY <2>1 DEF EnforceTimeInForce, IInv, BookInv
    <2>2. CASE Validate
      BY <2>2 DEF Validate, IInv, BookInv
    <2>3. CASE CommitComplete
      <3>1. pc' = pc
        BY <2>3, NextFill DEF CommitComplete, Quantity, MakerFill
      <3> QED
        BY <3>1
    <2>4. CASE CommitPartial
      <3>1. pc' = pc
        BY <2>4, NextFill DEF CommitPartial, Quantity, MakerFill
      <3> QED
        BY <3>1
    <2>5. CASE Settle
      BY <2>5 DEF Settle, Answer, Ok, Panic
    <2>6. CASE \/ \E oix \in todo : SkipMaker(oix) \/ FillMaker(oix)
               \/ EndScan
               \/ \E o \in PlaceOrder : Receive(o)
      BY <2>6 DEF SkipMaker, FillMaker, EndScan, Receive
    <2> QED
      BY <2>1, <2>2, <2>3, <2>4, <2>5, <2>6 DEF Next, Step
  <1> QED
    BY <1>1, MatchingInvariant, PTL DEF Spec, ErrLeavesBook
-----------------------------------------------------------------------------
(* Induction over the natural numbers, with a set for the property.        *)
LEMMA NatInd ==
  ASSUME NEW T, 0 \in T, \A n \in Nat : n \in T => n + 1 \in T
  PROVE  Nat \subseteq T
<1> DEFINE R == OpToRel(<, Nat)
           B == Nat \ T
<1>1. IsWellFoundedOn(R, Nat) BY NatLessThanWellFounded, Zenon
<1>2. \A x, y \in Nat : x < y => <<x, y>> \in R BY DEF OpToRel
<1> HIDE DEF R
<1>3. SUFFICES ASSUME B # {} PROVE FALSE OBVIOUS
<1>4. PICK x \in B : \A y \in B : ~(<<y, x>> \in R)
  <2>1. B \subseteq Nat OBVIOUS
  <2> HIDE DEF B
  <2> QED BY <1>1, <1>3, <2>1, WFMin
<1>5. x # 0 /\ x \in Nat OBVIOUS
<1>6. x - 1 \in Nat /\ x - 1 < x BY <1>5
<1>7. x - 1 \in T BY <1>2, <1>4, <1>5, <1>6
<1>8. (x - 1) + 1 = x BY <1>5
<1> QED BY <1>6, <1>7, <1>8

(* Sums over a finite set, as MapThenSumSet defines them: one element is   *)
(* chosen and added to the sum of the rest.                                *)
First(s) == CHOOSE x \in s : TRUE
Rest(s) == s \ {First(s)}
SumEq(g, S, f) == g = [s \in SUBSET S |-> IF s = {} THEN 0 ELSE f[First(s)] + g[Rest(s)]]

(* The rest of a set is smaller by one.                                    *)
LEMMA RestSmaller ==
  ASSUME NEW S, IsFiniteSet(S), NEW s \in SUBSET S, s # {}
  PROVE  /\ First(s) \in s /\ Rest(s) \in SUBSET S
         /\ Cardinality(s) \in Nat /\ Cardinality(Rest(s)) \in Nat
         /\ Cardinality(Rest(s)) + 1 = Cardinality(s)
<1>1. First(s) \in s BY DEF First
<1>2. IsFiniteSet(s) BY FS_Subset
<1>3. /\ IsFiniteSet(Rest(s)) /\ Cardinality(Rest(s)) = Cardinality(s) - 1
  BY <1>1, <1>2, FS_RemoveElement DEF Rest
<1>4. Cardinality(s) \in Nat /\ Cardinality(Rest(s)) \in Nat BY <1>2, <1>3, FS_CardinalityType
<1>5. Rest(s) \in SUBSET S BY DEF Rest
<1> QED BY <1>1, <1>3, <1>4, <1>5

(* What holds of the empty set, and of a set when it holds of its rest,    *)
(* holds of every subset.                                                  *)
LEMMA SubsetInd ==
  ASSUME NEW S, IsFiniteSet(S), NEW Q, {} \in Q,
         \A s \in SUBSET S : s # {} /\ Rest(s) \in Q => s \in Q
  PROVE  \A s \in SUBSET S : s \in Q
<1> DEFINE T == {n \in Nat : \A s \in SUBSET S : Cardinality(s) = n => s \in Q}
<1>1. 0 \in T
  <2>1. \A s \in SUBSET S : Cardinality(s) = 0 => s = {} BY FS_Subset, FS_EmptySet
  <2> QED BY <2>1
<1>2. ASSUME NEW n \in Nat, n \in T PROVE n + 1 \in T
  <2>1. ASSUME NEW s \in SUBSET S, Cardinality(s) = n + 1 PROVE s \in Q
    <3>1. s # {} BY <2>1, FS_EmptySet
    <3>2. Rest(s) \in SUBSET S /\ Cardinality(Rest(s)) \in Nat /\ Cardinality(Rest(s)) + 1 = n + 1
      BY <2>1, <3>1, RestSmaller
    <3>3. Cardinality(Rest(s)) = n BY <3>2
    <3>4. Rest(s) \in Q BY <1>2, <3>2, <3>3
    <3> QED BY <3>1, <3>4
  <2>2. n + 1 \in Nat OBVIOUS
  <2> QED BY <2>1, <2>2
<1> HIDE DEF T
<1>3. Nat \subseteq T BY <1>1, <1>2, NatInd
<1>4. ASSUME NEW s \in SUBSET S PROVE Cardinality(s) \in Nat BY FS_Subset, FS_CardinalityType
<1> QED BY <1>3, <1>4 DEF T

(* The sum of a finite set exists.                                         *)
LEMMA SumExists ==
  ASSUME NEW S, IsFiniteSet(S), NEW f
  PROVE  \E g : SumEq(g, S, f)
<1> DEFINE Small(n) == {s \in SUBSET S : Cardinality(s) <= n}
           Solves(g, n) == g = [s \in Small(n) |-> IF s = {} THEN 0 ELSE f[First(s)] + g[Rest(s)]]
           T == {n \in Nat : \E g : Solves(g, n)}
<1>0. ASSUME NEW s \in SUBSET S PROVE Cardinality(s) \in Nat /\ Cardinality(s) <= Cardinality(S)
  BY FS_Subset, FS_CardinalityType
<1>1. 0 \in T
  <2> DEFINE g == [s \in Small(0) |-> 0]
  <2>1. \A s \in Small(0) : s = {} BY <1>0, FS_Subset, FS_EmptySet
  <2>2. Solves(g, 0) BY <2>1
  <2> QED BY <2>2
<1>2. ASSUME NEW n \in Nat, n \in T PROVE n + 1 \in T
  <2>1. PICK g : Solves(g, n) BY <1>2
  <2> DEFINE h == [s \in Small(n + 1) |->
                      IF s \in Small(n) THEN g[s] ELSE f[First(s)] + g[Rest(s)]]
  <2>2. ASSUME NEW s \in Small(n + 1)
        PROVE  h[s] = IF s = {} THEN 0 ELSE f[First(s)] + h[Rest(s)]
    <3>1. CASE s = {}
      <4>1. s \in Small(n) BY <3>1, FS_EmptySet
      <4> QED BY <2>1, <3>1, <4>1
    <3>2. CASE s # {}
      <4>1. Rest(s) \in SUBSET S /\ Cardinality(Rest(s)) \in Nat /\ Cardinality(Rest(s)) + 1 = Cardinality(s)
        BY <3>2, RestSmaller
      <4>2. Rest(s) \in Small(n) /\ Rest(s) \in Small(n + 1) BY <4>1
      <4>3. h[Rest(s)] = g[Rest(s)] BY <4>2
      <4>4. h[s] = f[First(s)] + g[Rest(s)]
        <5>1. CASE s \in Small(n)
          <6>1. g[s] = f[First(s)] + g[Rest(s)] BY <2>1, <3>2, <5>1
          <6> QED BY <5>1, <6>1
        <5>2. CASE s \notin Small(n) BY <5>2
        <5> QED BY <5>1, <5>2
      <4> HIDE DEF h
      <4> QED BY <3>2, <4>3, <4>4
    <3> QED BY <3>1, <3>2
  <2>3. h = [s \in Small(n + 1) |-> h[s]] OBVIOUS
  <2> HIDE DEF h, Small
  <2>4. Solves(h, n + 1) BY <2>2, <2>3
  <2>5. n + 1 \in Nat OBVIOUS
  <2> HIDE DEF Solves
  <2> QED BY <2>4, <2>5, Zenon
<1>3. Cardinality(S) \in Nat BY FS_CardinalityType
<1>4. Cardinality(S) \in T
  <2> HIDE DEF T
  <2> QED BY <1>1, <1>2, <1>3, NatInd
<1>5. Small(Cardinality(S)) = SUBSET S BY <1>0
<1> HIDE DEF Small
<1>6. PICK g : Solves(g, Cardinality(S)) BY <1>4
<1>7. SumEq(g, S, f) BY <1>5, <1>6 DEF SumEq
<1> QED BY <1>7

(* The total of a book over a set of its orders, by this recursion.        *)
LEMMA TotalIsSum ==
  ASSUME NEW b, NEW S, IsFiniteSet(S)
  PROVE  \E g : SumEq(g, S, b) /\ TotalQuantity(b, S) = g[S]
<1> DEFINE Eq(g) == g = [s \in SUBSET S |-> IF s = {} THEN 0 ELSE b[First(s)] + g[s \ {First(s)}]]
           sum == CHOOSE g : Eq(g)
<1>1. PICK g : SumEq(g, S, b) BY SumExists
<1>2. \A k : SumEq(k, S, b) <=> Eq(k) BY DEF SumEq, Rest
<1>3. Eq(g) BY <1>1, <1>2
<1>4. Eq(sum)
  <2> HIDE DEF Eq
  <2> QED BY <1>3
<1>5. TotalQuantity(b, S) = sum[S] BY DEF TotalQuantity, MapThenSumSet, MapThenFoldSet, First
<1> QED BY <1>2, <1>4, <1>5

(* The total of no orders, and of one order more.                          *)
LEMMA TotalEquation ==
  ASSUME NEW b, NEW S, IsFiniteSet(S)
  PROVE  /\ TotalQuantity(b, {}) = 0
         /\ S # {} => TotalQuantity(b, S) = b[First(S)] + TotalQuantity(b, Rest(S))
<1>1. TotalQuantity(b, {}) = 0
  <2>1. PICK g : SumEq(g, {}, b) /\ TotalQuantity(b, {}) = g[{}] BY FS_EmptySet, TotalIsSum
  <2>2. g[{}] = 0 BY <2>1 DEF SumEq
  <2> QED BY <2>1, <2>2
<1>2. ASSUME S # {} PROVE TotalQuantity(b, S) = b[First(S)] + TotalQuantity(b, Rest(S))
  <2> DEFINE R == Rest(S)
  <2>1. R \in SUBSET S BY DEF Rest
  <2>2. IsFiniteSet(R) BY <2>1, FS_Subset
  <2> HIDE DEF R
  <2>3. PICK g : SumEq(g, S, b) /\ TotalQuantity(b, S) = g[S] BY TotalIsSum
  <2>4. PICK h : SumEq(h, R, b) /\ TotalQuantity(b, R) = h[R] BY <2>2, TotalIsSum
  <2>5. g[S] = b[First(S)] + g[R] BY <1>2, <2>3 DEF SumEq, R
  <2> DEFINE Q == {s \in SUBSET R : g[s] = h[s]}
  <2>6. {} \in Q BY <2>3, <2>4 DEF SumEq
  <2>7. ASSUME NEW s \in SUBSET R, s # {}, Rest(s) \in Q PROVE s \in Q
    <3>1. g[s] = b[First(s)] + g[Rest(s)] /\ h[s] = b[First(s)] + h[Rest(s)]
      BY <2>1, <2>3, <2>4, <2>7 DEF SumEq
    <3> QED BY <2>7, <3>1
  <2>8. R \in Q
    <3> HIDE DEF Q
    <3> QED BY <2>2, <2>6, <2>7, SubsetInd
  <2> QED BY <2>3, <2>4, <2>5, <2>8 DEF R
<1> QED BY <1>1, <1>2

(* Totals of quantities are numbers, and depend on nothing else.           *)
LEMMA TotalType ==
  ASSUME NEW b, NEW S, IsFiniteSet(S), \A o \in S : b[o] \in Nat
  PROVE  TotalQuantity(b, S) \in Nat
<1> DEFINE Q == {s \in SUBSET S : TotalQuantity(b, s) \in Nat}
<1>0. TotalQuantity(b, {}) = 0 BY TotalEquation
<1>1. {} \in Q BY <1>0
<1>2. ASSUME NEW s \in SUBSET S, s # {}, Rest(s) \in Q PROVE s \in Q
  <2>1. IsFiniteSet(s) BY FS_Subset
  <2>2. TotalQuantity(b, s) = b[First(s)] + TotalQuantity(b, Rest(s)) BY <1>2, <2>1, TotalEquation
  <2>3. b[First(s)] \in Nat BY <1>2, RestSmaller
  <2> QED BY <1>2, <2>2, <2>3
<1>3. S \in Q
  <2> HIDE DEF Q
  <2> QED BY <1>1, <1>2, SubsetInd
<1> QED BY <1>3

(* Books that agree on a set of orders have the same total over it.        *)
LEMMA TotalSame ==
  ASSUME NEW b, NEW c, NEW S, IsFiniteSet(S), \A o \in S : b[o] = c[o]
  PROVE  TotalQuantity(b, S) = TotalQuantity(c, S)
<1> DEFINE Q == {s \in SUBSET S : TotalQuantity(b, s) = TotalQuantity(c, s)}
<1>1. {} \in Q BY FS_EmptySet, TotalEquation
<1>2. ASSUME NEW s \in SUBSET S, s # {}, Rest(s) \in Q PROVE s \in Q
  <2>1. IsFiniteSet(s) BY FS_Subset
  <2>2. /\ TotalQuantity(b, s) = b[First(s)] + TotalQuantity(b, Rest(s))
        /\ TotalQuantity(c, s) = c[First(s)] + TotalQuantity(c, Rest(s))
    BY <1>2, <2>1, TotalEquation
  <2>3. b[First(s)] = c[First(s)] BY <1>2, RestSmaller
  <2> QED BY <1>2, <2>2, <2>3
<1>3. S \in Q
  <2> HIDE DEF Q
  <2> QED BY <1>1, <1>2, SubsetInd
<1> QED BY <1>3

(* Any element may be taken out first.                                     *)
LEMMA TotalRemove ==
  ASSUME NEW b, NEW S, IsFiniteSet(S), \A o \in S : b[o] \in Nat, NEW x \in S
  PROVE  TotalQuantity(b, S) = b[x] + TotalQuantity(b, S \ {x})
<1> DEFINE Swaps(s) == \A y \in s : TotalQuantity(b, s) = b[y] + TotalQuantity(b, s \ {y})
           T == {n \in Nat : \A s \in SUBSET S : Cardinality(s) = n => Swaps(s)}
<1>1. 0 \in T
  <2>1. \A s \in SUBSET S : Cardinality(s) = 0 => s = {} BY FS_Subset, FS_EmptySet
  <2> QED BY <2>1
<1>2. ASSUME NEW n \in Nat, n \in T PROVE n + 1 \in T
  <2>1. ASSUME NEW s \in SUBSET S, Cardinality(s) = n + 1, NEW y \in s
        PROVE  TotalQuantity(b, s) = b[y] + TotalQuantity(b, s \ {y})
    <3> DEFINE f == First(s)
               r == Rest(s)
               u == s \ {y}
               v == u \ {f}
    <3>1. IsFiniteSet(s) /\ s # {} BY FS_Subset
    <3>2. TotalQuantity(b, s) = b[f] + TotalQuantity(b, r) BY <3>1, TotalEquation
    <3>3. f \in s /\ r \in SUBSET S /\ Cardinality(r) \in Nat /\ Cardinality(r) + 1 = Cardinality(s)
      BY <3>1, RestSmaller
    <3>4. CASE y = f BY <3>2, <3>4 DEF Rest
    <3>5. CASE y # f
      <4>1. u \in SUBSET S /\ Cardinality(u) = n
        <5>1. Cardinality(u) = Cardinality(s) - 1 BY <3>1, FS_RemoveElement
        <5>2. Cardinality(u) = n BY <2>1, <5>1
        <5> QED BY <5>2
      <4>2. r \in SUBSET S /\ Cardinality(r) = n BY <2>1, <3>3
      <4>3. Swaps(u) /\ Swaps(r) BY <1>2, <4>1, <4>2
      <4>4. y \in r /\ f \in u BY <3>3, <3>5 DEF Rest
      <4>5. r \ {y} = v BY DEF Rest
      <4>6. TotalQuantity(b, r) = b[y] + TotalQuantity(b, v) BY <4>3, <4>4, <4>5
      <4>7. TotalQuantity(b, u) = b[f] + TotalQuantity(b, v) BY <4>3, <4>4
      <4>8. TotalQuantity(b, v) \in Nat
        <5>1. v \in SUBSET S OBVIOUS
        <5>2. IsFiniteSet(v) /\ \A o \in v : b[o] \in Nat BY <5>1, FS_Subset
        <5> HIDE DEF v
        <5> QED BY <5>2, TotalType
      <4>9. b[f] \in Nat /\ b[y] \in Nat BY <3>3
      <4> HIDE DEF f, r, u, v
      <4>10. TotalQuantity(b, s) = b[y] + TotalQuantity(b, u) BY <3>2, <4>6, <4>7, <4>8, <4>9
      <4> QED BY <4>10 DEF u
    <3> QED BY <3>4, <3>5
  <2>2. n + 1 \in Nat OBVIOUS
  <2> QED BY <2>1, <2>2
<1>3. Cardinality(S) \in Nat BY FS_CardinalityType
<1>4. Cardinality(S) \in T
  <2> HIDE DEF T
  <2> QED BY <1>1, <1>2, <1>3, NatInd
<1> QED BY <1>4

(* One order of a book is added, removed or changed: only the total of its *)
(* side moves, by that much.                                               *)
LEMMA SideMoves ==
  ASSUME NEW b, NEW c, IsFiniteSet(DOMAIN b), IsFiniteSet(DOMAIN c), NEW x,
         \A o \in DOMAIN b : b[o] \in Nat, \A o \in DOMAIN c : c[o] \in Nat,
         \A o : o # x => (o \in DOMAIN b <=> o \in DOMAIN c),
         \A o \in DOMAIN b : o # x => b[o] = c[o],
         NEW side
  PROVE  /\ SideTotal(b, side) \in Nat /\ SideTotal(c, side) \in Nat
         /\ side # x.side => SideTotal(c, side) = SideTotal(b, side)
         /\ side = x.side =>
              SideTotal(c, side) + (IF x \in DOMAIN b THEN b[x] ELSE 0)
                = SideTotal(b, side) + (IF x \in DOMAIN c THEN c[x] ELSE 0)
<1> DEFINE B == {o \in DOMAIN b : o.side = side}
           C == {o \in DOMAIN c : o.side = side}
           tb == TotalQuantity(b, B)
           tc == TotalQuantity(c, C)
<1>1. B \in SUBSET DOMAIN b /\ C \in SUBSET DOMAIN c OBVIOUS
<1>2. IsFiniteSet(B) /\ IsFiniteSet(C) BY <1>1, FS_Subset
<1>3. (\A o \in B : b[o] \in Nat) /\ (\A o \in C : c[o] \in Nat) BY <1>1
<1>4. tb \in Nat /\ tc \in Nat
  <2> HIDE DEF B, C
  <2> QED BY <1>2, <1>3, TotalType
<1>5. ASSUME side # x.side PROVE tc = tb
  <2>1. B = C /\ \A o \in B : b[o] = c[o] BY <1>5
  <2> HIDE DEF B, C
  <2> QED BY <1>2, <2>1, TotalSame
<1>6. ASSUME side = x.side
      PROVE  tc + (IF x \in DOMAIN b THEN b[x] ELSE 0) = tb + (IF x \in DOMAIN c THEN c[x] ELSE 0)
  <2> DEFINE D == B \ {x}
             t == TotalQuantity(b, D)
  <2>1. /\ D = C \ {x} /\ \A o \in D : b[o] = c[o]
        /\ x \in DOMAIN b <=> x \in B
        /\ x \in DOMAIN c <=> x \in C
    BY <1>6
  <2>2. IsFiniteSet(D) /\ \A o \in D : b[o] \in Nat
    <3>1. D \in SUBSET B OBVIOUS
    <3> HIDE DEF B, D
    <3> QED BY <1>2, <1>3, <3>1, FS_Subset
  <2> HIDE DEF B, C
  <2>3. TotalQuantity(c, C \ {x}) = t
    <3>1. C \ {x} = D BY <2>1
    <3> HIDE DEF D
    <3>2. TotalQuantity(c, D) = TotalQuantity(b, D) BY <2>1, <2>2, TotalSame
    <3> QED BY <3>1, <3>2
  <2>4. t \in Nat
    <3> HIDE DEF D
    <3> QED BY <2>2, TotalType
  <2>5. tb = t + (IF x \in DOMAIN b THEN b[x] ELSE 0)
    <3>1. CASE x \in B
      <4>1. tb = b[x] + t /\ b[x] \in Nat BY <1>2, <1>3, <3>1, TotalRemove
      <4> HIDE DEF tb, t
      <4> QED BY <2>1, <2>4, <3>1, <4>1
    <3>2. CASE x \notin B
      <4>1. D = B BY <3>2
      <4>2. tb = t BY <4>1
      <4> HIDE DEF tb, t
      <4> QED BY <2>1, <2>4, <3>2, <4>2
    <3> QED BY <3>1, <3>2
  <2>6. tc = t + (IF x \in DOMAIN c THEN c[x] ELSE 0)
    <3>1. CASE x \in C
      <4>1. tc = c[x] + t /\ c[x] \in Nat BY <1>2, <1>3, <2>3, <3>1, TotalRemove
      <4> HIDE DEF tc, t
      <4> QED BY <2>1, <2>4, <3>1, <4>1
    <3>2. CASE x \notin C
      <4>1. C \ {x} = C BY <3>2
      <4>2. tc = t BY <2>3, <4>1
      <4> HIDE DEF tc, t
      <4> QED BY <2>1, <2>4, <3>2, <4>2
    <3> QED BY <3>1, <3>2
  <2>7. (x \in DOMAIN b => b[x] \in Nat) /\ (x \in DOMAIN c => c[x] \in Nat) OBVIOUS
  <2> HIDE DEF t, tb, tc
  <2> QED BY <1>4, <2>4, <2>5, <2>6, <2>7
<1> QED BY <1>4, <1>5, <1>6 DEF SideTotal
-----------------------------------------------------------------------------
(* What the steps of commit do, once their asserts are out of the way.     *)
LEMMA CompleteStep ==
  ASSUME IInv, CommitComplete
  PROVE  LET gone == maker_fills[next].oix IN
           /\ pc = "commit" /\ next \in 1..Len(maker_fills) /\ Len(maker_fills) \in Nat
           /\ maker_fills[next].fill_type = "Complete" /\ maker_fills[next].quantity = book[gone]
           /\ gone \in DOMAIN book /\ gone.side = MakerSide(order.side)
           /\ book[gone] \in Quantity /\ rem \in Quantity /\ book[gone] <= rem
           /\ RemoveFromBook(gone) /\ rem' = rem - book[gone] /\ next' = next + 1
           /\ UNCHANGED <<pc, order, todo, outcome, maker_fills, rems, answered>>
<1> DEFINE fill == maker_fills[next]
<1>1. pc = "commit" /\ next \in DOMAIN maker_fills /\ fill.fill_type = "Complete"
  BY DEF CommitComplete
<1>2. /\ fill \in MakerFill /\ next \in 1..Len(maker_fills)
      /\ fill.oix \in DOMAIN book /\ fill.oix.side = MakerSide(order.side)
      /\ book[fill.oix] = fill.quantity /\ fill.quantity <= rem /\ rem \in Quantity
  BY <1>1, NextFill
<1>3. /\ fill.quantity \in Quantity
      /\ ~(book[fill.oix] # fill.quantity \/ rem < book[fill.oix])
  BY <1>2 DEF MakerFill, Quantity
<1>4. /\ RemoveFromBook(fill.oix) /\ rem' = rem - book[fill.oix] /\ next' = next + 1
      /\ UNCHANGED <<pc, order, todo, outcome, maker_fills, rems, answered>>
  BY <1>2, <1>3 DEF CommitComplete
<1>5. Len(maker_fills) \in Nat BY DEF IInv, TypeOK
<1> QED BY <1>1, <1>2, <1>3, <1>4, <1>5

(* A partially filled maker is the last one and keeps the rest.            *)
LEMMA PartialStep ==
  ASSUME IInv, CommitPartial
  PROVE  LET kept == maker_fills[next].oix IN
           /\ pc = "commit" /\ next = Len(maker_fills) /\ Len(maker_fills) \in Nat \ {0}
           /\ maker_fills[next].fill_type = "Partial" /\ maker_fills[next].quantity = book[kept]
           /\ kept \in DOMAIN book /\ kept.side = MakerSide(order.side)
           /\ book[kept] \in Quantity /\ rem \in Quantity /\ rem < book[kept] /\ rem = rems[next]
           /\ book' = [book EXCEPT ![kept] = @ - rem] /\ rem' = 0 /\ next' = next + 1
           /\ UNCHANGED <<memo_seq, pc, order, todo, outcome, maker_fills, rems, answered>>
<1> DEFINE fill == maker_fills[next]
<1>1. pc = "commit" /\ next \in DOMAIN maker_fills /\ fill.fill_type = "Partial"
  BY DEF CommitPartial
<1>2. /\ fill \in MakerFill /\ next \in 1..Len(maker_fills)
      /\ fill.oix \in DOMAIN book /\ fill.oix.side = MakerSide(order.side)
      /\ book[fill.oix] = fill.quantity
      /\ rem \in Quantity /\ rem < fill.quantity /\ rem = rems[next]
      /\ next = Len(maker_fills)
  BY <1>1, NextFill
<1>3. /\ fill.quantity \in Quantity
      /\ ~(book[fill.oix] # fill.quantity \/ rem >= book[fill.oix])
  BY <1>2 DEF MakerFill, Quantity
<1>4. /\ book' = [book EXCEPT ![fill.oix] = @ - rem] /\ rem' = 0 /\ next' = next + 1
      /\ UNCHANGED <<memo_seq, pc, order, todo, outcome, maker_fills, rems, answered>>
  BY <1>2, <1>3 DEF CommitPartial
<1>5. Len(maker_fills) \in Nat BY DEF IInv, TypeOK
<1>6. Len(maker_fills) \in Nat \ {0} BY <1>2, <1>5
<1> QED BY <1>1, <1>2, <1>3, <1>4, <1>6

(* Every maker is still in the book: validation never fails.               *)
LEMMA ValidateStep ==
  ASSUME IInv, Validate
  PROVE  pc' = "commit" /\ UNCHANGED answered
<1>1. pc = "validate" BY DEF Validate
<1>2. next = 1 BY <1>1 DEF IInv, RemInv
<1>3. \A i \in DOMAIN maker_fills : i >= next BY <1>2 DEF IInv, TypeOK
<1>4. \A i \in DOMAIN maker_fills : maker_fills[i].oix \in DOMAIN book
  BY <1>1, <1>3 DEF IInv, FillsLive, Busy
<1> QED BY <1>4 DEF Validate

(* The remainder, if it rests, gets an index of its own.                   *)
LEMMA SettleStep ==
  ASSUME IInv, Settle
  PROVE  LET oix == [side |-> order.side, price |-> order.price,
                     memo |-> memo_seq[order.side][order.price]]
             rests == rem > 0 /\ order.time_in_force # "ImmediateOrCancel"
         IN /\ pc = "commit" /\ next = Len(maker_fills) + 1 /\ Len(maker_fills) \in Nat
            /\ DOMAIN maker_fills = 1..Len(maker_fills)
            /\ order.side \in OrderSide /\ order.price \in Prices /\ order.quantity \in Quantity
            /\ rem = Left /\ rem \in Nat /\ rem <= order.quantity
            /\ book' = IF rests THEN WithOrder(book, oix, rem) ELSE book
            /\ memo_seq' = IF rests THEN [memo_seq EXCEPT ![order.side][order.price] = @ + 1]
                           ELSE memo_seq
            /\ Answer(Ok(order, IF rests THEN {oix} ELSE {}, outcome, rem))
            /\ oix \notin DOMAIN book
<1> DEFINE oix == [side |-> order.side, price |-> order.price,
                   memo |-> memo_seq[order.side][order.price]]
           rests == rem > 0 /\ order.time_in_force # "ImmediateOrCancel"
<1>1. pc = "commit" /\ next \notin DOMAIN maker_fills BY DEF Settle
<1>2. next = Len(maker_fills) + 1 /\ Len(maker_fills) \in Nat
      /\ DOMAIN maker_fills = 1..Len(maker_fills)
  BY <1>1 DEF IInv, TypeOK, RemInv
<1>3. order.quantity \in Quantity /\ order.side \in OrderSide /\ order.price \in Prices
  BY QuantitiesAssumption DEF IInv, TypeOK, PlaceOrder, Quantity
<1>4. rem = Left /\ rem \in Nat /\ rem <= order.quantity
  <2>1. rem = Left /\ rem \in Nat
    BY <1>1, <1>2 DEF IInv, TypeOK, RemInv
  <2>2. CASE maker_fills = <<>>
    BY <2>1, <2>2, <1>3 DEF Left, Quantity
  <2>3. CASE maker_fills # <<>>
    <3>1. Len(maker_fills) \in DOMAIN maker_fills
      BY <2>3, <1>2 DEF IInv, TypeOK
    <3>2. /\ maker_fills[Len(maker_fills)] \in MakerFill
          /\ rems[Len(maker_fills)] \in Quantity
          /\ rems[Len(maker_fills)] <= order.quantity
      BY <3>1, <1>2 DEF IInv, TypeOK, FillsAddUp
    <3> QED
      BY <2>1, <2>3, <3>2, <1>3 DEF Left, MakerFill, Quantity
  <2> QED
    BY <2>1, <2>2, <2>3
<1>5. OutcomeAgrees
  <2>1. outcome = IF rem = 0 THEN "Complete"
                  ELSE IF rem < order.quantity THEN "Partial" ELSE "None"
    BY <1>1, <1>4 DEF IInv, OutcomeInv, Busy
  <2> QED
    BY <2>1, <1>3, <1>4 DEF OutcomeAgrees, Quantity
<1>6. /\ book' = IF rests THEN WithOrder(book, oix, rem) ELSE book
      /\ memo_seq' = IF rests THEN [memo_seq EXCEPT ![order.side][order.price] = @ + 1]
                     ELSE memo_seq
      /\ Answer(Ok(order, IF rests THEN {oix} ELSE {}, outcome, rem))
  BY <1>3, <1>4, <1>5 DEF Settle, Quantity
<1>7. oix \notin DOMAIN book
  <2> SUFFICES ASSUME oix \in DOMAIN book PROVE FALSE OBVIOUS
  <2>1. oix.memo < memo_seq[oix.side][oix.price] BY DEF IInv, MemoInv
  <2>2. memo_seq[order.side][order.price] \in Int BY <1>3, MemoMaxAssumption DEF IInv, TypeOK, Memo
  <2> QED BY <2>1, <2>2
<1> QED BY <1>1, <1>2, <1>3, <1>4, <1>6, <1>7

(* The steps that are neither in commit nor an answer leave both books.    *)
LEMMA QuietStep ==
  ASSUME IInv, \/ \E oix \in todo : SkipMaker(oix) \/ FillMaker(oix)
               \/ EndScan
               \/ \E o \in PlaceOrder : Receive(o)
               \/ UNCHANGED vars
  PROVE  UNCHANGED <<book, memo_seq, book0, memo_seq0>> /\ (pc' = "commit" => UNCHANGED vars)
  BY DEF SkipMaker, FillMaker, EndScan, Receive, vars, answered

(* Quantity so far: what commit has taken from the makers is what the      *)
(* taker's counter has lost.                                               *)
QInv ==
    /\ IsFiniteSet(DOMAIN book)
    /\ pc = "commit" =>
          /\ SideTotal(book0, MakerSide(order.side))
                = SideTotal(book, MakerSide(order.side)) + (order.quantity - rem)
          /\ SideTotal(book0, order.side) = SideTotal(book, order.side)

(* A book that loses or changes one maker, or wins one order.              *)
LEMMA FiniteBook ==
  ASSUME IsFiniteSet(DOMAIN book), NEW x
  PROVE  IsFiniteSet(DOMAIN book \ {x}) /\ IsFiniteSet(DOMAIN book \union {x})
<1>1. IsFiniteSet(DOMAIN book \ {x}) BY FS_Subset
<1>2. IsFiniteSet(DOMAIN book \union {x}) BY FS_AddElement
<1> QED BY <1>1, <1>2

(* An empty book.                                                          *)
LEMMA InitQInv == Init => QInv
<1>1. DOMAIN EmptyBook = {} BY DEF EmptyBook
<1> QED BY <1>1, FS_EmptySet DEF Init, QInv

(* A maker leaves the book and its quantity the taker's counter.           *)
LEMMA CompleteQInv ==
  ASSUME IInv, IInv', QInv, CommitComplete
  PROVE  QInv'
<1> DEFINE gone == maker_fills[next].oix
           ms == MakerSide(order.side)
<1>1. /\ pc = "commit" /\ gone \in DOMAIN book /\ gone.side = ms
      /\ book[gone] \in Quantity /\ rem \in Quantity /\ rem' = rem - book[gone]
      /\ book' = [o \in DOMAIN book \ {gone} |-> book[o]]
      /\ UNCHANGED <<order, answered>>
  BY CompleteStep DEF RemoveFromBook
<1>2. IsFiniteSet(DOMAIN book) BY DEF QInv
<1>3. IsFiniteSet(DOMAIN book') BY <1>1, <1>2, FiniteBook
<1>4. /\ \A o \in DOMAIN book : book[o] \in Nat
      /\ \A o \in DOMAIN book' : book'[o] \in Nat
  BY DEF IInv, TypeOK, Quantity
<1>5. /\ \A o : o # gone => (o \in DOMAIN book <=> o \in DOMAIN book')
      /\ \A o \in DOMAIN book : o # gone => book[o] = book'[o]
      /\ gone \notin DOMAIN book'
  BY <1>1
<1>6. ms # order.side BY DEF IInv, TypeOK, PlaceOrder, OrderSide, MakerSide
<1> HIDE DEF gone, ms
<1>7. SideTotal(book, ms) \in Nat /\ SideTotal(book', ms) \in Nat
      /\ SideTotal(book', ms) + book[gone] = SideTotal(book, ms)
  BY <1>1, <1>2, <1>3, <1>4, <1>5, SideMoves
<1>8. SideTotal(book', order.side) = SideTotal(book, order.side)
  BY <1>1, <1>2, <1>3, <1>4, <1>5, <1>6, SideMoves
<1>9. order' = order /\ book0' = book0 BY <1>1 DEF answered
<1>10. /\ SideTotal(book0, ms) = SideTotal(book, ms) + (order.quantity - rem)
       /\ SideTotal(book0, order.side) = SideTotal(book, order.side)
  BY <1>1 DEF QInv, ms
<1>11. order.quantity \in Nat BY QuantitiesAssumption DEF IInv, TypeOK, PlaceOrder
<1>12. SideTotal(book0, ms) = SideTotal(book', ms) + (order.quantity - rem')
  BY <1>1, <1>7, <1>10, <1>11 DEF Quantity
<1> QED BY <1>3, <1>8, <1>9, <1>10, <1>12 DEF QInv, ms

(* A maker shrinks by what is left of the taker.                           *)
LEMMA PartialQInv ==
  ASSUME IInv, IInv', QInv, CommitPartial
  PROVE  QInv'
<1> DEFINE kept == maker_fills[next].oix
           ms == MakerSide(order.side)
<1>1. /\ pc = "commit" /\ kept \in DOMAIN book /\ kept.side = ms
      /\ book[kept] \in Quantity /\ rem \in Quantity /\ rem' = 0
      /\ book' = [book EXCEPT ![kept] = @ - rem]
      /\ UNCHANGED <<order, answered>>
  BY PartialStep
<1>2. IsFiniteSet(DOMAIN book) BY DEF QInv
<1>3. IsFiniteSet(DOMAIN book') BY <1>1, <1>2
<1>4. /\ \A o \in DOMAIN book : book[o] \in Nat
      /\ \A o \in DOMAIN book' : book'[o] \in Nat
  BY DEF IInv, TypeOK, Quantity
<1>5. /\ \A o : o # kept => (o \in DOMAIN book <=> o \in DOMAIN book')
      /\ \A o \in DOMAIN book : o # kept => book[o] = book'[o]
      /\ kept \in DOMAIN book' /\ book'[kept] = book[kept] - rem
  BY <1>1
<1>6. ms # order.side BY DEF IInv, TypeOK, PlaceOrder, OrderSide, MakerSide
<1> HIDE DEF kept, ms
<1>7. SideTotal(book, ms) \in Nat /\ SideTotal(book', ms) \in Nat
      /\ SideTotal(book', ms) + book[kept] = SideTotal(book, ms) + book'[kept]
  BY <1>1, <1>2, <1>3, <1>4, <1>5, SideMoves
<1>8. SideTotal(book', order.side) = SideTotal(book, order.side)
  BY <1>1, <1>2, <1>3, <1>4, <1>5, <1>6, SideMoves
<1>9. order' = order /\ book0' = book0 BY <1>1 DEF answered
<1>10. /\ SideTotal(book0, ms) = SideTotal(book, ms) + (order.quantity - rem)
       /\ SideTotal(book0, order.side) = SideTotal(book, order.side)
  BY <1>1 DEF QInv, ms
<1>11. order.quantity \in Nat BY QuantitiesAssumption DEF IInv, TypeOK, PlaceOrder
<1>12. SideTotal(book0, ms) = SideTotal(book', ms) + (order.quantity - rem')
  BY <1>1, <1>5, <1>7, <1>10, <1>11 DEF Quantity
<1> QED BY <1>3, <1>8, <1>9, <1>10, <1>12 DEF QInv, ms

(* The steps around commit: the table, validation and the remainder.       *)
LEMMA AnswerQInv ==
  ASSUME IInv, IInv', QInv, EnforceTimeInForce \/ Validate \/ Settle
  PROVE  QInv'
<1>1. CASE EnforceTimeInForce
  <2>1. pc' # "commit" /\ book' = book BY <1>1 DEF EnforceTimeInForce, Answer
  <2> QED BY <2>1 DEF QInv
<1>2. CASE Validate
  <2>1. book' = book /\ pc = "validate" BY <1>2 DEF Validate
  <2>2. CASE pc' = "commit"
    <3>1. order' = order /\ rem' = order.quantity /\ book0' = book0
      BY <1>2, <2>2 DEF Validate, Answer, answered
    <3>2. book = book0 BY <2>1 DEF IInv, BookInv
    <3>3. IsFiniteSet(DOMAIN book) /\ order.quantity \in Nat
      BY QuantitiesAssumption DEF QInv, IInv, TypeOK, PlaceOrder
    <3>4. \A o \in DOMAIN book : book[o] \in Nat BY DEF IInv, TypeOK, Quantity
    <3>5. SideTotal(book, MakerSide(order.side)) \in Nat
      BY <3>3, <3>4, SideMoves
    <3> QED BY <2>1, <3>1, <3>2, <3>3, <3>5 DEF QInv
  <2>3. CASE pc' # "commit" BY <2>1, <2>3 DEF QInv
  <2> QED BY <2>2, <2>3
<1>3. CASE Settle
  <2> DEFINE oix == [side |-> order.side, price |-> order.price,
                     memo |-> memo_seq[order.side][order.price]]
  <2>1. pc' = "idle" /\ (book' = WithOrder(book, oix, rem) \/ book' = book)
    BY <1>3, SettleStep DEF Answer
  <2> HIDE DEF oix
  <2>2. IsFiniteSet(DOMAIN book') BY <2>1, FiniteBook DEF QInv, WithOrder
  <2> QED BY <2>1, <2>2 DEF QInv
<1> QED BY <1>1, <1>2, <1>3

(* Every step keeps QInv.                                                  *)
LEMMA NextQInv == IInv /\ IInv' /\ QInv /\ [Next]_vars => QInv'
<1> SUFFICES ASSUME IInv, IInv', QInv, [Next]_vars PROVE QInv' OBVIOUS
<1>1. CASE \/ \E oix \in todo : SkipMaker(oix) \/ FillMaker(oix)
           \/ EndScan
           \/ \E o \in PlaceOrder : Receive(o)
           \/ UNCHANGED vars
  <2>1. /\ UNCHANGED <<book, memo_seq, book0, memo_seq0>>
        /\ (pc' = "commit" => UNCHANGED vars)
    BY <1>1, QuietStep
  <2> QED BY <2>1 DEF QInv, vars, locals
<1>2. CASE EnforceTimeInForce \/ Validate \/ Settle BY <1>2, AnswerQInv
<1>3. CASE CommitComplete BY <1>3, CompleteQInv
<1>4. CASE CommitPartial BY <1>4, PartialQInv
<1> QED BY <1>1, <1>2, <1>3, <1>4 DEF Next, Step

(* QInv in every state.                                                    *)
LEMMA QuantityInvariant == Spec => []QInv
<1>1. Init => QInv BY InitQInv
<1> QED BY <1>1, NextQInv, MatchingInvariant, PTL DEF Spec

(* The answer that settles an order moves the totals as it says.           *)
LEMMA SettleConserves ==
  ASSUME IInv, IInv', QInv, QInv', Settle
  PROVE  \A r \in reply' : r.result.tag = "Ok" =>
        /\ r.result.quantity_filled + r.result.quantity_remaining = r.order.quantity
        /\ SideTotal(book', MakerSide(order.side))
              = SideTotal(book0, MakerSide(order.side)) - r.result.quantity_filled
        /\ SideTotal(book', order.side) = SideTotal(book0, order.side)
              + (IF r.result.order_index = {} THEN 0 ELSE r.result.quantity_remaining)
<1> DEFINE oix == [side |-> order.side, price |-> order.price,
                   memo |-> memo_seq[order.side][order.price]]
           rests == rem > 0 /\ order.time_in_force # "ImmediateOrCancel"
           ms == MakerSide(order.side)
           s0 == SideTotal(book, order.side)
           s1 == SideTotal(book', order.side)
           m0 == SideTotal(book, ms)
           m1 == SideTotal(book', ms)
<1>1. /\ pc = "commit" /\ rem \in Nat /\ rem <= order.quantity /\ order.quantity \in Nat
      /\ book' = IF rests THEN WithOrder(book, oix, rem) ELSE book
      /\ reply' = {[order |-> order,
                    result |-> Ok(order, IF rests THEN {oix} ELSE {}, outcome, rem)]}
      /\ oix \notin DOMAIN book /\ oix.side = order.side
  BY SettleStep DEF Answer, Quantity
<1>2. /\ SideTotal(book0, ms) = m0 + (order.quantity - rem)
      /\ SideTotal(book0, order.side) = s0
      /\ IsFiniteSet(DOMAIN book) /\ IsFiniteSet(DOMAIN book')
  BY <1>1 DEF QInv
<1>3. ms # order.side BY DEF IInv, TypeOK, PlaceOrder, OrderSide, MakerSide
<1>4. /\ \A o \in DOMAIN book : book[o] \in Nat
      /\ \A o \in DOMAIN book' : book'[o] \in Nat
  BY DEF IInv, TypeOK, Quantity
<1>5. /\ \A o : o # oix => (o \in DOMAIN book <=> o \in DOMAIN book')
      /\ \A o \in DOMAIN book : o # oix => book[o] = book'[o]
  BY <1>1 DEF WithOrder
<1>6. IF rests THEN oix \in DOMAIN book' /\ book'[oix] = rem ELSE oix \notin DOMAIN book'
  BY <1>1 DEF WithOrder
<1>7. m0 \in Nat /\ m1 \in Nat /\ m1 = m0
  <2> HIDE DEF oix, ms, rests
  <2> QED BY <1>1, <1>2, <1>3, <1>4, <1>5, SideMoves
<1>8. s0 \in Nat /\ s1 \in Nat /\ s1 = s0 + (IF rests THEN rem ELSE 0)
  <2> HIDE DEF oix, ms, rests
  <2>1. /\ s0 \in Nat /\ s1 \in Nat
        /\ s1 + (IF oix \in DOMAIN book THEN book[oix] ELSE 0)
             = s0 + (IF oix \in DOMAIN book' THEN book'[oix] ELSE 0)
    BY <1>1, <1>2, <1>4, <1>5, SideMoves
  <2> QED BY <1>1, <1>6, <2>1
<1> DEFINE res == Ok(order, IF rests THEN {oix} ELSE {}, outcome, rem)
<1>9. /\ res.quantity_filled = order.quantity - rem /\ res.quantity_remaining = rem
      /\ (res.order_index = {}) <=> ~rests
  BY DEF Ok
<1>10. /\ res.quantity_filled + res.quantity_remaining = order.quantity
       /\ m1 = SideTotal(book0, ms) - res.quantity_filled
       /\ s1 = SideTotal(book0, order.side)
                 + (IF res.order_index = {} THEN 0 ELSE res.quantity_remaining)
  <2> HIDE DEF res, oix, ms, rests, m0, m1, s0, s1
  <2> QED BY <1>1, <1>2, <1>7, <1>8, <1>9
<1>11. \A r \in reply' : r.order = order /\ r.result = res BY <1>1
<1> HIDE DEF res, m1, s1, ms
<1>12. SUFFICES ASSUME NEW r \in reply'
       PROVE  /\ r.result.quantity_filled + r.result.quantity_remaining = r.order.quantity
              /\ m1 = SideTotal(book0, ms) - r.result.quantity_filled
              /\ s1 = SideTotal(book0, order.side)
                  + (IF r.result.order_index = {} THEN 0 ELSE r.result.quantity_remaining)
  BY DEF m1, s1, ms
<1> QED BY <1>10, <1>11

(* Quantity is neither made nor lost, for every set of quantities: what an *)
(* accepted order takes from the makers is the quantity_filled it answers, *)
(* and what its own side gains is the quantity_remaining that rests.       *)
THEOREM QuantityIsConserved == Spec => QuantityConserved
<1> DEFINE A == pc # "idle" /\ pc' = "idle" => \A r \in reply' : r.result.tag = "Ok" =>
        /\ r.result.quantity_filled + r.result.quantity_remaining = r.order.quantity
        /\ SideTotal(book', MakerSide(order.side))
              = SideTotal(book0, MakerSide(order.side)) - r.result.quantity_filled
        /\ SideTotal(book', order.side) = SideTotal(book0, order.side)
              + (IF r.result.order_index = {} THEN 0 ELSE r.result.quantity_remaining)
<1>1. IInv /\ IInv' /\ QInv /\ QInv' /\ [Next]_vars => [A]_vars
  <2> SUFFICES ASSUME IInv, IInv', QInv, QInv', Next, pc # "idle", pc' = "idle" PROVE A
    BY DEF vars
  <2>1. CASE Settle BY <2>1, SettleConserves
  <2>2. CASE EnforceTimeInForce
    <3>1. \A r \in reply' : r.result.tag = "Err" BY <2>2 DEF EnforceTimeInForce, Answer, Err
    <3> QED BY <3>1
  <2>3. CASE Validate
    <3>1. \A r \in reply' : r.result.tag = "Err" BY <2>3 DEF Validate, Answer, Err
    <3> QED BY <3>1
  <2>4. CASE CommitComplete
    <3>1. pc' = "commit" BY <2>4, CompleteStep
    <3> QED BY <3>1
  <2>5. CASE CommitPartial
    <3>1. pc' = "commit" BY <2>5, PartialStep
    <3> QED BY <3>1
  <2>6. CASE \E oix \in todo : SkipMaker(oix) \/ FillMaker(oix)
    BY <2>6 DEF SkipMaker, FillMaker
  <2>7. CASE EndScan BY <2>7 DEF EndScan
  <2>8. CASE \E o \in PlaceOrder : Receive(o) BY <2>8 DEF Receive
  <2> QED BY <2>1, <2>2, <2>3, <2>4, <2>5, <2>6, <2>7, <2>8 DEF Next, Step
<1> HIDE DEF A
<1>2. Spec => [][A]_vars BY <1>1, MatchingInvariant, QuantityInvariant, PTL DEF Spec
<1> QED BY <1>2 DEF QuantityConserved, A
-----------------------------------------------------------------------------
(* The loops implement the atomic place order.                             *)

(* More orders, no smaller total.                                          *)
LEMMA TotalGrows ==
  ASSUME NEW b, NEW T, IsFiniteSet(T), \A o \in T : b[o] \in Nat, NEW S \in SUBSET T
  PROVE  TotalQuantity(b, S) <= TotalQuantity(b, T)
<1> DEFINE D == T \ S
           Q == {d \in SUBSET D : TotalQuantity(b, S) <= TotalQuantity(b, S \union d)}
<1>0. \A d \in SUBSET D : /\ S \union d \in SUBSET T /\ IsFiniteSet(S \union d)
                          /\ \A o \in S \union d : b[o] \in Nat
  BY FS_Subset
<1>1. \A d \in SUBSET D : TotalQuantity(b, S \union d) \in Nat BY <1>0, TotalType
<1>2. {} \in Q
  <2>1. S \union {} = S /\ {} \in SUBSET D OBVIOUS
  <2>2. TotalQuantity(b, S) \in Nat BY <1>1, <2>1
  <2> QED BY <2>1, <2>2
<1>3. ASSUME NEW d \in SUBSET D, d # {}, Rest(d) \in Q PROVE d \in Q
  <2>1. First(d) \in d /\ Rest(d) \in SUBSET D BY <1>3 DEF First, Rest
  <2>2. (S \union d) \ {First(d)} = S \union Rest(d) BY <2>1 DEF Rest
  <2>3. TotalQuantity(b, S \union d) = b[First(d)] + TotalQuantity(b, S \union Rest(d))
    BY <1>0, <2>1, <2>2, TotalRemove
  <2>4. b[First(d)] \in Nat BY <2>1
  <2>5. /\ TotalQuantity(b, S \union d) \in Nat /\ TotalQuantity(b, S \union Rest(d)) \in Nat
        /\ TotalQuantity(b, S) \in Nat
    <3>1. S \union {} = S /\ {} \in SUBSET D OBVIOUS
    <3> QED BY <1>1, <2>1, <3>1
  <2>6. TotalQuantity(b, S) <= TotalQuantity(b, S \union Rest(d)) BY <1>3
  <2> QED BY <2>3, <2>4, <2>5, <2>6
<1>4. IsFiniteSet(D) BY FS_Subset
<1>5. D \in Q
  <2> HIDE DEF D, Q
  <2>1. \A d \in SUBSET D : d \in Q BY <1>2, <1>3, <1>4, SubsetInd
  <2> QED BY <2>1
<1>6. S \union D = T OBVIOUS
<1> QED BY <1>5, <1>6

(* The smaller of two numbers.                                             *)
LEMMA MinOfTwo ==
  ASSUME NEW m \in Int, NEW n \in Int
  PROVE  Min({m, n}) = IF m <= n THEN m ELSE n
<1> DEFINE P(x) == x \in {m, n} /\ \A y \in {m, n} : x <= y
<1>1. Min({m, n}) = CHOOSE x : P(x) BY DEF Min
<1>2. P(IF m <= n THEN m ELSE n) OBVIOUS
<1>3. P(Min({m, n}))
  <2> HIDE DEF P
  <2> QED BY <1>1, <1>2
<1>4. Min({m, n}) \in Int BY <1>3
<1> HIDE DEF P
<1>5. \A x \in Int : P(x) => x = IF m <= n THEN m ELSE n BY DEF P
<1> QED BY <1>3, <1>4, <1>5

(* Priority on one side of a book is a strict order.                       *)
LEMMA PrecedesStrict ==
  ASSUME NEW o \in OrderIndex, NEW r \in OrderIndex, o.side = r.side
  PROVE  ~(Precedes(o, r) /\ Precedes(r, o)) /\ ~Precedes(o, o)
<1>1. /\ o.side \in OrderSide /\ o.price \in Prices /\ r.price \in Prices
      /\ o.memo \in Memo /\ r.memo \in Memo
  BY DEF OrderIndex
<1>0. \A p \in Prices : p \in Int BY PricesAssumption
<1>2. o.price \in Int /\ r.price \in Int BY <1>0, <1>1
<1>3. o.memo \in Int /\ r.memo \in Int BY <1>1, MemoMaxAssumption DEF Memo
<1> QED BY <1>1, <1>2, <1>3 DEF Precedes, OrderSide

(* The abstract specification places orders with the same function.        *)
LEMMA SameTotal ==
  ASSUME NEW b, NEW S
  PROVE  Atomic!TotalQuantity(b, S) = TotalQuantity(b, S)
  BY DEF Atomic!TotalQuantity, TotalQuantity, Atomic!MapThenSumSet, MapThenSumSet,
         Atomic!MapThenFoldSet, MapThenFoldSet

(* Piece by piece, its do_place_order is the one of this module.           *)
LEMMA SameFunction ==
  ASSUME NEW b, NEW m, NEW o
  PROVE  Atomic!do_place_order(b, m, o) = do_place_order(b, m, o)
<1>1. Atomic!Eligible(b, o) = Eligible(b, o)
  BY DEF Atomic!Eligible, Eligible, Atomic!MakerSide, MakerSide, Atomic!MeetsPrice, MeetsPrice
<1>2. \A x, y : Atomic!Precedes(x, y) = Precedes(x, y) BY DEF Atomic!Precedes, Precedes
<1>3. \A S : Atomic!Min(S) = Min(S) BY DEF Atomic!Min, Min
<1>4. \A x : Atomic!Taken(b, o, x) = Taken(b, o, x)
  BY <1>1, <1>2, <1>3, SameTotal DEF Atomic!Taken, Taken
<1>5. Atomic!Filled(b, o) = Filled(b, o)
  BY <1>1, <1>3, SameTotal DEF Atomic!Filled, Filled
<1>6. Atomic!Outcome(b, o) = Outcome(b, o) BY <1>5 DEF Atomic!Outcome, Outcome
<1>7. \A x, y : Atomic!Refusal(x, y) = Refusal(x, y) BY DEF Atomic!Refusal, Refusal
<1>8. Atomic!Traded(b, o) = Traded(b, o) BY <1>4 DEF Atomic!Traded, Traded
<1>9. \A c : Atomic!ForgetEmpty(m, c) = ForgetEmpty(m, c)
  BY DEF Atomic!ForgetEmpty, ForgetEmpty, Atomic!OrderSide, OrderSide
<1>10. \A c, x, q : Atomic!WithOrder(c, x, q) = WithOrder(c, x, q)
  BY DEF Atomic!WithOrder, WithOrder
<1>11. \A e : Atomic!Err(e) = Err(e) BY DEF Atomic!Err, Err
<1>12. \A x, y, z : Atomic!Ok(o, x, y, z) = Ok(o, x, y, z) BY DEF Atomic!Ok, Ok
<1> DEFINE refusal == Refusal(Outcome(b, o), o.time_in_force)
           remaining == o.quantity - Filled(b, o)
           traded == Traded(b, o)
           memos == ForgetEmpty(m, traded)
           oix == [side |-> o.side, price |-> o.price, memo |-> memos[o.side][o.price]]
           rests == remaining > 0 /\ o.time_in_force # "ImmediateOrCancel"
           found == IF rests THEN {oix} ELSE {}
           error == Err(CHOOSE e \in refusal : TRUE)
           result == Ok(o, found, Outcome(b, o), remaining)
           grown == WithOrder(traded, oix, remaining)
           bumped == [memos EXCEPT ![o.side][o.price] = @ + 1]
           Arefusal == Atomic!Refusal(Atomic!Outcome(b, o), o.time_in_force)
           Aremaining == o.quantity - Atomic!Filled(b, o)
           Atraded == Atomic!Traded(b, o)
           Amemos == Atomic!ForgetEmpty(m, Atraded)
           Aoix == [side |-> o.side, price |-> o.price, memo |-> Amemos[o.side][o.price]]
           Arests == Aremaining > 0 /\ o.time_in_force # "ImmediateOrCancel"
           Afound == IF Arests THEN {Aoix} ELSE {}
           Aerror == Atomic!Err(CHOOSE e \in Arefusal : TRUE)
           Aresult == Atomic!Ok(o, Afound, Atomic!Outcome(b, o), Aremaining)
           Agrown == Atomic!WithOrder(Atraded, Aoix, Aremaining)
           Abumped == [Amemos EXCEPT ![o.side][o.price] = @ + 1]
<1>13. do_place_order(b, m, o) =
         IF refusal # {} THEN [book |-> b, memo_seq |-> m, result |-> error]
         ELSE [book |-> IF rests THEN grown ELSE traded,
               memo_seq |-> IF rests THEN bumped ELSE memos, result |-> result]
  BY DEF do_place_order
<1>14. Atomic!do_place_order(b, m, o) =
         IF Arefusal # {} THEN [book |-> b, memo_seq |-> m, result |-> Aerror]
         ELSE [book |-> IF Arests THEN Agrown ELSE Atraded,
               memo_seq |-> IF Arests THEN Abumped ELSE Amemos, result |-> Aresult]
  BY DEF Atomic!do_place_order
<1>15. Arefusal = refusal /\ Aremaining = remaining /\ Atraded = traded
  BY <1>5, <1>6, <1>7, <1>8
<1>16. Amemos = memos BY <1>9, <1>15
<1>17. Aoix = oix /\ (Arests <=> rests) /\ Afound = found BY <1>15, <1>16
<1>18. Aerror = error
  <2> HIDE DEF Arefusal, refusal
  <2> QED BY <1>11, <1>15
<1>19. Aresult = result
  <2> HIDE DEF Afound, found, Aremaining, remaining
  <2> QED BY <1>6, <1>12, <1>15, <1>17
<1>20. Agrown = grown
  <2> HIDE DEF Atraded, traded, Aoix, oix, Aremaining, remaining
  <2> QED BY <1>10, <1>15, <1>17
<1>21. Abumped = bumped
  <2> HIDE DEF Amemos, memos
  <2> QED BY <1>16
<1> HIDE DEF refusal, traded, memos, rests, error, result, grown, bumped,
             Arefusal, Atraded, Amemos, Arests, Aerror, Aresult, Agrown, Abumped
<1> QED BY <1>13, <1>14, <1>15, <1>16, <1>17, <1>18, <1>19, <1>20, <1>21
-----------------------------------------------------------------------------
(* What relates the loops to the function.                                 *)

(* The makers of the first n fills; the eligible makers ahead of o; the    *)
(* fills commit has applied.                                               *)
Fills(n) == {maker_fills[i].oix : i \in 1..n}
Ahead(o) == {r \in Eligible(book0, order) : Precedes(r, o)}
Applied(i) == pc = "commit" /\ i < next

(* The book that the order in hand found.                                  *)
FoundInv ==
    /\ IsFiniteSet(DOMAIN book0)
    /\ DOMAIN book0 \subseteq OrderIndex
    /\ \A o \in DOMAIN book0 : book0[o] \in Quantity

(* The levels of the book keep their memo_seq since the last answer, and a *)
(* level without orders has none.                                          *)
LevelsInv == memo_seq = ForgetEmpty(memo_seq0, book)

(* The fills are the eligible makers in price-time order, each with what   *)
(* the ones ahead of it leave of the taker.                                *)
PriorityInv ==
    \A i \in DOMAIN maker_fills :
        /\ maker_fills[i].oix \in Eligible(book0, order)
        /\ book0[maker_fills[i].oix] = maker_fills[i].quantity
        /\ Ahead(maker_fills[i].oix) = Fills(i - 1)
        /\ TotalQuantity(book0, Fills(i - 1)) = order.quantity - rems[i]

(* An eligible maker has its fill, or comes after all the fills and is     *)
(* still ahead of the iterator, unless the taker is filled.                *)
ScanInv ==
    Busy => \A o \in Eligible(book0, order) :
        \/ \E i \in DOMAIN maker_fills : maker_fills[i].oix = o
        \/ /\ o \in todo \/ Left = 0
           /\ \A i \in DOMAIN maker_fills : Precedes(maker_fills[i].oix, o)

(* The book is the one the order found, with the applied fills taken out.  *)
AppliedInv ==
    /\ book = [o \in DOMAIN book |-> book[o]]
    /\ Busy =>
        /\ DOMAIN book \subseteq DOMAIN book0
        /\ \A o \in DOMAIN book0 :
              o \in DOMAIN book <=>
                 \A i \in DOMAIN maker_fills :
                    Applied(i) /\ maker_fills[i].oix = o => maker_fills[i].fill_type = "Partial"
        /\ \A o \in DOMAIN book :
              /\ \A i \in DOMAIN maker_fills :
                    Applied(i) /\ maker_fills[i].oix = o => book[o] = book0[o] - rems[i]
              /\ (\A i \in DOMAIN maker_fills : Applied(i) => maker_fills[i].oix # o)
                    => book[o] = book0[o]

(* Past the time-in-force table the outcome is one it accepts.             *)
Accepted == pc \in {"validate", "commit"} => Refusal(outcome, order.time_in_force) = {}

(* The inductive invariant of the refinement.                              *)
RInv == FoundInv /\ LevelsInv /\ PriorityInv /\ ScanInv /\ AppliedInv /\ Accepted

(* What the types say about the fills.                                     *)
LEMMA FillFacts ==
  ASSUME IInv
  PROVE  /\ Len(maker_fills) \in Nat /\ DOMAIN maker_fills = 1..Len(maker_fills)
         /\ maker_fills = <<>> <=> Len(maker_fills) = 0
         /\ order.quantity \in Nat \ {0}
         /\ \A i \in DOMAIN maker_fills :
               /\ i \in Nat /\ rems[i] \in Nat \ {0} /\ rems[i] <= order.quantity
               /\ maker_fills[i].oix \in OrderIndex /\ maker_fills[i].quantity \in Nat \ {0}
<1>1. Len(maker_fills) \in Nat /\ DOMAIN maker_fills = 1..Len(maker_fills)
  BY DEF IInv, TypeOK
<1>2. maker_fills = <<>> <=> Len(maker_fills) = 0 BY DEF IInv, TypeOK
<1>3. order.quantity \in Nat \ {0} BY QuantitiesAssumption DEF IInv, TypeOK, PlaceOrder
<1>4. ASSUME NEW i \in DOMAIN maker_fills
      PROVE  /\ i \in Nat /\ rems[i] \in Nat \ {0} /\ rems[i] <= order.quantity
             /\ maker_fills[i].oix \in OrderIndex /\ maker_fills[i].quantity \in Nat \ {0}
  <2>1. i \in Nat /\ i \in 1..Len(rems) /\ rems[i] <= order.quantity
    BY <1>1 DEF IInv, FillsAddUp
  <2>2. rems[i] \in Quantity /\ maker_fills[i] \in MakerFill BY <2>1 DEF IInv, TypeOK
  <2> QED BY <2>1, <2>2 DEF MakerFill, Quantity
<1> QED BY <1>1, <1>2, <1>3, <1>4

(* The quantity of the makers filled so far is what the taker has lost, or *)
(* covers all of it.                                                       *)
LEMMA FillsTotal ==
  ASSUME IInv, RInv
  PROVE  LET F == Fills(Len(maker_fills)) IN
           /\ F \subseteq Eligible(book0, order) /\ IsFiniteSet(F)
           /\ TotalQuantity(book0, F) \in Nat
           /\ Left \in Nat /\ Left <= order.quantity
           /\ Left > 0 => TotalQuantity(book0, F) = order.quantity - Left
           /\ Left = 0 => TotalQuantity(book0, F) >= order.quantity
<1> DEFINE n == Len(maker_fills)
           E == Eligible(book0, order)
           F == Fills(n)
           T(S) == TotalQuantity(book0, S)
<1>1. n \in Nat /\ DOMAIN maker_fills = 1..n /\ order.quantity \in Nat \ {0}
  BY FillFacts
<1>2. /\ F \subseteq E /\ E \subseteq DOMAIN book0
  BY <1>1 DEF Fills, RInv, PriorityInv, Eligible
<1>3. IsFiniteSet(F) /\ \A o \in F : book0[o] \in Nat
  <2>1. F \subseteq DOMAIN book0 BY <1>2
  <2> HIDE DEF F
  <2> QED BY <2>1, FS_Subset DEF RInv, FoundInv, Quantity
<1>4. T(F) \in Nat
  <2> HIDE DEF F
  <2> QED BY <1>3, TotalType
<1>5. CASE maker_fills = <<>>
  <2>1. F = {} BY <1>1, <1>5 DEF Fills
  <2>2. T(F) = 0 BY <2>1, FS_EmptySet, TotalEquation
  <2>3. Left = order.quantity BY <1>5 DEF Left
  <2> QED BY <1>1, <1>2, <1>3, <1>4, <2>2, <2>3
<1>6. CASE maker_fills # <<>>
  <2> DEFINE x == maker_fills[n].oix
             G == Fills(n - 1)
  <2>1. n \in 1..n /\ n \in DOMAIN maker_fills /\ n # 0 BY <1>1, <1>6, FillFacts
  <2>2. /\ rems[n] \in Nat \ {0} /\ rems[n] <= order.quantity
        /\ maker_fills[n].quantity \in Nat \ {0}
    BY <2>1, FillFacts
  <2>3. /\ x \in E /\ book0[x] = maker_fills[n].quantity
        /\ Ahead(x) = G /\ T(G) = order.quantity - rems[n]
    BY <2>1 DEF RInv, PriorityInv
  <2>4. x \notin G
    <3>1. x \in OrderIndex BY <1>2, <2>3 DEF RInv, FoundInv
    <3>2. ~Precedes(x, x) BY <3>1, PrecedesStrict
    <3> QED BY <2>3, <3>2 DEF Ahead
  <2>5. F \ {x} = G /\ x \in F
    <3>1. F = G \union {x} BY <1>1, <2>1 DEF Fills
    <3> HIDE DEF F, G
    <3> QED BY <3>1, <2>4
  <2>6. T(F) = book0[x] + T(G)
    <3> HIDE DEF F, G, x
    <3>1. T(F) = book0[x] + T(F \ {x}) BY <1>3, <2>5, TotalRemove
    <3> QED BY <3>1, <2>5
  <2>7. Left = IF maker_fills[n].fill_type = "Complete" THEN rems[n] - maker_fills[n].quantity
               ELSE 0
    BY <1>6 DEF Left
  <2>8. /\ maker_fills[n].fill_type = "Complete" => maker_fills[n].quantity <= rems[n]
        /\ maker_fills[n].fill_type # "Complete" => rems[n] < maker_fills[n].quantity
    BY <2>1 DEF IInv, FillsAddUp
  <2>9. /\ Left \in Nat /\ Left <= order.quantity
        /\ Left > 0 => T(F) = order.quantity - Left
        /\ Left = 0 => T(F) >= order.quantity
    <3> DEFINE tF == T(F)
               tG == T(G)
               q == maker_fills[n].quantity
               left == rems[n]
    <3>1. /\ tF \in Nat /\ tG = order.quantity - left /\ tF = q + tG
          /\ left \in Nat \ {0} /\ left <= order.quantity /\ q \in Nat \ {0}
      BY <1>4, <2>2, <2>3, <2>6
    <3> HIDE DEF tF, tG, q, left
    <3>2. CASE maker_fills[n].fill_type = "Complete"
      <4>1. Left = left - q /\ q <= left BY <2>7, <2>8, <3>2 DEF q, left
      <4>2. /\ Left \in Nat /\ Left <= order.quantity
            /\ Left > 0 => tF = order.quantity - Left
            /\ Left = 0 => tF >= order.quantity
        BY <1>1, <3>1, <4>1
      <4> QED BY <4>2 DEF tF
    <3>3. CASE maker_fills[n].fill_type # "Complete"
      <4>1. Left = 0 /\ left < q BY <2>7, <2>8, <3>3 DEF q, left
      <4>2. /\ Left \in Nat /\ Left <= order.quantity
            /\ ~(Left > 0) /\ tF >= order.quantity
        BY <1>1, <3>1, <4>1
      <4> QED BY <4>2 DEF tF
    <3> QED BY <3>2, <3>3
  <2> QED BY <1>2, <1>3, <1>4, <2>9
<1> QED BY <1>5, <1>6

(* When the scan is over it has found what the function says.              *)
LEMMA ScanFinds ==
  ASSUME IInv, RInv, Busy, todo = {}
  PROVE  /\ Filled(book0, order) = order.quantity - Left
         /\ Outcome(book0, order) = outcome
         /\ Left \in Nat /\ Left <= order.quantity /\ order.quantity \in Nat \ {0}
<1> DEFINE E == Eligible(book0, order)
           F == Fills(Len(maker_fills))
           tE == TotalQuantity(book0, E)
           tF == TotalQuantity(book0, F)
<1>1. /\ F \subseteq E /\ tF \in Nat /\ Left \in Nat /\ Left <= order.quantity
      /\ Left > 0 => tF = order.quantity - Left
      /\ Left = 0 => tF >= order.quantity
  BY FillsTotal
<1>2. order.quantity \in Nat \ {0} BY FillFacts
<1>3. IsFiniteSet(E) /\ \A o \in E : book0[o] \in Nat
  <2>1. E \subseteq DOMAIN book0 BY DEF Eligible
  <2> HIDE DEF E
  <2> QED BY <2>1, FS_Subset DEF RInv, FoundInv, Quantity
<1>4. tE \in Nat /\ tF <= tE
  <2> HIDE DEF E, F
  <2> QED BY <1>1, <1>3, TotalType, TotalGrows
<1>5. ASSUME Left # 0 PROVE E = F
  <2>1. \A o \in E : \E i \in DOMAIN maker_fills : maker_fills[i].oix = o
    BY <1>5 DEF RInv, ScanInv
  <2>2. E \subseteq F BY <2>1, FillFacts DEF Fills
  <2> QED BY <1>1, <2>2
<1>6. Filled(book0, order) = IF order.quantity <= tE THEN order.quantity ELSE tE
  BY <1>2, <1>4, MinOfTwo DEF Filled
<1>7. Filled(book0, order) = order.quantity - Left
  <2>1. CASE Left = 0
    <3> HIDE DEF tE, tF
    <3> QED BY <1>1, <1>2, <1>4, <1>6, <2>1
  <2>2. CASE Left # 0
    <3>1. tE = tF BY <1>5, <2>2
    <3> HIDE DEF tE, tF
    <3> QED BY <1>1, <1>2, <1>4, <1>6, <2>2, <3>1
  <2> QED BY <2>1, <2>2
<1>8. outcome = IF Left = 0 THEN "Complete"
                ELSE IF Left < order.quantity THEN "Partial" ELSE "None"
  BY DEF IInv, OutcomeInv
<1>9. Outcome(book0, order) = outcome
  BY <1>1, <1>2, <1>7, <1>8 DEF Outcome
<1> QED BY <1>1, <1>2, <1>7, <1>9

(* The fill of a maker takes from it what the function says.               *)
LEMMA FillTakes ==
  ASSUME IInv, RInv, NEW i \in DOMAIN maker_fills
  PROVE  LET o == maker_fills[i].oix IN
           /\ o \in DOMAIN book0 /\ book0[o] = maker_fills[i].quantity
           /\ Taken(book0, order, o)
                = IF maker_fills[i].fill_type = "Complete" THEN book0[o] ELSE rems[i]
           /\ maker_fills[i].fill_type # "Complete" => rems[i] < book0[o]
<1> DEFINE o == maker_fills[i].oix
           t == TotalQuantity(book0, Ahead(o))
<1>1. /\ rems[i] \in Nat \ {0} /\ rems[i] <= order.quantity /\ order.quantity \in Nat \ {0}
      /\ maker_fills[i].quantity \in Nat \ {0}
  BY FillFacts
<1>2. /\ o \in Eligible(book0, order) /\ book0[o] = maker_fills[i].quantity
      /\ t = order.quantity - rems[i]
  BY DEF RInv, PriorityInv
<1>3. o \in DOMAIN book0 BY <1>2 DEF Eligible
<1>4. /\ maker_fills[i].fill_type = "Complete" => maker_fills[i].quantity <= rems[i]
      /\ maker_fills[i].fill_type # "Complete" => rems[i] < maker_fills[i].quantity
  BY DEF IInv, FillsAddUp
<1>5. Taken(book0, order, o) = IF t < order.quantity THEN Min({book0[o], order.quantity - t}) ELSE 0
  BY <1>2 DEF Taken, Ahead
<1>6. t < order.quantity /\ order.quantity - t = rems[i] /\ book0[o] \in Int /\ rems[i] \in Int
  <2> HIDE DEF t
  <2> QED BY <1>1, <1>2
<1>7. Taken(book0, order, o) = Min({book0[o], rems[i]}) BY <1>5, <1>6
<1>8. Min({book0[o], rems[i]}) = IF book0[o] <= rems[i] THEN book0[o] ELSE rems[i]
  BY <1>6, MinOfTwo
<1> HIDE DEF o
<1>9. IF maker_fills[i].fill_type = "Complete" THEN book0[o] <= rems[i]
      ELSE rems[i] < book0[o] /\ ~(book0[o] <= rems[i])
  BY <1>1, <1>2, <1>4
<1> QED BY <1>2, <1>3, <1>7, <1>8, <1>9 DEF o

(* A maker without a fill is not touched.                                  *)
LEMMA NoFillTakesNothing ==
  ASSUME IInv, RInv, Busy, todo = {}, NEW o \in DOMAIN book0,
         \A i \in DOMAIN maker_fills : maker_fills[i].oix # o
  PROVE  Taken(book0, order, o) = 0
<1> DEFINE E == Eligible(book0, order)
           F == Fills(Len(maker_fills))
           A == Ahead(o)
           tA == TotalQuantity(book0, A)
           tF == TotalQuantity(book0, F)
<1>1. Taken(book0, order, o)
        = IF o \in E /\ tA < order.quantity THEN Min({book0[o], order.quantity - tA}) ELSE 0
  BY DEF Taken, Ahead
<1>2. CASE o \in E
  <2>1. Left = 0 /\ \A i \in DOMAIN maker_fills : Precedes(maker_fills[i].oix, o)
    BY <1>2 DEF RInv, ScanInv
  <2>2. F \subseteq E /\ tF \in Nat /\ tF >= order.quantity BY <2>1, FillsTotal
  <2>3. F \subseteq A BY <2>1, <2>2, FillFacts DEF Fills, Ahead
  <2>4. IsFiniteSet(A) /\ \A r \in A : book0[r] \in Nat
    <3>1. A \subseteq DOMAIN book0 BY DEF Ahead, Eligible
    <3> HIDE DEF A
    <3> QED BY <3>1, FS_Subset DEF RInv, FoundInv, Quantity
  <2>5. tA \in Nat /\ tF <= tA
    <3> HIDE DEF A, F
    <3> QED BY <2>3, <2>4, TotalType, TotalGrows
  <2>6. order.quantity \in Nat BY FillFacts
  <2>7. ~(tA < order.quantity)
    <3> HIDE DEF tA, tF
    <3> QED BY <2>2, <2>5, <2>6
  <2> QED BY <1>1, <2>7
<1> QED BY <1>1, <1>2

(* After the last fill the book is the one the function leaves.            *)
LEMMA CommitTrades ==
  ASSUME IInv, RInv, pc = "commit", next = Len(maker_fills) + 1
  PROVE  Traded(book0, order) = book
<1> DEFINE K == {o \in DOMAIN book0 : Taken(book0, order, o) < book0[o]}
<1>1. Busy /\ todo = {} BY DEF Busy, IInv, TodoInv
<1>2. \A i \in DOMAIN maker_fills : Applied(i) BY FillFacts DEF Applied
<1>3. \A o \in DOMAIN book0 : book0[o] \in Nat \ {0} BY DEF RInv, FoundInv, Quantity
<1>4. DOMAIN book \subseteq DOMAIN book0 BY <1>1 DEF RInv, AppliedInv
<1>5. ASSUME NEW o \in DOMAIN book0
      PROVE  /\ o \in DOMAIN book <=> Taken(book0, order, o) < book0[o]
             /\ o \in DOMAIN book => book[o] = book0[o] - Taken(book0, order, o)
  <2>1. CASE \E i \in DOMAIN maker_fills : maker_fills[i].oix = o
    <3>1. PICK i \in DOMAIN maker_fills : maker_fills[i].oix = o BY <2>1
    <3>2. /\ Taken(book0, order, o)
               = IF maker_fills[i].fill_type = "Complete" THEN book0[o] ELSE rems[i]
          /\ maker_fills[i].fill_type # "Complete" => rems[i] < book0[o]
      BY <3>1, FillTakes
    <3>3. CASE maker_fills[i].fill_type = "Complete"
      <4>1. o \notin DOMAIN book BY <1>1, <1>2, <3>1, <3>3 DEF RInv, AppliedInv
      <4>2. ~(book0[o] < book0[o]) BY <1>3
      <4> QED BY <3>2, <3>3, <4>1, <4>2
    <3>4. CASE maker_fills[i].fill_type # "Complete"
      <4>1. \A j \in DOMAIN maker_fills : maker_fills[j].oix = o => maker_fills[j].fill_type = "Partial"
        <5> SUFFICES ASSUME NEW j \in DOMAIN maker_fills, maker_fills[j].oix = o
                     PROVE  maker_fills[j].fill_type = "Partial"
          OBVIOUS
        <5>1. /\ Taken(book0, order, o)
                   = IF maker_fills[j].fill_type = "Complete" THEN book0[o] ELSE rems[j]
          BY FillTakes
        <5>2. maker_fills[j].fill_type # "Complete"
          <6>1. rems[i] \in Nat /\ book0[o] \in Nat BY <1>3, FillFacts
          <6>2. Taken(book0, order, o) # book0[o] BY <3>2, <3>4, <6>1
          <6> QED BY <5>1, <6>2
        <5> QED BY <5>2 DEF IInv, FillsAddUp
      <4>2. o \in DOMAIN book BY <1>1, <4>1 DEF RInv, AppliedInv
      <4>3. book[o] = book0[o] - rems[i] BY <1>1, <1>2, <3>1, <4>2 DEF RInv, AppliedInv
      <4> QED BY <3>2, <3>4, <4>2, <4>3
    <3> QED BY <3>3, <3>4
  <2>2. CASE \A i \in DOMAIN maker_fills : maker_fills[i].oix # o
    <3>1. Taken(book0, order, o) = 0 BY <1>1, <2>2, NoFillTakesNothing
    <3>2. o \in DOMAIN book BY <1>1, <2>2 DEF RInv, AppliedInv
    <3>3. book[o] = book0[o] BY <1>1, <2>2, <3>2 DEF RInv, AppliedInv
    <3> QED BY <1>3, <3>1, <3>2, <3>3
  <2> QED BY <2>1, <2>2
<1>6. K = DOMAIN book BY <1>4, <1>5
<1>7. Traded(book0, order) = [o \in K |-> book0[o] - Taken(book0, order, o)] BY DEF Traded
<1>8. book = [o \in DOMAIN book |-> book[o]] BY DEF RInv, AppliedInv
<1>9. \A o \in K : book[o] = book0[o] - Taken(book0, order, o) BY <1>4, <1>5, <1>6
<1> HIDE DEF K
<1> QED BY <1>6, <1>7, <1>8, <1>9

(* The two answers are the function's.                                     *)
LEMMA SettleIsPlace ==
  ASSUME IInv, RInv, Settle
  PROVE  /\ book' = do_place_order(book0, memo_seq0, order).book
         /\ memo_seq' = do_place_order(book0, memo_seq0, order).memo_seq
         /\ reply' = {[order |-> order, result |-> do_place_order(book0, memo_seq0, order).result]}
<1> DEFINE oix == [side |-> order.side, price |-> order.price,
                   memo |-> memo_seq[order.side][order.price]]
           rests == rem > 0 /\ order.time_in_force # "ImmediateOrCancel"
           result == Ok(order, IF rests THEN {oix} ELSE {}, outcome, rem)
           grown == WithOrder(book, oix, rem)
           bumped == [memo_seq EXCEPT ![order.side][order.price] = @ + 1]
<1>1. /\ pc = "commit" /\ next = Len(maker_fills) + 1 /\ rem = Left
      /\ book' = (IF rests THEN grown ELSE book)
      /\ memo_seq' = (IF rests THEN bumped ELSE memo_seq)
      /\ reply' = {[order |-> order, result |-> result]}
  BY SettleStep DEF Answer
<1>2. Busy /\ todo = {} BY <1>1 DEF Busy, IInv, TodoInv
<1>3. /\ Outcome(book0, order) = outcome
      /\ order.quantity - Filled(book0, order) = rem
  <2>1. /\ Filled(book0, order) = order.quantity - Left /\ Outcome(book0, order) = outcome
        /\ Left \in Nat /\ order.quantity \in Nat
    BY <1>2, ScanFinds
  <2> QED BY <1>1, <2>1
<1>4. Traded(book0, order) = book BY <1>1, CommitTrades
<1>5. ForgetEmpty(memo_seq0, book) = memo_seq BY DEF RInv, LevelsInv
<1>6. Refusal(outcome, order.time_in_force) = {}
  BY <1>1 DEF RInv, Accepted
<1>7. do_place_order(book0, memo_seq0, order)
        = [book |-> IF rests THEN grown ELSE book,
           memo_seq |-> IF rests THEN bumped ELSE memo_seq, result |-> result]
  BY <1>3, <1>4, <1>5, <1>6 DEF do_place_order
<1> HIDE DEF rests, grown, bumped, result
<1> QED BY <1>1, <1>7

(* A refusal is the answer of the function, on an untouched book.          *)
LEMMA RefusalIsPlace ==
  ASSUME IInv, RInv, EnforceTimeInForce, pc' # "validate"
  PROVE  /\ book' = book /\ memo_seq' = memo_seq
         /\ book = do_place_order(book0, memo_seq0, order).book
         /\ memo_seq = do_place_order(book0, memo_seq0, order).memo_seq
         /\ reply' = {[order |-> order, result |-> do_place_order(book0, memo_seq0, order).result]}
<1> DEFINE refusal == Refusal(outcome, order.time_in_force)
<1>1. PICK error \in refusal : UNCHANGED <<book, memo_seq>> /\ Answer(Err(error))
  BY DEF EnforceTimeInForce
<1>2. Busy /\ todo = {} /\ pc = "tif" BY DEF EnforceTimeInForce, Busy, IInv, TodoInv
<1>3. Outcome(book0, order) = outcome BY <1>2, ScanFinds
<1>4. book = book0 /\ memo_seq = memo_seq0 BY <1>2 DEF IInv, BookInv
<1>5. refusal = {error} BY DEF Refusal
<1>6. (CHOOSE e \in refusal : TRUE) = error
  <2> HIDE DEF refusal
  <2>1. (CHOOSE e \in refusal : TRUE) \in refusal BY <1>5
  <2> QED BY <1>5, <2>1
<1>7. do_place_order(book0, memo_seq0, order)
        = [book |-> book0, memo_seq |-> memo_seq0, result |-> Err(error)]
  <2>1. Refusal(Outcome(book0, order), order.time_in_force) = refusal BY <1>3
  <2>2. refusal # {} BY <1>5
  <2> DEFINE Chosen(R) == CHOOSE e \in R : TRUE
  <2>3. do_place_order(book0, memo_seq0, order)
          = [book |-> book0, memo_seq |-> memo_seq0, result |-> Err(Chosen(refusal))]
    BY <2>1, <2>2 DEF do_place_order
  <2> QED BY <1>6, <2>3
<1>8. reply' = {[order |-> order, result |-> Err(error)]} BY <1>1 DEF Answer
<1> QED BY <1>1, <1>4, <1>7, <1>8
-----------------------------------------------------------------------------
(* RInv is inductive.                                                      *)

(* An empty book and no fills.                                             *)
LEMMA InitRInv == Init => RInv
<1> SUFFICES ASSUME Init PROVE RInv OBVIOUS
<1>1. DOMAIN book0 = {} /\ DOMAIN book = {} /\ maker_fills = <<>> /\ pc = "idle"
  BY DEF Init, EmptyBook
<1>2. DOMAIN maker_fills = {} BY <1>1
<1>3. FoundInv BY <1>1, FS_EmptySet DEF FoundInv
<1>4. LevelsInv BY <1>1 DEF Init, LevelsInv, ForgetEmpty, EmptyMemoSeq
<1>5. PriorityInv BY <1>2 DEF PriorityInv
<1>6. ScanInv /\ Accepted BY <1>1 DEF ScanInv, Accepted, Busy
<1>7. AppliedInv BY <1>1 DEF Init, EmptyBook, AppliedInv, Busy
<1> QED BY <1>3, <1>4, <1>5, <1>6, <1>7 DEF RInv

(* Before commit the book is the one found.                                *)
LEMMA NothingAppliedNext ==
  ASSUME book' = book0', \A i \in DOMAIN maker_fills' : ~Applied(i)',
         book' = [o \in DOMAIN book' |-> book'[o]]
  PROVE  AppliedInv'
  BY DEF AppliedInv

(* A scan starts with every eligible maker ahead of it.                    *)
LEMMA ReceiveRInv ==
  ASSUME IInv, RInv, NEW o \in PlaceOrder, Receive(o)
  PROVE  RInv'
<1>1. /\ pc = "idle" /\ pc' = "scan" /\ order' = o /\ maker_fills' = <<>>
      /\ todo' = {oix \in DOMAIN book : oix.side = MakerSide(o.side)}
      /\ UNCHANGED <<book, memo_seq, book0, memo_seq0>>
  BY DEF Receive
<1>2. book = book0 BY <1>1 DEF IInv, BookInv
<1>3. DOMAIN maker_fills' = {} BY <1>1
<1>4. FoundInv' /\ LevelsInv' BY <1>1 DEF RInv, FoundInv, LevelsInv
<1>5. PriorityInv' BY <1>3 DEF PriorityInv
<1>6. ScanInv'
  <2>1. \A x \in Eligible(book0', order') : x \in todo' BY <1>1, <1>2 DEF Eligible
  <2> QED BY <1>3, <2>1 DEF ScanInv
<1>7. AppliedInv'
  <2>1. book' = [x \in DOMAIN book' |-> book'[x]] BY <1>1 DEF RInv, AppliedInv
  <2> QED BY <1>1, <1>2, <1>3, <2>1, NothingAppliedNext
<1>8. Accepted' BY <1>1 DEF Accepted
<1> QED BY <1>4, <1>5, <1>6, <1>7, <1>8 DEF RInv

(* A step before commit that leaves the fills and the books.               *)
LEMMA SameFills ==
  ASSUME UNCHANGED <<maker_fills, rems, order, book0, memo_seq, memo_seq0, book>>, RInv
  PROVE  FoundInv' /\ LevelsInv' /\ PriorityInv' /\ Left' = Left
<1>1. FoundInv' /\ LevelsInv' BY DEF RInv, FoundInv, LevelsInv
<1>2. PriorityInv'
  <2>1. \A j : Fills(j)' = Fills(j) BY DEF Fills
  <2>3. \A i \in DOMAIN maker_fills :
          /\ maker_fills[i].oix \in Eligible(book0, order)
          /\ book0[maker_fills[i].oix] = maker_fills[i].quantity
          /\ {r \in Eligible(book0, order) : Precedes(r, maker_fills[i].oix)} = Fills(i - 1)
          /\ TotalQuantity(book0, Fills(i - 1)) = order.quantity - rems[i]
    BY DEF RInv, PriorityInv, Ahead
  <2> QED BY <2>1, <2>3 DEF PriorityInv, Ahead
<1>3. Left' = Left BY DEF Left
<1> QED BY <1>1, <1>2, <1>3

(* A maker that is skipped is not eligible.                                *)
LEMMA SkipMakerRInv ==
  ASSUME IInv, RInv, NEW oix \in todo, SkipMaker(oix)
  PROVE  RInv'
<1>1. /\ pc = "scan" /\ pc' = pc /\ todo' = todo \ {oix} /\ ~MeetsPrice(order, oix.price)
      /\ UNCHANGED <<maker_fills, rems, order, book0, memo_seq, memo_seq0, book>>
  BY DEF SkipMaker, answered
<1>2. FoundInv' /\ LevelsInv' /\ PriorityInv' /\ Left' = Left BY <1>1, SameFills
<1>3. oix \notin Eligible(book0, order) BY <1>1 DEF Eligible
<1>4. ScanInv' BY <1>1, <1>2, <1>3 DEF RInv, ScanInv, Busy
<1>5. AppliedInv'
  <2>1. book = book0 BY <1>1 DEF IInv, BookInv
  <2>2. book' = [x \in DOMAIN book' |-> book'[x]] BY <1>1 DEF RInv, AppliedInv
  <2>3. \A i \in DOMAIN maker_fills' : ~Applied(i)' BY <1>1 DEF Applied
  <2> QED BY <1>1, <2>1, <2>2, <2>3, NothingAppliedNext
<1>6. Accepted' BY <1>1 DEF Accepted
<1> QED BY <1>2, <1>4, <1>5, <1>6 DEF RInv

(* The end of the scan, the table and validation only move pc.             *)
LEMMA PassRInv ==
  ASSUME IInv, IInv', RInv,
         \/ EndScan
         \/ EnforceTimeInForce /\ pc' = "validate"
         \/ Validate /\ pc' = "commit"
  PROVE  RInv'
<1>1. /\ Busy /\ Busy' /\ pc # "commit"
      /\ UNCHANGED <<maker_fills, rems, order, book0, memo_seq, memo_seq0, book, todo>>
  BY DEF EndScan, EnforceTimeInForce, Validate, Answer, answered, locals, Busy
<1>2. FoundInv' /\ LevelsInv' /\ PriorityInv' /\ Left' = Left BY <1>1, SameFills
<1>3. ScanInv' BY <1>1, <1>2 DEF RInv, ScanInv
<1>4. AppliedInv'
  <2>1. book = book0 BY <1>1 DEF IInv, BookInv, Busy
  <2>2. book' = [x \in DOMAIN book' |-> book'[x]] BY <1>1 DEF RInv, AppliedInv
  <2>3. next' = 1
    BY DEF EndScan, EnforceTimeInForce, Validate, Answer, locals, IInv, RemInv
  <2>4. \A i \in DOMAIN maker_fills' : ~Applied(i)' BY <1>1, <2>3, FillFacts DEF Applied
  <2> QED BY <1>1, <2>1, <2>2, <2>4, NothingAppliedNext
<1>5. Accepted'
  <2>1. CASE EndScan BY <2>1 DEF EndScan, Accepted
  <2>2. CASE EnforceTimeInForce /\ pc' = "validate"
    BY <2>2 DEF EnforceTimeInForce, Answer, locals, Accepted
  <2>3. CASE Validate /\ pc' = "commit"
    <3>1. pc = "validate" /\ outcome' = outcome /\ order' = order
      BY <2>3 DEF Validate, Answer
    <3> QED BY <3>1 DEF RInv, Accepted
  <2> QED BY <2>1, <2>2, <2>3
<1> QED BY <1>2, <1>3, <1>4, <1>5 DEF RInv

(* One more fill: the maker the iterator yields is the first of the        *)
(* eligible ones that have none.                                           *)
LEMMA FillMakerRInv ==
  ASSUME IInv, IInv', RInv, NEW oix \in todo, FillMaker(oix)
  PROVE  RInv'
<1> DEFINE n == Len(maker_fills)
           E == Eligible(book0, order)
           F == Fills(n)
<1>1. PICK fill \in MakerFill :
        /\ fill.oix = oix /\ fill.quantity = book[oix]
        /\ maker_fills' = Append(maker_fills, fill) /\ rems' = Append(rems, rem)
  <2> DEFINE amount == IF book[oix] <= rem THEN book[oix] ELSE rem
             f == [oix |-> oix, quantity |-> book[oix],
                   fill_type |-> IF amount = book[oix] THEN "Complete" ELSE "Partial"]
  <2>1. oix \in OrderIndex /\ book[oix] \in Quantity BY DEF IInv, TypeOK, TodoInv
  <2>2. f \in MakerFill BY <2>1 DEF MakerFill, FillType
  <2>3. maker_fills' = Append(maker_fills, f) /\ rems' = Append(rems, rem) BY DEF FillMaker
  <2> QED BY <2>2, <2>3
<1>2. /\ pc = "scan" /\ pc' = pc /\ Yields(oix) /\ MeetsPrice(order, oix.price)
      /\ UNCHANGED <<order, book0, memo_seq, memo_seq0, book>>
      /\ todo' = todo \ {oix} \/ rem' = 0
  BY DEF FillMaker, answered
<1>3. rem \in Quantity /\ rem = Left /\ rem' = Left' /\ book = book0
  BY <1>2 DEF IInv, TypeOK, RemInv, BookInv, Quantity
<1>4. /\ n \in Nat /\ DOMAIN maker_fills = 1..n /\ DOMAIN maker_fills' = 1..(n + 1)
      /\ maker_fills'[n + 1] = fill /\ rems'[n + 1] = rem
      /\ \A i \in 1..n : maker_fills'[i] = maker_fills[i] /\ rems'[i] = rems[i]
  <2>1. maker_fills \in Seq(MakerFill) /\ rems \in Seq(Quantity) /\ Len(rems) = n
    BY DEF IInv, TypeOK, FillsAddUp
  <2> QED BY <1>1, <1>3, <2>1
<1>5. /\ oix \in E /\ oix \in OrderIndex /\ book0[oix] = book[oix]
      /\ \A i \in DOMAIN maker_fills : maker_fills[i].oix # oix
  BY <1>2, <1>3 DEF IInv, TypeOK, TodoInv, Eligible
<1>6. \A r \in E : r.side = oix.side /\ r \in OrderIndex
  BY <1>5 DEF RInv, FoundInv, Eligible
<1>7. F \subseteq E BY FillsTotal
<1>8. \A r \in F : Precedes(r, oix) BY <1>2, <1>4, <1>5 DEF RInv, ScanInv, Busy, Fills
<1>9. ASSUME NEW r \in E, r \notin F, r # oix
      PROVE  /\ r \in todo /\ Precedes(oix, r) /\ ~Precedes(r, oix)
             /\ \A i \in DOMAIN maker_fills : Precedes(maker_fills[i].oix, r)
  <2>1. ~\E i \in DOMAIN maker_fills : maker_fills[i].oix = r BY <1>4, <1>9 DEF Fills
  <2>2. Left # 0 BY <1>3 DEF Quantity
  <2>3. r \in todo /\ \A i \in DOMAIN maker_fills : Precedes(maker_fills[i].oix, r)
    BY <1>2, <2>1, <2>2 DEF RInv, ScanInv, Busy
  <2>4. Precedes(oix, r) BY <1>2, <1>9, <2>3 DEF Yields
  <2> QED BY <1>5, <1>6, <2>3, <2>4, PrecedesStrict
<1>10. Ahead(oix) = F
  <2>1. ~Precedes(oix, oix) BY <1>5, PrecedesStrict
  <2>2. \A r \in E : Precedes(r, oix) <=> r \in F BY <1>8, <1>9, <2>1
  <2> QED BY <1>7, <2>2 DEF Ahead
<1>11. TotalQuantity(book0, F) = order.quantity - rem
  <2>1. Left > 0 BY <1>3 DEF Quantity
  <2> QED BY <1>3, <2>1, FillsTotal
<1>12. FoundInv' /\ LevelsInv' /\ Accepted'
  BY <1>2 DEF RInv, FoundInv, LevelsInv, Accepted
<1>13. PriorityInv'
  <2>1. ASSUME NEW i \in DOMAIN maker_fills'
        PROVE  /\ maker_fills'[i].oix \in Eligible(book0', order')
               /\ book0'[maker_fills'[i].oix] = maker_fills'[i].quantity
               /\ {r \in Eligible(book0', order') : Precedes(r, maker_fills'[i].oix)} = Fills(i - 1)'
               /\ TotalQuantity(book0', Fills(i - 1)') = order'.quantity - rems'[i]
    <3>1. i \in 1..(n + 1) /\ Fills(i - 1)' = Fills(i - 1)
      <4>1. i \in 1..(n + 1) BY <1>4
      <4>2. \A j \in 1..(i - 1) : maker_fills'[j] = maker_fills[j] BY <1>4, <4>1
      <4> QED BY <4>1, <4>2 DEF Fills
    <3>2. CASE i = n + 1
      <4>1. i - 1 = n BY <1>4, <3>2
      <4>2. Fills(i - 1) = F BY <4>1
      <4>3. {r \in E : Precedes(r, oix)} = F BY <1>10 DEF Ahead
      <4>4. maker_fills'[i].oix = oix /\ maker_fills'[i].quantity = book[oix] /\ rems'[i] = rem
        BY <1>1, <1>4, <3>2
      <4> HIDE DEF E, F
      <4> QED BY <1>2, <1>5, <1>11, <3>1, <4>2, <4>3, <4>4 DEF E
    <3>3. CASE i # n + 1
      <4>1. i \in 1..n /\ i \in DOMAIN maker_fills BY <1>4, <3>1, <3>3
      <4>2. maker_fills'[i] = maker_fills[i] /\ rems'[i] = rems[i] BY <1>4, <4>1
      <4>3. /\ maker_fills[i].oix \in E
            /\ book0[maker_fills[i].oix] = maker_fills[i].quantity
            /\ {r \in E : Precedes(r, maker_fills[i].oix)} = Fills(i - 1)
            /\ TotalQuantity(book0, Fills(i - 1)) = order.quantity - rems[i]
        BY <4>1 DEF RInv, PriorityInv, Ahead
      <4> QED BY <1>2, <3>1, <4>2, <4>3
    <3> QED BY <3>2, <3>3
  <2> QED BY <2>1 DEF PriorityInv, Ahead
<1>14. ScanInv'
  <2>1. ASSUME NEW r \in E
        PROVE  \/ \E i \in DOMAIN maker_fills' : maker_fills'[i].oix = r
               \/ /\ r \in todo' \/ Left' = 0
                  /\ \A i \in DOMAIN maker_fills' : Precedes(maker_fills'[i].oix, r)
    <3>1. CASE r \in F
      <4>1. PICK i \in 1..n : maker_fills[i].oix = r BY <3>1 DEF Fills
      <4>2. i \in DOMAIN maker_fills' /\ maker_fills'[i].oix = r BY <1>4, <4>1
      <4> QED BY <4>2
    <3>2. CASE r = oix
      <4>1. n + 1 \in DOMAIN maker_fills' BY <1>4
      <4>2. maker_fills'[n + 1].oix = r BY <1>1, <1>4, <3>2
      <4> QED BY <4>1, <4>2
    <3>3. CASE r \notin F /\ r # oix
      <4>1. /\ r \in todo /\ Precedes(oix, r)
            /\ \A i \in DOMAIN maker_fills : Precedes(maker_fills[i].oix, r)
        BY <1>9, <3>3
      <4>2. r \in todo' \/ Left' = 0 BY <1>2, <1>3, <3>3, <4>1
      <4>3. ASSUME NEW i \in DOMAIN maker_fills' PROVE Precedes(maker_fills'[i].oix, r)
        <5>1. CASE i = n + 1 BY <1>1, <1>4, <4>1, <5>1
        <5>2. CASE i # n + 1
          <6>1. i \in 1..n BY <1>4, <5>2
          <6> QED BY <1>4, <4>1, <6>1
        <5> QED BY <5>1, <5>2
      <4> QED BY <4>2, <4>3
    <3> QED BY <3>1, <3>2, <3>3
  <2>2. Eligible(book0, order)' = E BY <1>2
  <2> QED BY <2>1, <2>2 DEF ScanInv
<1>15. AppliedInv'
  <2>1. book' = [x \in DOMAIN book' |-> book'[x]] BY <1>2 DEF RInv, AppliedInv
  <2>2. \A i \in DOMAIN maker_fills' : ~Applied(i)' BY <1>2 DEF Applied
  <2> QED BY <1>2, <1>3, <2>1, <2>2, NothingAppliedNext
<1> QED BY <1>12, <1>13, <1>14, <1>15 DEF RInv

(* An answer starts over from the book it leaves.                          *)
LEMMA AnswerRInv ==
  ASSUME IInv', QInv', NEW result, Answer(result), book' = [o \in DOMAIN book' |-> book'[o]],
         memo_seq' = ForgetEmpty(memo_seq', book')
  PROVE  RInv'
<1>1. /\ pc' = "idle" /\ book0' = book' /\ memo_seq0' = memo_seq' /\ maker_fills' = <<>>
  BY DEF Answer
<1>2. DOMAIN maker_fills' = {} BY <1>1
<1>3. FoundInv' BY <1>1 DEF FoundInv, QInv, IInv, TypeOK
<1>4. LevelsInv' BY <1>1 DEF LevelsInv
<1>5. PriorityInv' BY <1>2 DEF PriorityInv
<1>6. ScanInv' /\ Accepted' BY <1>1 DEF ScanInv, Accepted, Busy
<1>7. AppliedInv' BY <1>1, <1>2, NothingAppliedNext
<1> QED BY <1>3, <1>4, <1>5, <1>6, <1>7 DEF RInv

(* A refused order leaves the book it found.                               *)
LEMMA RefuseRInv ==
  ASSUME IInv, IInv', QInv', RInv, EnforceTimeInForce, pc' # "validate"
  PROVE  RInv'
<1>1. PICK error : UNCHANGED <<book, memo_seq>> /\ Answer(Err(error)) /\ pc = "tif"
  BY DEF EnforceTimeInForce
<1>2. memo_seq = memo_seq0 BY <1>1 DEF IInv, BookInv
<1>3. memo_seq' = ForgetEmpty(memo_seq', book') BY <1>1, <1>2 DEF RInv, LevelsInv
<1>4. book' = [o \in DOMAIN book' |-> book'[o]] BY <1>1 DEF RInv, AppliedInv
<1> QED BY <1>1, <1>3, <1>4, AnswerRInv

(* An order that rests adds its level, if there was none.                  *)
LEMMA SettleRInv ==
  ASSUME IInv, IInv', QInv', RInv, Settle
  PROVE  RInv'
<1> DEFINE oix == [side |-> order.side, price |-> order.price,
                   memo |-> memo_seq[order.side][order.price]]
           rests == rem > 0 /\ order.time_in_force # "ImmediateOrCancel"
           result == Ok(order, IF rests THEN {oix} ELSE {}, outcome, rem)
           Level(b, s, p) == \E o \in DOMAIN b : o.side = s /\ o.price = p
<1>1. /\ order.side \in OrderSide /\ order.price \in Prices
      /\ book' = (IF rests THEN WithOrder(book, oix, rem) ELSE book)
      /\ memo_seq' = (IF rests THEN [memo_seq EXCEPT ![order.side][order.price] = @ + 1]
                      ELSE memo_seq)
      /\ Answer(result)
  BY SettleStep
<1>2. book' = [o \in DOMAIN book' |-> book'[o]]
  <2>1. CASE rests BY <1>1, <2>1 DEF WithOrder
  <2>2. CASE ~rests BY <1>1, <2>2 DEF RInv, AppliedInv
  <2> QED BY <2>1, <2>2
<1>3. memo_seq' \in [OrderSide -> [Prices -> Memo]] /\ memo_seq \in [OrderSide -> [Prices -> Memo]]
  BY DEF IInv, TypeOK
<1>4. ASSUME NEW s \in OrderSide, NEW p \in Prices, ~Level(book', s, p) PROVE memo_seq'[s][p] = 0
  <2>1. memo_seq[s][p] = IF Level(book, s, p) THEN memo_seq0[s][p] ELSE 0
    BY DEF RInv, LevelsInv, ForgetEmpty
  <2>2. CASE ~rests BY <1>1, <1>4, <2>1, <2>2
  <2>3. CASE rests
    <3>1. DOMAIN book' = DOMAIN book \union {oix} BY <1>1, <2>3 DEF WithOrder
    <3>2. ~Level(book, s, p) BY <1>4, <3>1
    <3>3. ~(s = order.side /\ p = order.price)
      <4>1. oix \in DOMAIN book' /\ oix.side = order.side /\ oix.price = order.price BY <3>1
      <4> HIDE DEF oix
      <4> QED BY <1>4, <4>1
    <3>4. memo_seq'[s][p] = memo_seq[s][p] BY <1>1, <1>3, <2>3, <3>3
    <3> QED BY <2>1, <3>2, <3>4
  <2> QED BY <2>2, <2>3
<1>5. memo_seq' = ForgetEmpty(memo_seq', book') BY <1>3, <1>4 DEF ForgetEmpty
<1> HIDE DEF result
<1> QED BY <1>1, <1>2, <1>5, AnswerRInv

(* The fill commit applies next is applied.                                *)
LEMMA AppliesNext ==
  ASSUME IInv, pc = "commit", pc' = pc, next' = next + 1, next \in DOMAIN maker_fills,
         NEW i \in DOMAIN maker_fills
  PROVE  Applied(i)' <=> Applied(i) \/ i = next
<1>1. next \in Nat /\ i \in Nat BY FillFacts
<1> QED BY <1>1 DEF Applied

(* A completely filled maker leaves, and its level if it was alone.        *)
LEMMA CommitCompleteRInv ==
  ASSUME IInv, RInv, CommitComplete
  PROVE  RInv'
<1> DEFINE gone == maker_fills[next].oix
           Level(b, s, p) == \E o \in DOMAIN b : o.side = s /\ o.price = p
<1>1. /\ pc = "commit" /\ pc' = pc /\ next' = next + 1 /\ next \in DOMAIN maker_fills
      /\ maker_fills[next].fill_type = "Complete"
      /\ gone \in DOMAIN book
      /\ book' = [o \in DOMAIN book \ {gone} |-> book[o]]
      /\ memo_seq' = (IF \E o \in DOMAIN book \ {gone} : o.side = gone.side /\ o.price = gone.price
                      THEN memo_seq ELSE [memo_seq EXCEPT ![gone.side][gone.price] = 0])
      /\ UNCHANGED <<maker_fills, rems, order, todo, outcome, book0, memo_seq0>>
  BY CompleteStep DEF RemoveFromBook, answered
<1>2. FoundInv' /\ ScanInv' /\ Accepted'
  BY <1>1 DEF RInv, FoundInv, ScanInv, Accepted, Busy, Left
<1>3. PriorityInv'
  <2>1. \A j : Fills(j)' = Fills(j) BY <1>1 DEF Fills
  <2>2. \A i \in DOMAIN maker_fills :
          /\ maker_fills[i].oix \in Eligible(book0, order)
          /\ book0[maker_fills[i].oix] = maker_fills[i].quantity
          /\ {r \in Eligible(book0, order) : Precedes(r, maker_fills[i].oix)} = Fills(i - 1)
          /\ TotalQuantity(book0, Fills(i - 1)) = order.quantity - rems[i]
    BY DEF RInv, PriorityInv, Ahead
  <2> QED BY <1>1, <2>1, <2>2 DEF PriorityInv, Ahead
<1>4. LevelsInv'
  <2>1. memo_seq \in [OrderSide -> [Prices -> Memo]] /\ gone.side \in OrderSide /\ gone.price \in Prices
    BY <1>1 DEF IInv, TypeOK, OrderIndex
  <2>2. DOMAIN book' = DOMAIN book \ {gone} BY <1>1
  <2>3. memo_seq' \in [OrderSide -> [Prices -> Memo]] BY <1>1, <2>1, MemoMaxAssumption DEF Memo
  <2>4. ASSUME NEW s \in OrderSide, NEW p \in Prices
        PROVE  memo_seq'[s][p] = IF Level(book', s, p) THEN memo_seq0[s][p] ELSE 0
    <3>1. memo_seq[s][p] = IF Level(book, s, p) THEN memo_seq0[s][p] ELSE 0
      BY DEF RInv, LevelsInv, ForgetEmpty
    <3>2. CASE s = gone.side /\ p = gone.price
      <4>1. Level(book, s, p) BY <1>1, <3>2
      <4>2. CASE Level(book', s, p)
        <5>1. memo_seq' = memo_seq BY <1>1, <2>2, <3>2, <4>2
        <5> QED BY <3>1, <4>1, <4>2, <5>1
      <4>3. CASE ~Level(book', s, p)
        <5>1. memo_seq' = [memo_seq EXCEPT ![gone.side][gone.price] = 0]
          BY <1>1, <2>2, <3>2, <4>3
        <5>2. memo_seq'[s][p] = 0 BY <2>1, <3>2, <5>1
        <5> QED BY <4>3, <5>2
      <4> QED BY <4>2, <4>3
    <3>3. CASE ~(s = gone.side /\ p = gone.price)
      <4>1. Level(book', s, p) <=> Level(book, s, p) BY <2>2, <3>3
      <4>2. memo_seq'[s][p] = memo_seq[s][p] BY <1>1, <2>1, <3>3
      <4> QED BY <3>1, <4>1, <4>2
    <3> QED BY <3>2, <3>3
  <2>5. memo_seq0' = memo_seq0 BY <1>1
  <2> QED BY <2>3, <2>4, <2>5 DEF LevelsInv, ForgetEmpty
<1>5. AppliedInv'
  <2>1. /\ DOMAIN book \subseteq DOMAIN book0
        /\ \A o \in DOMAIN book0 :
              o \in DOMAIN book <=>
                 \A i \in DOMAIN maker_fills :
                    Applied(i) /\ maker_fills[i].oix = o => maker_fills[i].fill_type = "Partial"
        /\ \A o \in DOMAIN book :
              /\ \A i \in DOMAIN maker_fills :
                    Applied(i) /\ maker_fills[i].oix = o => book[o] = book0[o] - rems[i]
              /\ (\A i \in DOMAIN maker_fills : Applied(i) => maker_fills[i].oix # o)
                    => book[o] = book0[o]
    BY <1>1 DEF RInv, AppliedInv, Busy
  <2>2. \A i \in DOMAIN maker_fills : Applied(i)' <=> Applied(i) \/ i = next
    BY <1>1, AppliesNext
  <2>3. book' = [o \in DOMAIN book' |-> book'[o]] /\ DOMAIN book' = DOMAIN book \ {gone}
        /\ \A o \in DOMAIN book' : book'[o] = book[o]
    BY <1>1
  <2>4. \A o \in DOMAIN book0 :
              o \in DOMAIN book' <=>
                 \A i \in DOMAIN maker_fills :
                    Applied(i)' /\ maker_fills[i].oix = o => maker_fills[i].fill_type = "Partial"
    BY <1>1, <2>1, <2>2, <2>3
  <2>5. \A o \in DOMAIN book' :
              /\ \A i \in DOMAIN maker_fills :
                    Applied(i)' /\ maker_fills[i].oix = o => book'[o] = book0[o] - rems[i]
              /\ (\A i \in DOMAIN maker_fills : Applied(i)' => maker_fills[i].oix # o)
                    => book'[o] = book0[o]
    BY <1>1, <2>1, <2>2, <2>3
  <2>6. DOMAIN book' \subseteq DOMAIN book0 BY <2>1, <2>3
  <2>7. maker_fills' = maker_fills /\ rems' = rems /\ book0' = book0 BY <1>1
  <2> QED BY <2>3, <2>4, <2>5, <2>6, <2>7 DEF AppliedInv
<1> QED BY <1>2, <1>3, <1>4, <1>5 DEF RInv

(* A partially filled maker keeps what the taker did not want.             *)
LEMMA CommitPartialRInv ==
  ASSUME IInv, RInv, CommitPartial
  PROVE  RInv'
<1> DEFINE kept == maker_fills[next].oix
<1>1. /\ pc = "commit" /\ pc' = pc /\ next' = next + 1
      /\ maker_fills[next].fill_type = "Partial" /\ maker_fills[next].quantity = book[kept]
      /\ kept \in DOMAIN book /\ rem = rems[next]
      /\ book' = [book EXCEPT ![kept] = @ - rem]
      /\ UNCHANGED <<maker_fills, rems, order, todo, outcome, memo_seq, book0, memo_seq0>>
  BY PartialStep DEF answered
<1>0. next \in DOMAIN maker_fills BY DEF CommitPartial
<1>2. FoundInv' /\ ScanInv' /\ Accepted'
  BY <1>1 DEF RInv, FoundInv, ScanInv, Accepted, Busy, Left
<1>3. PriorityInv'
  <2>1. \A j : Fills(j)' = Fills(j) BY <1>1 DEF Fills
  <2>2. \A i \in DOMAIN maker_fills :
          /\ maker_fills[i].oix \in Eligible(book0, order)
          /\ book0[maker_fills[i].oix] = maker_fills[i].quantity
          /\ {r \in Eligible(book0, order) : Precedes(r, maker_fills[i].oix)} = Fills(i - 1)
          /\ TotalQuantity(book0, Fills(i - 1)) = order.quantity - rems[i]
    BY DEF RInv, PriorityInv, Ahead
  <2> QED BY <1>1, <2>1, <2>2 DEF PriorityInv, Ahead
<1>4. LevelsInv'
  <2>1. DOMAIN book' = DOMAIN book BY <1>1
  <2> QED BY <1>1, <2>1 DEF RInv, LevelsInv, ForgetEmpty
<1>5. AppliedInv'
  <2>1. /\ DOMAIN book \subseteq DOMAIN book0
        /\ \A o \in DOMAIN book0 :
              o \in DOMAIN book <=>
                 \A i \in DOMAIN maker_fills :
                    Applied(i) /\ maker_fills[i].oix = o => maker_fills[i].fill_type = "Partial"
        /\ \A o \in DOMAIN book :
              /\ \A i \in DOMAIN maker_fills :
                    Applied(i) /\ maker_fills[i].oix = o => book[o] = book0[o] - rems[i]
              /\ (\A i \in DOMAIN maker_fills : Applied(i) => maker_fills[i].oix # o)
                    => book[o] = book0[o]
    BY <1>1 DEF RInv, AppliedInv, Busy
  <2>2. \A i \in DOMAIN maker_fills : Applied(i)' <=> Applied(i) \/ i = next
    BY <1>0, <1>1, AppliesNext
  <2>3. /\ DOMAIN book' = DOMAIN book /\ book'[kept] = book[kept] - rem
        /\ \A o \in DOMAIN book : o # kept => book'[o] = book[o]
    BY <1>1
  <2>4. book' = [o \in DOMAIN book' |-> book'[o]] BY <1>1 DEF RInv, AppliedInv
  <2>5. \A o \in DOMAIN book0 :
              o \in DOMAIN book' <=>
                 \A i \in DOMAIN maker_fills :
                    Applied(i)' /\ maker_fills[i].oix = o => maker_fills[i].fill_type = "Partial"
    BY <1>1, <2>1, <2>2, <2>3
  <2>6. \A j \in DOMAIN maker_fills : maker_fills[j].oix = kept => j = next
    <3>1. next \in Nat /\ next >= next BY <1>0, FillFacts
    <3> QED BY <1>0, <1>1, <3>1 DEF IInv, FillsLive, Busy
  <2>7. book0[kept] = book[kept] BY <1>0, <1>1 DEF RInv, PriorityInv
  <2>8. \A o \in DOMAIN book' :
              /\ \A i \in DOMAIN maker_fills :
                    Applied(i)' /\ maker_fills[i].oix = o => book'[o] = book0[o] - rems[i]
              /\ (\A i \in DOMAIN maker_fills : Applied(i)' => maker_fills[i].oix # o)
                    => book'[o] = book0[o]
    <3> SUFFICES ASSUME NEW o \in DOMAIN book'
                 PROVE  /\ \A i \in DOMAIN maker_fills :
                             Applied(i)' /\ maker_fills[i].oix = o => book'[o] = book0[o] - rems[i]
                        /\ (\A i \in DOMAIN maker_fills : Applied(i)' => maker_fills[i].oix # o)
                             => book'[o] = book0[o]
      OBVIOUS
    <3>1. CASE o = kept BY <1>0, <1>1, <2>2, <2>3, <2>6, <2>7, <3>1
    <3>2. CASE o # kept BY <1>1, <2>1, <2>2, <2>3, <3>2
    <3> QED BY <3>1, <3>2
  <2>9. DOMAIN book' \subseteq DOMAIN book0 BY <2>1, <2>3
  <2> QED BY <1>1, <2>4, <2>5, <2>8, <2>9 DEF AppliedInv
<1> QED BY <1>2, <1>3, <1>4, <1>5 DEF RInv

(* Every step keeps RInv.                                                  *)
LEMMA NextRInv == IInv /\ IInv' /\ QInv' /\ RInv /\ [Next]_vars => RInv'
<1> SUFFICES ASSUME IInv, IInv', QInv', RInv, [Next]_vars PROVE RInv' OBVIOUS
<1>1. CASE \E oix \in todo : SkipMaker(oix) \/ FillMaker(oix)
  BY <1>1, SkipMakerRInv, FillMakerRInv
<1>2. CASE EndScan BY <1>2, PassRInv
<1>3. CASE EnforceTimeInForce BY <1>3, PassRInv, RefuseRInv
<1>4. CASE Validate
  <2>1. pc' = "commit" BY <1>4, ValidateStep
  <2> QED BY <1>4, <2>1, PassRInv
<1>5. CASE CommitComplete BY <1>5, CommitCompleteRInv
<1>6. CASE CommitPartial BY <1>6, CommitPartialRInv
<1>7. CASE Settle BY <1>7, SettleRInv
<1>8. CASE \E o \in PlaceOrder : Receive(o) BY <1>8, ReceiveRInv
<1>9. CASE UNCHANGED vars
  <2>1. UNCHANGED <<maker_fills, rems, order, book0, memo_seq, memo_seq0, book, pc, todo, next, outcome>>
    BY <1>9 DEF vars, locals, answered
  <2>2. FoundInv' /\ LevelsInv' /\ PriorityInv' /\ Left' = Left BY <2>1, SameFills
  <2>3. ScanInv' /\ Accepted' BY <2>1, <2>2 DEF RInv, ScanInv, Accepted, Busy
  <2>4. AppliedInv' BY <2>1 DEF RInv, AppliedInv, Busy, Applied
  <2> QED BY <2>2, <2>3, <2>4 DEF RInv
<1> QED BY <1>1, <1>2, <1>3, <1>4, <1>5, <1>6, <1>7, <1>8, <1>9 DEF Next, Step

(* RInv in every state.                                                    *)
LEMMA RefinementInvariant == Spec => []RInv
<1>1. Init => RInv BY InitRInv
<1> QED BY <1>1, NextRInv, MatchingInvariant, QuantityInvariant, PTL DEF Spec

(* A step of the loops is a step of the atomic specification, or none.     *)
LEMMA StepIsAtomic == IInv /\ RInv /\ [Next]_vars => [Atomic!Next]_(Atomic!vars)
<1> SUFFICES ASSUME IInv, RInv, [Next]_vars PROVE Atomic!Next \/ UNCHANGED Atomic!vars
  OBVIOUS
<1> DEFINE after == do_place_order(book0, memo_seq0, order)
<1>1. ASSUME book0' = after.book, memo_seq0' = after.memo_seq,
             reply' = {[order |-> order, result |-> after.result]}
      PROVE  Atomic!Next
  <2>1. order \in PlaceOrder BY DEF IInv, TypeOK
  <2>2. Atomic!do_place_order(book0, memo_seq0, order) = after BY SameFunction
  <2>3. Atomic!PlaceOrder = PlaceOrder
    BY DEF Atomic!PlaceOrder, PlaceOrder, Atomic!OrderSide, OrderSide, Atomic!OrderType, OrderType,
           Atomic!TimeInForce, TimeInForce
  <2> HIDE DEF after
  <2>4. Atomic!Place(order) BY <1>1, <2>2 DEF Atomic!Place
  <2> QED BY <2>1, <2>3, <2>4 DEF Atomic!Next
<1>2. CASE EnforceTimeInForce
  <2>1. CASE pc' = "validate"
    <3>1. UNCHANGED answered BY <1>2, <2>1 DEF EnforceTimeInForce, Answer
    <3> QED BY <3>1 DEF answered, Atomic!vars
  <2>2. CASE pc' # "validate"
    <3>1. book0' = book' /\ memo_seq0' = memo_seq' BY <1>2, <2>2 DEF EnforceTimeInForce, Answer
    <3> QED BY <1>1, <1>2, <2>2, <3>1, RefusalIsPlace
  <2> QED BY <2>1, <2>2
<1>3. CASE Settle
  <2>1. book0' = book' /\ memo_seq0' = memo_seq' BY <1>3, SettleStep DEF Answer
  <2> QED BY <1>1, <1>3, <2>1, SettleIsPlace
<1>4. CASE \E o \in PlaceOrder : Receive(o)
  BY <1>4 DEF Receive, Atomic!Next, Atomic!TakeReply
<1>5. CASE \/ \E oix \in todo : SkipMaker(oix) \/ FillMaker(oix)
           \/ EndScan
           \/ UNCHANGED vars
  BY <1>5 DEF SkipMaker, FillMaker, EndScan, vars, answered, Atomic!vars
<1>6. CASE Validate BY <1>6, ValidateStep DEF answered, Atomic!vars
<1>7. CASE CommitComplete
  <2>1. UNCHANGED answered BY <1>7, CompleteStep
  <2> QED BY <2>1 DEF answered, Atomic!vars
<1>8. CASE CommitPartial
  <2>1. UNCHANGED answered BY <1>8, PartialStep
  <2> QED BY <2>1 DEF answered, Atomic!vars
<1> QED BY <1>2, <1>3, <1>4, <1>5, <1>6, <1>7, <1>8 DEF Next, Step

(* The loops of try_fill_orders and commit implement the atomic place      *)
(* order: for every set of prices and quantities, each answer of           *)
(* do_place_order leaves the book, the memos and the result that           *)
(* price-time priority prescribes for the book it was called on.           *)
THEOREM MatchingImplementsPlaceOrder == Spec => ImplementsPlaceOrder
<1>1. Init => Atomic!Init
  BY DEF Init, Atomic!Init, EmptyBook, Atomic!EmptyBook, EmptyMemoSeq, Atomic!EmptyMemoSeq,
         OrderSide, Atomic!OrderSide
<1>2. Spec => Atomic!Spec
  BY <1>1, StepIsAtomic, MatchingInvariant, RefinementInvariant, PTL DEF Spec, Atomic!Spec
<1> QED BY <1>2 DEF ImplementsPlaceOrder
-----------------------------------------------------------------------------
(* Every call returns.  The prover has no fairness; what it shows is that  *)
(* a call in hand always has a next step, and that only finitely many are  *)
(* left: each step makes Work, a natural number, smaller.                  *)

(* The guards of Step: the iterator yields, or the loop is over; the match *)
(* and the first loop of commit always go on; the fill at hand is of one   *)
(* of the two kinds, or commit is over.                                    *)
CanStep ==
    \/ pc = "scan" /\ (todo = {} \/ \E oix \in todo : Yields(oix))
    \/ pc \in {"tif", "validate"}
    \/ pc = "commit" /\ (\/ next \notin DOMAIN maker_fills
                         \/ maker_fills[next].fill_type \in {"Complete", "Partial"})

(* At most one fill per maker still to be scanned, one commit per fill,    *)
(* and the steps in between.                                               *)
Work ==
    CASE pc = "scan" -> 2 * Cardinality(todo) + Len(maker_fills) + 4
      [] pc = "tif" -> Len(maker_fills) + 3
      [] pc = "validate" -> Len(maker_fills) + 2
      [] pc = "commit" -> Len(maker_fills) + 2 - next
      [] OTHER -> 0

(* Priority is a total order on one side of a book.                        *)
LEMMA PrecedesTotal ==
  ASSUME NEW o \in OrderIndex, NEW r \in OrderIndex, o.side = r.side, o # r
  PROVE  /\ Precedes(o, r) \/ Precedes(r, o)
         /\ \A x \in OrderIndex : x.side = o.side /\ Precedes(o, r) /\ Precedes(r, x) => Precedes(o, x)
<1>0. \A p \in Prices : p \in Int BY PricesAssumption
<1>1. \A x \in OrderIndex : x.side \in {"Buy", "Sell"} /\ x.price \in Int /\ x.memo \in Int
  BY <1>0, MemoMaxAssumption DEF OrderIndex, OrderSide, Memo
<1>2. o.price # r.price \/ o.memo # r.memo BY DEF OrderIndex
<1>3. Precedes(o, r) \/ Precedes(r, o) BY <1>1, <1>2 DEF Precedes
<1>4. ASSUME NEW x \in OrderIndex, x.side = o.side, Precedes(o, r), Precedes(r, x)
      PROVE  Precedes(o, x)
  BY <1>1, <1>4 DEF Precedes
<1> QED BY <1>3, <1>4

(* Among finitely many orders of one side there is a first.                *)
LEMMA FirstExists ==
  ASSUME NEW S, S \subseteq OrderIndex, IsFiniteSet(S), \A o, r \in S : o.side = r.side, S # {}
  PROVE  \E o \in S : \A r \in S \ {o} : Precedes(o, r)
<1> DEFINE Least(o, s) == o \in s /\ \A r \in s \ {o} : Precedes(o, r)
           Q == {s \in SUBSET S : s = {} \/ \E o \in s : Least(o, s)}
<1>1. {} \in Q OBVIOUS
<1>2. ASSUME NEW s \in SUBSET S, s # {}, Rest(s) \in Q PROVE s \in Q
  <2> DEFINE f == First(s)
  <2>1. f \in s /\ Rest(s) = s \ {f} BY <1>2 DEF First, Rest
  <2> HIDE DEF f
  <2>2. CASE Rest(s) = {}
    <3>1. Least(f, s) BY <2>1, <2>2
    <3> QED BY <2>1, <3>1
  <2>3. CASE Rest(s) # {}
    <3>1. PICK o \in Rest(s) : Least(o, Rest(s)) BY <1>2, <2>3
    <3>2. /\ o \in s /\ o # f /\ o \in OrderIndex /\ f \in OrderIndex /\ o.side = f.side
          /\ \A r \in s : r \in OrderIndex /\ r.side = f.side
      BY <2>1, <3>1
    <3>3. CASE Precedes(o, f)
      <4>1. Least(o, s) BY <2>1, <3>1, <3>2, <3>3
      <4> QED BY <3>2, <4>1
    <3>4. CASE Precedes(f, o)
      <4>1. ASSUME NEW r \in s \ {f} PROVE Precedes(f, r)
        <5>1. CASE r = o BY <3>4, <5>1
        <5>2. CASE r # o
          <6>1. Precedes(o, r) BY <2>1, <3>1, <5>2
          <6>2. \A x \in OrderIndex : x.side = f.side /\ Precedes(f, o) /\ Precedes(o, x) => Precedes(f, x)
            BY <3>2, PrecedesTotal
          <6> QED BY <3>2, <3>4, <6>1, <6>2
        <5> QED BY <5>1, <5>2
      <4>2. Least(f, s) BY <2>1, <4>1
      <4> QED BY <2>1, <4>2
    <3> QED BY <3>2, <3>3, <3>4, PrecedesTotal
  <2> QED BY <2>2, <2>3
<1>3. S \in Q
  <2> HIDE DEF Q
  <2>1. \A s \in SUBSET S : s \in Q BY <1>1, <1>2, SubsetInd
  <2> QED BY <2>1
<1> QED BY <1>3

(* A call in hand is never stuck: the iterator over what is left of a side *)
(* yields exactly one order next, and every fill is of a kind commit       *)
(* knows.                                                                  *)
THEOREM CallsAreNeverStuck == Spec => [](pc # "idle" => CanStep)
<1>1. ASSUME IInv, QInv, pc # "idle" PROVE CanStep
  <2>1. pc \in {"scan", "tif", "validate", "commit"} BY <1>1 DEF IInv, TypeOK, NoPanic
  <2>2. CASE pc = "scan" /\ todo # {}
    <3>1. /\ todo \subseteq OrderIndex /\ todo \subseteq DOMAIN book
          /\ \A o, r \in todo : o.side = r.side
      BY <1>1 DEF IInv, TypeOK, TodoInv
    <3>2. IsFiniteSet(todo) BY <1>1, <3>1, FS_Subset DEF QInv
    <3>3. \E o \in todo : \A r \in todo \ {o} : Precedes(o, r) BY <2>2, <3>1, <3>2, FirstExists
    <3> QED BY <2>2, <3>3 DEF CanStep, Yields
  <2>3. CASE pc = "commit" BY <1>1, <2>3 DEF CanStep, IInv, FillsAddUp
  <2> QED BY <2>1, <2>2, <2>3 DEF CanStep
<1> QED BY <1>1, MatchingInvariant, QuantityInvariant, PTL

(* What Work is made of.                                                   *)
LEMMA WorkParts ==
  ASSUME IInv, QInv
  PROVE  /\ IsFiniteSet(todo) /\ Cardinality(todo) \in Nat /\ Len(maker_fills) \in Nat
         /\ pc = "commit" => next \in 1..(Len(maker_fills) + 1)
<1>1. todo \subseteq DOMAIN book BY DEF IInv, TodoInv
<1>2. IsFiniteSet(todo) BY <1>1, FS_Subset DEF QInv
<1>3. Cardinality(todo) \in Nat BY <1>2, FS_CardinalityType
<1>4. Len(maker_fills) \in Nat BY DEF IInv, TypeOK
<1> QED BY <1>2, <1>3, <1>4 DEF IInv, RemInv

LEMMA WorkType == IInv /\ QInv => Work \in Nat
<1> SUFFICES ASSUME IInv, QInv PROVE Work \in Nat OBVIOUS
<1> DEFINE c == Cardinality(todo)
           n == Len(maker_fills)
<1>1. c \in Nat /\ n \in Nat /\ (pc = "commit" => next \in 1..(n + 1)) BY WorkParts
<1>2. Work = CASE pc = "scan" -> 2 * c + n + 4 [] pc = "tif" -> n + 3
               [] pc = "validate" -> n + 2 [] pc = "commit" -> n + 2 - next [] OTHER -> 0
  BY DEF Work
<1> HIDE DEF c, n
<1> QED BY <1>1, <1>2

(* One turn of the scan: a maker less to look at, and at most a fill more. *)
LEMMA ScanWorks ==
  ASSUME IInv, QInv, NEW oix \in todo, SkipMaker(oix) \/ FillMaker(oix)
  PROVE  Work' < Work
<1>1. pc = "scan" /\ pc' = "scan" /\ todo' \in {todo \ {oix}, {}}
  BY DEF SkipMaker, FillMaker
<1>2. Len(maker_fills) \in Nat /\ Len(maker_fills') \in {Len(maker_fills), Len(maker_fills) + 1}
  <2>1. CASE SkipMaker(oix) BY <2>1, WorkParts DEF SkipMaker
  <2>2. CASE FillMaker(oix)
    <3>1. \E e : maker_fills' = Append(maker_fills, e) BY <2>2 DEF FillMaker
    <3>2. maker_fills \in Seq(MakerFill) BY DEF IInv, TypeOK
    <3> QED BY <3>1, <3>2
  <2> QED BY <2>1, <2>2
<1>3. /\ Cardinality(todo) \in Nat /\ Cardinality(todo') \in Nat
      /\ Cardinality(todo') + 1 <= Cardinality(todo)
  <2>1. IsFiniteSet(todo) /\ Cardinality(todo) \in Nat BY WorkParts
  <2>2. Cardinality(todo \ {oix}) = Cardinality(todo) - 1 /\ IsFiniteSet(todo \ {oix})
    BY <2>1, FS_RemoveElement
  <2>3. Cardinality(todo \ {oix}) \in Nat BY <2>2, FS_CardinalityType
  <2>4. Cardinality({}) = 0 BY FS_EmptySet
  <2>5. CASE todo' = todo \ {oix} BY <2>1, <2>2, <2>3, <2>5
  <2>6. CASE todo' = {}
    <3>1. Cardinality(todo) >= 1 BY <2>1, <2>2, <2>3
    <3> QED BY <2>1, <2>4, <2>6, <3>1
  <2> QED BY <1>1, <2>5, <2>6
<1> DEFINE c == Cardinality(todo)
           n == Len(maker_fills)
           d == Cardinality(todo')
           k == Len(maker_fills')
<1>4. Work = 2 * c + n + 4 /\ Work' = 2 * d + k + 4 BY <1>1 DEF Work
<1> HIDE DEF c, n, d, k
<1>5. c \in Nat /\ d \in Nat /\ n \in Nat /\ k \in {n, n + 1} /\ d + 1 <= c
  BY <1>2, <1>3 DEF c, n, d, k
<1> QED BY <1>4, <1>5

(* Each step of a call brings its end closer: the loops of try_fill_orders *)
(* and commit are bounded by the orders of the maker side, for books and   *)
(* orders of every size, and do_place_order returns.                       *)
THEOREM CallsWindDown == Spec => [][pc # "idle" => Work \in Nat /\ Work' \in Nat /\ Work' < Work]_vars
<1>1. ASSUME IInv, QInv, IInv', QInv', [Next]_vars, pc # "idle"
      PROVE  Work' < Work \/ UNCHANGED vars
  <2> DEFINE c == Cardinality(todo)
             n == Len(maker_fills)
  <2>1. n \in Nat /\ c \in Nat /\ (pc = "commit" => next \in 1..(n + 1)) BY <1>1, WorkParts
  <2>2. pc # "panic" BY <1>1 DEF IInv, NoPanic
  <2>3. ASSUME pc \in {"tif", "validate", "commit"}, pc' \in {"idle", "panic"} PROVE Work' < Work
    <3>1. Work' = 0 BY <2>3 DEF Work
    <3>2. Work \in {n + 3, n + 2} \/ (Work = n + 2 - next /\ next \in 1..(n + 1))
      BY <2>1, <2>3 DEF Work
    <3> HIDE DEF n
    <3> QED BY <2>1, <3>1, <3>2
  <2>4. ASSUME NEW oix \in todo, SkipMaker(oix) \/ FillMaker(oix) PROVE Work' < Work
    BY <1>1, <2>4, ScanWorks
  <2>5. CASE EndScan
    <3>1. pc = "scan" /\ pc' = "tif" /\ maker_fills' = maker_fills BY <2>5 DEF EndScan
    <3>2. Work = 2 * c + n + 4 /\ Work' = n + 3 BY <3>1 DEF Work
    <3> HIDE DEF n, c
    <3> QED BY <2>1, <3>2
  <2>6. CASE EnforceTimeInForce
    <3>1. pc = "tif" /\ (pc' = "idle" \/ (pc' = "validate" /\ maker_fills' = maker_fills))
      BY <2>6 DEF EnforceTimeInForce, Answer, locals
    <3>2. CASE pc' = "validate"
      <4>1. Work = n + 3 /\ Work' = n + 2 BY <3>1, <3>2 DEF Work
      <4> HIDE DEF n
      <4> QED BY <2>1, <4>1
    <3> QED BY <2>3, <3>1, <3>2
  <2>7. CASE Validate
    <3>1. pc = "validate" /\ (pc' = "idle" \/ (pc' = "commit" /\ maker_fills' = maker_fills /\ next' = next))
      BY <2>7 DEF Validate, Answer
    <3>2. CASE pc' = "commit"
      <4>1. Work = n + 2 /\ Work' = n + 2 - next BY <3>1, <3>2 DEF Work
      <4>2. next = 1 BY <1>1, <3>1 DEF IInv, RemInv
      <4> HIDE DEF n
      <4> QED BY <2>1, <4>1, <4>2
    <3> QED BY <2>3, <3>1, <3>2
  <2>8. CASE CommitComplete \/ CommitPartial
    <3>1. pc = "commit" /\ (pc' \in {"idle", "panic"}
                            \/ (pc' = "commit" /\ maker_fills' = maker_fills /\ next' = next + 1))
      BY <2>8 DEF CommitComplete, CommitPartial, Answer, Panic
    <3>2. CASE pc' = "commit"
      <4>1. Work = n + 2 - next /\ Work' = n + 2 - (next + 1) BY <3>1, <3>2 DEF Work
      <4>2. next \in 1..(n + 1) BY <2>1, <3>1
      <4> HIDE DEF n
      <4> QED BY <2>1, <4>1, <4>2
    <3> QED BY <2>3, <3>1, <3>2
  <2>9. CASE Settle
    <3>1. pc = "commit" /\ pc' \in {"idle", "panic"} BY <2>9 DEF Settle, Answer, Panic
    <3> QED BY <2>3, <3>1
  <2>10. ASSUME NEW o \in PlaceOrder, Receive(o) PROVE FALSE BY <1>1, <2>10 DEF Receive
  <2> QED BY <1>1, <2>4, <2>5, <2>6, <2>7, <2>8, <2>9, <2>10 DEF Next, Step
<1>2. IInv' /\ QInv' => (Work \in Nat)' BY WorkType, PTL
<1>3. IInv /\ QInv /\ IInv' /\ QInv' /\ [Next]_vars
        => [pc # "idle" => Work \in Nat /\ Work' \in Nat /\ Work' < Work]_vars
  BY <1>1, <1>2, WorkType
<1> QED BY <1>3, MatchingInvariant, QuantityInvariant, PTL DEF Spec
-----------------------------------------------------------------------------
(* The atomic place order never crosses a book, whatever book it is given: *)
(* what the replay of a log, with rows missing or out of order, needs.     *)
Uncrossed(b) ==
    \A bid, ask \in DOMAIN b : bid.side = "Buy" /\ ask.side = "Sell" => bid.price < ask.price
SoundBook(b) ==
    /\ DOMAIN b \subseteq OrderIndex /\ IsFiniteSet(DOMAIN b)
    /\ \A o \in DOMAIN b : b[o] \in Quantity
    /\ Uncrossed(b)

(* What an order takes from a resting one is a number.                     *)
LEMMA TakenType ==
  ASSUME NEW b, SoundBook(b), NEW taker \in PlaceOrder, NEW o \in DOMAIN b
  PROVE  Taken(b, taker, o) \in Nat
<1> DEFINE A == {r \in Eligible(b, taker) : Precedes(r, o)}
<1>1. IsFiniteSet(A) /\ \A r \in A : b[r] \in Nat
  BY FS_Subset DEF SoundBook, Eligible, Quantity
<1>2. TotalQuantity(b, A) \in Nat
  <2> HIDE DEF A
  <2> QED BY <1>1, TotalType
<1>3. taker.quantity \in Nat /\ b[o] \in Nat
  BY QuantitiesAssumption DEF PlaceOrder, SoundBook, Quantity
<1>4. CASE o \in Eligible(b, taker) /\ TotalQuantity(b, A) < taker.quantity
  <2>1. Taken(b, taker, o) = Min({b[o], taker.quantity - TotalQuantity(b, A)}) BY <1>4 DEF Taken
  <2>2. taker.quantity - TotalQuantity(b, A) \in Nat BY <1>2, <1>3, <1>4
  <2> HIDE DEF A
  <2> QED BY <1>3, <2>1, <2>2, MinOfTwo
<1>5. CASE ~(o \in Eligible(b, taker) /\ TotalQuantity(b, A) < taker.quantity)
  BY <1>5 DEF Taken
<1> QED BY <1>4, <1>5

(* An order that is not filled has taken all of every order it may trade   *)
(* with.                                                                   *)
LEMMA UnfilledTakesAll ==
  ASSUME NEW b, SoundBook(b), NEW taker \in PlaceOrder,
         taker.quantity - Filled(b, taker) > 0, NEW o \in Eligible(b, taker)
  PROVE  Taken(b, taker, o) = b[o]
<1> DEFINE E == Eligible(b, taker)
           A == {r \in E : Precedes(r, o)}
<1>1. IsFiniteSet(E) /\ (\A r \in E : b[r] \in Nat) /\ E \subseteq OrderIndex
      /\ \A r \in E : r.side = MakerSide(taker.side)
  BY FS_Subset DEF SoundBook, Eligible, Quantity
<1>2. taker.quantity \in Nat /\ b[o] \in Nat
  BY <1>1, QuantitiesAssumption DEF PlaceOrder
<1>3. ~Precedes(o, o) BY <1>1, PrecedesStrict
<1>4. A \in SUBSET (E \ {o}) BY <1>3
<1>5. IsFiniteSet(E \ {o}) /\ IsFiniteSet(A) BY <1>1, <1>4, FS_Subset
<1>6. Filled(b, taker) = Min({taker.quantity, TotalQuantity(b, E)}) BY DEF Filled
<1> HIDE DEF E, A
<1>7. o \in E BY DEF E
<1>8. /\ TotalQuantity(b, E) \in Nat /\ TotalQuantity(b, E \ {o}) \in Nat
      /\ TotalQuantity(b, A) \in Nat
  BY <1>1, <1>4, <1>5, TotalType
<1>9. TotalQuantity(b, E) = b[o] + TotalQuantity(b, E \ {o}) BY <1>1, <1>7, TotalRemove
<1>10. TotalQuantity(b, A) <= TotalQuantity(b, E \ {o}) BY <1>1, <1>4, <1>5, TotalGrows
<1>11. TotalQuantity(b, E) < taker.quantity
  <2>1. Filled(b, taker) = IF taker.quantity <= TotalQuantity(b, E) THEN taker.quantity
                           ELSE TotalQuantity(b, E)
    BY <1>2, <1>6, <1>8, MinOfTwo
  <2> QED BY <1>2, <1>8, <2>1
<1>12. b[o] <= taker.quantity - TotalQuantity(b, A) /\ TotalQuantity(b, A) < taker.quantity
  BY <1>2, <1>8, <1>9, <1>10, <1>11
<1>13. Taken(b, taker, o) = Min({b[o], taker.quantity - TotalQuantity(b, A)})
  BY <1>7, <1>12 DEF Taken, E, A
<1>14. taker.quantity - TotalQuantity(b, A) \in Int BY <1>2, <1>8
<1> QED BY <1>2, <1>12, <1>13, <1>14, MinOfTwo

(* The book that trading leaves is sound, and offers nothing more to an    *)
(* order that is not filled.                                               *)
LEMMA TradedSound ==
  ASSUME NEW b, SoundBook(b), NEW taker \in PlaceOrder
  PROVE  /\ SoundBook(Traded(b, taker))
         /\ taker.quantity - Filled(b, taker) > 0 => Eligible(Traded(b, taker), taker) = {}
<1> DEFINE t == Traded(b, taker)
<1>1. /\ DOMAIN t = {o \in DOMAIN b : Taken(b, taker, o) < b[o]}
      /\ \A o \in DOMAIN t : t[o] = b[o] - Taken(b, taker, o)
  BY DEF Traded
<1> HIDE DEF t
<1>2. DOMAIN t \subseteq OrderIndex /\ IsFiniteSet(DOMAIN t) BY <1>1, FS_Subset DEF SoundBook
<1>3. ASSUME NEW o \in DOMAIN t PROVE t[o] \in Quantity
  <2>1. b[o] \in Nat /\ Taken(b, taker, o) \in Nat BY <1>1, TakenType DEF SoundBook, Quantity
  <2> QED BY <1>1, <2>1 DEF Quantity
<1>4. Uncrossed(t) BY <1>1 DEF SoundBook, Uncrossed
<1>5. ASSUME taker.quantity - Filled(b, taker) > 0, NEW o \in Eligible(t, taker) PROVE FALSE
  <2>1. o \in Eligible(b, taker) /\ o \in DOMAIN t BY <1>1, <1>5 DEF Eligible
  <2>2. Taken(b, taker, o) = b[o] BY <1>5, <2>1, UnfilledTakesAll
  <2>3. b[o] \in Nat BY <1>1, <2>1 DEF SoundBook, Quantity
  <2> QED BY <1>1, <2>1, <2>2, <2>3
<1> QED BY <1>2, <1>3, <1>4, <1>5 DEF t, SoundBook

(* do_place_order keeps a book sound.                                      *)
LEMMA PlaceKeepsSound ==
  ASSUME NEW b, SoundBook(b), NEW m \in [OrderSide -> [Prices -> Memo]], NEW taker \in PlaceOrder
  PROVE  SoundBook(do_place_order(b, m, taker).book)
<1> DEFINE t == Traded(b, taker)
           left == taker.quantity - Filled(b, taker)
           memos == ForgetEmpty(m, t)
           oix == [side |-> taker.side, price |-> taker.price, memo |-> memos[taker.side][taker.price]]
           after == do_place_order(b, m, taker).book
<1>1. after \in {b, t} \/ (left > 0 /\ after = WithOrder(t, oix, left)) BY DEF do_place_order
<1>2. SoundBook(t) /\ (left > 0 => Eligible(t, taker) = {}) BY TradedSound
<1>3. ASSUME left > 0 PROVE SoundBook(WithOrder(t, oix, left))
  <2>1. taker.side \in OrderSide /\ taker.price \in Prices /\ taker.quantity \in Nat
    BY QuantitiesAssumption DEF PlaceOrder
  <2>2. memos[taker.side][taker.price] \in Memo
    <3>1. memos[taker.side][taker.price] \in {m[taker.side][taker.price], 0}
      BY <2>1 DEF ForgetEmpty
    <3>2. m[taker.side][taker.price] \in Memo /\ 0 \in Memo BY <2>1, MemoMaxAssumption DEF Memo
    <3> QED BY <3>1, <3>2
  <2>3. left \in Quantity
    <3> DEFINE T == TotalQuantity(b, Eligible(b, taker))
    <3>1. IsFiniteSet(Eligible(b, taker)) /\ \A o \in Eligible(b, taker) : b[o] \in Nat
      BY FS_Subset DEF SoundBook, Eligible, Quantity
    <3>2. T \in Nat BY <3>1, TotalType
    <3>3. Filled(b, taker) = Min({taker.quantity, T}) BY DEF Filled
    <3> HIDE DEF T
    <3>4. Filled(b, taker) \in Nat BY <2>1, <3>2, <3>3, MinOfTwo
    <3> QED BY <1>3, <2>1, <3>4 DEF Quantity
  <2>4. oix \in OrderIndex /\ oix.side = taker.side /\ oix.price = taker.price
    BY <2>1, <2>2 DEF OrderIndex
  <2> DEFINE w == WithOrder(t, oix, left)
  <2> HIDE DEF t, left, memos, oix
  <2>5. /\ DOMAIN w = DOMAIN t \union {oix}
        /\ \A o \in DOMAIN w : w[o] = IF o = oix THEN left ELSE t[o]
    BY DEF WithOrder
  <2> HIDE DEF w
  <2>6. DOMAIN w \subseteq OrderIndex /\ IsFiniteSet(DOMAIN w)
    BY <1>2, <2>4, <2>5, FS_AddElement DEF SoundBook
  <2>7. \A o \in DOMAIN w : w[o] \in Quantity BY <1>2, <2>3, <2>5 DEF SoundBook
  <2>8. \A o \in DOMAIN t : o.side = MakerSide(taker.side) => ~MeetsPrice(taker, o.price)
    BY <1>2, <1>3 DEF Eligible
  <2>9. \A p \in Prices : p \in Int BY PricesAssumption
  <2>10. ASSUME NEW bid \in DOMAIN w, NEW ask \in DOMAIN w, bid.side = "Buy", ask.side = "Sell"
         PROVE  bid.price < ask.price
    <3>1. bid \in OrderIndex /\ ask \in OrderIndex BY <2>6
    <3>2. bid.price \in Int /\ ask.price \in Int BY <2>9, <3>1 DEF OrderIndex
    <3>3. CASE bid \in DOMAIN t /\ ask \in DOMAIN t BY <1>2, <2>10, <3>3 DEF SoundBook, Uncrossed
    <3>4. CASE bid = oix /\ ask \in DOMAIN t
      BY <2>4, <2>8, <2>10, <3>2, <3>4 DEF MakerSide, MeetsPrice
    <3>5. CASE ask = oix /\ bid \in DOMAIN t
      BY <2>4, <2>8, <2>10, <3>2, <3>5 DEF MakerSide, MeetsPrice
    <3> QED BY <2>5, <2>10, <3>3, <3>4, <3>5
  <2> QED BY <2>6, <2>7, <2>10 DEF w, SoundBook, Uncrossed
<1> HIDE DEF t, left, memos, oix, after
<1>4. SoundBook(after) BY <1>1, <1>2, <1>3
<1> QED BY <1>4 DEF after
=============================================================================
