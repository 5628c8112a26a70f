---------------------------- MODULE FundsProofs ----------------------------
(***************************************************************************)
(* Proofs about Funds, for any number of users and requests, any amounts   *)
(* and any channel capacity: a reservation is put back at most once, a     *)
(* client that is told Ok has paid for a live order, and an order without  *)
(* funds, funds without an order and an overdrawn account have one of the  *)
(* named causes.                                                           *)
(*                                                                         *)
(* None of these is inductive.  The strengthening of the first four says,  *)
(* for each await a handler can be at, which of its effects exist          *)
(* (Handler), and that the engine only ever touches the orders that are    *)
(* queued, each once (Channel); balances play no part in it.               *)
(*                                                                         *)
(* For the overdrafts, BInv adds that an INSERT under way, awaited or left *)
(* behind, is covered by the balance as it now is.  The balance is a sum   *)
(* over a set, whose value is found by induction on the number of its      *)
(* elements (SubsetInd).                                                   *)
(***************************************************************************)
EXTENDS Funds, FiniteSetTheorems, WellFoundedInduction, TLAPS

Types ==
    /\ pc \in [Requests -> Awaits \union {"idle", "done"}]
    /\ reserved \in [Requests -> BOOLEAN]
    /\ reverted \in [Requests -> Nat]
    /\ queue \in Seq(Requests)
    /\ order \in [Requests -> {"none", "queued", "live", "refused", "late"}]
    /\ resp \in [Requests -> {"none", "Ok", "Err", "Database", "Dropped"}]
    /\ told \in [Requests -> {"none", "Ok", "Err", "Timeout", "Panic", "Lost"}]
    /\ reverts \subseteq Requests
    /\ lateReserve \subseteq Requests
    /\ lateRevert \subseteq Requests

Untouched(r) ==
    /\ reverted[r] = 0 /\ r \notin reverts /\ told[r] = "none"
    /\ r \notin lateReserve /\ r \notin lateRevert

(* What exists of request r at each await of its handler.                  *)
Handler(r) ==
    /\ pc[r] \in {"idle", "read", "insert"} =>
          Untouched(r) /\ ~reserved[r] /\ order[r] = "none" /\ resp[r] = "none"
    /\ pc[r] \in {"reread", "send", "revert"} =>
          Untouched(r) /\ reserved[r] /\ order[r] = "none" /\ resp[r] = "none"
    /\ pc[r] = "wait" =>
          /\ Untouched(r) /\ reserved[r] /\ order[r] # "late"
          /\ resp[r] # "none" =>
                order[r] # "queued" /\ (order[r] = "live" => resp[r] \in {"Ok", "Database"})
    /\ pc[r] = "done" =>
          /\ reverted[r] \in {0, 1}
          /\ r \in lateReserve =>
                /\ ~reserved[r] /\ reverted[r] = 0 /\ r \notin reverts /\ r \notin lateRevert
                /\ told[r] \in {"Timeout", "Panic", "Lost"} /\ resp[r] = "none" /\ order[r] = "none"
          /\ r \in reverts => reverted[r] = 0 /\ reserved[r] /\ r \notin lateRevert
          /\ r \in lateRevert => reverted[r] = 0 /\ reserved[r]
          /\ reverted[r] = 1 => reserved[r]
          /\ told[r] = "Ok" =>
                /\ reserved[r] /\ reverted[r] = 0 /\ r \notin reverts /\ r \notin lateRevert
                /\ order[r] = "live" /\ resp[r] = "Ok"
          /\ reverted[r] = 1 \/ r \in reverts \/ r \in lateRevert =>
                \/ told[r] = "Timeout"
                \/ order[r] # "queued" /\ (order[r] \in {"live", "late"} => resp[r] = "Database")
          /\ reserved[r] /\ reverted[r] = 0 /\ r \notin reverts /\ r \notin failed =>
                \/ told[r] = "Ok"
                \/ told[r] \in {"Timeout", "Panic", "Lost"} /\ resp[r] = "none" /\ order[r] = "none"

(* The channel holds exactly the queued orders, each once, and an order    *)
(* that was answered Ok is live.                                           *)
Channel ==
    /\ \A i \in 1..Len(queue) : order[queue[i]] = "queued"
    /\ \A i, j \in 1..Len(queue) : queue[i] = queue[j] => i = j
    /\ \A r \in Requests : resp[r] = "Ok" => order[r] = "live"

FInv == Types /\ Channel /\ \A r \in Requests : Handler(r)

(* The invariant holds initially: nothing has been requested.              *)
LEMMA FInvInit == Init => FInv
  BY DEF Init, FInv, Types, Channel, Handler, Untouched, Awaits

(* A step of r's handler or revert task leaves the others and the channel  *)
(* alone.                                                                  *)
Frame(r) ==
    /\ UNCHANGED market
    /\ \A q \in Requests \ {r} :
          /\ pc'[q] = pc[q] /\ told'[q] = told[q]
          /\ reserved'[q] = reserved[q] /\ reverted'[q] = reverted[q]
          /\ (q \in reverts') <=> (q \in reverts)
          /\ (q \in failed') <=> (q \in failed)
          /\ (q \in lateReserve') <=> (q \in lateReserve)
          /\ (q \in lateRevert') <=> (q \in lateRevert)

(* What is left to show of such a step: its own request.                   *)
LEMMA FInvHandlers ==
  ASSUME FInv, NEW r \in Requests, Types', Handler(r)', Frame(r)
  PROVE  FInv'
<1>1. Channel'
  BY DEF FInv, Channel, Frame, market
<1>2. ASSUME NEW q \in Requests PROVE Handler(q)'
  <2>1. CASE q = r BY <2>1
  <2>2. CASE q # r BY <2>2 DEF FInv, Handler, Untouched, Frame, market
  <2> QED BY <2>1, <2>2
<1> QED BY <1>1, <1>2 DEF FInv

(* The handler of a request that is still to be sent.                      *)
LEMMA FInvReserve ==
  ASSUME FInv, NEW r \in Requests,
         \/ \E a \in Amounts : Start(r, a)
         \/ ReadBalance(r) \/ InsertReserve(r) \/ RereadBalance(r) \/ ReserveFails(r)
         \/ SendErr(r)
  PROVE  FInv'
<1>1. Types' /\ Handler(r)' /\ Frame(r)
  <2> USE DEF FInv, Types, Handler, Untouched, Frame, Awaits, money, market, late, End
  <2>1. CASE \E a \in Amounts : Start(r, a)
    <3>1. Types' BY <2>1 DEF Start
    <3>2. Handler(r)' BY <2>1, <3>1 DEF Start
    <3>3. Frame(r) BY <2>1 DEF Start
    <3> QED BY <3>1, <3>2, <3>3
  <2>2. CASE ReadBalance(r)
    <3>1. Types' BY <2>2 DEF ReadBalance
    <3>2. Handler(r)' BY <2>2, <3>1 DEF ReadBalance
    <3>3. Frame(r) BY <2>2 DEF ReadBalance
    <3> QED BY <3>1, <3>2, <3>3
  <2>3. CASE InsertReserve(r)
    <3>1. Types' BY <2>3 DEF InsertReserve
    <3>2. Handler(r)' BY <2>3, <3>1 DEF InsertReserve
    <3>3. Frame(r) BY <2>3 DEF InsertReserve
    <3> QED BY <3>1, <3>2, <3>3
  <2>4. CASE RereadBalance(r)
    <3>1. Types' BY <2>4 DEF RereadBalance
    <3>2. Handler(r)' BY <2>4, <3>1 DEF RereadBalance
    <3>3. Frame(r) BY <2>4 DEF RereadBalance
    <3> QED BY <3>1, <3>2, <3>3
  <2>5. CASE ReserveFails(r)
    <3>1. Types' BY <2>5 DEF ReserveFails
    <3>2. Handler(r)' BY <2>5, <3>1 DEF ReserveFails
    <3>3. Frame(r) BY <2>5 DEF ReserveFails
    <3> QED BY <3>1, <3>2, <3>3
  <2>6. CASE SendErr(r)
    <3>1. Types' BY <2>6 DEF SendErr
    <3>2. Handler(r)' BY <2>6, <3>1 DEF SendErr
    <3>3. Frame(r) BY <2>6 DEF SendErr
    <3> QED BY <3>1, <3>2, <3>3
  <2> QED BY <2>1, <2>2, <2>3, <2>4, <2>5, <2>6
<1> QED BY <1>1, FInvHandlers

(* A revert row more is still a count.                                     *)
LEMMA CountUp ==
  ASSUME NEW f \in [Requests -> Nat], NEW r \in Requests
  PROVE  [f EXCEPT ![r] = @ + 1] \in [Requests -> Nat]
  OBVIOUS

(* The ways a reservation is put back, and the answer that keeps it.       *)
LEMMA FInvEnd ==
  ASSUME FInv, NEW r \in Requests,
         \/ RevertInline(r) \/ Respond(r) \/ RevertTask(r) \/ Timeout(r)
         \/ ReserveLands(r) \/ RevertLands(r)
  PROVE  FInv'
<1>1. Types'
  <2> USE DEF FInv, Types, Awaits, money, market, late, End
  <2>1. CASE RevertInline(r)
    <3>1. reverted' \in [Requests -> Nat]
      <4>1. reverted \in [Requests -> Nat] /\ [reverted EXCEPT ![r] = @ + 1] \in [Requests -> Nat]
        BY CountUp
      <4>2. reverted' = [reverted EXCEPT ![r] = @ + 1] \/ reverted' = reverted
        BY <2>1 DEF RevertInline, revert
      <4> QED BY <4>1, <4>2
    <3>2. pc' = [pc EXCEPT ![r] = "done"] /\ told' = [told EXCEPT ![r] = "Err"]
      BY <2>1 DEF RevertInline
    <3>3. lateRevert' \subseteq Requests
      BY <2>1 DEF RevertInline, revert
    <3> QED BY <2>1, <3>1, <3>2, <3>3 DEF RevertInline
  <2>2. CASE Respond(r)
    <3>1. /\ pc' = [pc EXCEPT ![r] = "done"]
          /\ told' \in [Requests -> {"none", "Ok", "Err", "Timeout", "Panic", "Lost"}]
          /\ reverts' \subseteq Requests
      BY <2>2 DEF Respond
    <3> QED BY <2>2, <3>1 DEF Respond
  <2>3. CASE RevertTask(r)
    <3>1. reverted' = [reverted EXCEPT ![r] = @ + 1] \/ reverted' = reverted
      BY <2>3 DEF RevertTask, revert
    <3>2. reverted' \in [Requests -> Nat]
      BY <3>1, CountUp
    <3>3. lateRevert' \subseteq Requests
      BY <2>3 DEF RevertTask, revert
    <3> QED BY <2>3, <3>2, <3>3 DEF RevertTask
  <2>4. CASE Timeout(r)
    <3>1. reverts' \subseteq Requests /\ lateReserve' \subseteq Requests /\ lateRevert' \subseteq Requests
      BY <2>4 DEF Timeout
    <3> QED BY <2>4, <3>1 DEF Timeout
  <2>5. CASE ReserveLands(r)
    BY <2>5 DEF ReserveLands
  <2>6. CASE RevertLands(r)
    <3>1. reverted' \in [Requests -> Nat]
      BY <2>6, CountUp DEF RevertLands
    <3> QED BY <2>6, <3>1 DEF RevertLands
  <2> QED BY <2>1, <2>2, <2>3, <2>4, <2>5, <2>6
<1>2. Handler(r)' /\ Frame(r)
  <2> USE DEF FInv, Types, Handler, Untouched, Frame, Awaits, money, market, late, End
  <2>1. CASE RevertInline(r)
    <3>1. Handler(r)' BY <2>1, <1>1 DEF RevertInline, revert
    <3>2. Frame(r) BY <2>1 DEF RevertInline, revert
    <3> QED BY <3>1, <3>2
  <2>2. CASE Respond(r)
    <3>1. Handler(r)' BY <2>2, <1>1 DEF Respond, Channel
    <3>2. Frame(r) BY <2>2 DEF Respond, Channel
    <3> QED BY <3>1, <3>2
  <2>3. CASE RevertTask(r)
    <3>1. Handler(r)' BY <2>3, <1>1 DEF RevertTask, revert
    <3>2. Frame(r) BY <2>3 DEF RevertTask, revert
    <3> QED BY <3>1, <3>2
  <2>4. CASE Timeout(r)
    <3>1. Handler(r)' BY <2>4, <1>1 DEF Timeout, InFlight
    <3>2. Frame(r) BY <2>4 DEF Timeout, InFlight
    <3> QED BY <3>1, <3>2
  <2>5. CASE ReserveLands(r)
    <3>1. pc[r] = "done" BY <2>5 DEF ReserveLands
    <3>2. Handler(r)' BY <2>5, <3>1, <1>1 DEF ReserveLands
    <3>3. Frame(r) BY <2>5 DEF ReserveLands
    <3> QED BY <3>2, <3>3
  <2>6. CASE RevertLands(r)
    <3>1. pc[r] = "done" BY <2>6 DEF RevertLands
    <3>2. Handler(r)' BY <2>6, <3>1, <1>1 DEF RevertLands
    <3>3. Frame(r) BY <2>6 DEF RevertLands
    <3> QED BY <3>2, <3>3
  <2> QED BY <2>1, <2>2, <2>3, <2>4, <2>5, <2>6
<1> QED BY <1>1, <1>2, FInvHandlers

(* An order that is sent was not in the channel.                           *)
LEMMA FInvSend ==
  ASSUME FInv, NEW r \in Requests, SendOk(r)
  PROVE  FInv'
<1> USE DEF FInv, Types, Untouched, Awaits, money, late, SendOk
<1>1. order[r] = "none" BY DEF Handler
<1>2. Types' OBVIOUS
<1>3. Channel'
  <2>1. Len(queue') = Len(queue) + 1 /\ queue'[Len(queue) + 1] = r
    OBVIOUS
  <2>2. \A i \in 1..Len(queue) : queue'[i] = queue[i] /\ queue[i] # r /\ queue[i] \in Requests
    BY <1>1 DEF Channel
  <2>3. \A i \in 1..Len(queue') : i \in 1..Len(queue) \/ i = Len(queue) + 1
    BY <2>1
  <2>4. \A i \in 1..Len(queue') : order'[queue'[i]] = "queued"
    BY <2>1, <2>2, <2>3 DEF Channel
  <2>5. \A i, j \in 1..Len(queue') : queue'[i] = queue'[j] => i = j
    BY <2>1, <2>2, <2>3 DEF Channel
  <2> QED BY <2>4, <2>5, <1>1 DEF Channel
<1>4. ASSUME NEW q \in Requests PROVE Handler(q)'
  BY DEF Handler
<1> QED BY <1>2, <1>3, <1>4

(* The engine changes only an order that is queued, and takes it once.     *)
LEMMA FInvEngine ==
  ASSUME FInv, EngineTakes \/ EngineStops
  PROVE  FInv'
<1> USE DEF FInv, Types, money, late
<1>1. CASE EngineTakes
  <2> DEFINE h == Head(queue)
  <2>1. h \in Requests /\ h = queue[1] /\ order[h] = "queued" /\ 1 \in 1..Len(queue)
    BY <1>1 DEF EngineTakes, Channel
  <2>2. Len(queue') = Len(queue) - 1 /\ \A i \in 1..Len(queue') :
            /\ queue'[i] = queue[i + 1] /\ i + 1 \in 1..Len(queue) /\ queue[i + 1] # h
    BY <1>1, <2>1 DEF EngineTakes, Channel
  <2>3. Types'
    <3>1. queue' \in Seq(Requests) BY <1>1 DEF EngineTakes
    <3>2. order' \in [Requests -> {"none", "queued", "live", "refused", "late"}]
      BY <1>1 DEF EngineTakes
    <3>3. resp' \in [Requests -> {"none", "Ok", "Err", "Database", "Dropped"}]
      BY <1>1 DEF EngineTakes
    <3> QED BY <1>1, <3>1, <3>2, <3>3 DEF EngineTakes
  <2>4. \A q \in Requests \ {h} : order'[q] = order[q] /\ resp'[q] = resp[q]
    BY <1>1, <2>1 DEF EngineTakes
  <2>5. /\ resp'[h] = "Ok" => order'[h] = "live"
        /\ order'[h] \notin {"queued", "late"} /\ (order'[h] = "live" => resp'[h] \in {"Ok", "Database"})
    BY <1>1, <2>1 DEF EngineTakes
  <2>6. Channel'
    <3>1. \A i \in 1..Len(queue') : order'[queue'[i]] = "queued"
      <4> SUFFICES ASSUME NEW i \in 1..Len(queue') PROVE order'[queue'[i]] = "queued"
        OBVIOUS
      <4>1. queue'[i] = queue[i + 1] /\ i + 1 \in 1..Len(queue) /\ queue[i + 1] # h
        BY <2>2
      <4>2. queue[i + 1] \in Requests \ {h}
        BY <4>1
      <4>3. order[queue[i + 1]] = "queued"
        BY <4>1 DEF Channel
      <4> HIDE DEF h
      <4> QED BY <4>1, <4>2, <4>3, <2>4
    <3>2. \A i, j \in 1..Len(queue') : queue'[i] = queue'[j] => i = j
      <4> SUFFICES ASSUME NEW i \in 1..Len(queue'), NEW j \in 1..Len(queue'),
                          queue'[i] = queue'[j]
                   PROVE  i = j
        OBVIOUS
      <4>1. queue[i + 1] = queue[j + 1] /\ i + 1 \in 1..Len(queue) /\ j + 1 \in 1..Len(queue)
        BY <2>2
      <4>2. i + 1 = j + 1
        BY <4>1 DEF Channel
      <4> QED BY <4>2
    <3>3. \A r \in Requests : resp'[r] = "Ok" => order'[r] = "live"
      <4> HIDE DEF h
      <4> QED BY <2>4, <2>5 DEF Channel
    <3> QED BY <3>1, <3>2, <3>3 DEF Channel
  <2>7. ASSUME NEW q \in Requests PROVE Handler(q)'
    <3>1. UNCHANGED <<pc, told, reserved, reverted, reverts, failed, lateReserve, lateRevert>>
      BY <1>1 DEF EngineTakes
    <3> HIDE DEF h
    <3>2. CASE q = h
      BY <3>1, <3>2, <2>1, <2>5 DEF Handler, Untouched
    <3>3. CASE q # h
      BY <3>1, <3>3, <2>4 DEF Handler, Untouched
    <3> QED BY <3>2, <3>3
  <2> QED BY <2>3, <2>6, <2>7
<1>2. CASE EngineStops
  <2>1. Types' BY <1>2 DEF EngineStops
  <2>2. Channel' BY <1>2 DEF EngineStops, Channel
  <2>3. ASSUME NEW q \in Requests PROVE Handler(q)'
    BY <1>2 DEF EngineStops, Handler, Untouched
  <2> QED BY <2>1, <2>2, <2>3
<1> QED BY <1>1, <1>2

(* The log row of an order that an earlier life executed lands.            *)
LEMMA FInvLogLands ==
  ASSUME FInv, NEW r \in Requests, LogLands(r)
  PROVE  FInv'
<1> USE DEF FInv, Types, money, late
<1>1. PICK fate \in {"live", "refused"} : order' = [order EXCEPT ![r] = fate]
  BY DEF LogLands
<1>2. order[r] = "late" /\ UNCHANGED <<pc, told, reserved, reverted, reverts, failed, lateReserve, lateRevert, resp, queue>>
  BY DEF LogLands
<1>3. Types'
  BY <1>1, <1>2
<1>4. Channel'
  BY <1>1, <1>2 DEF Channel
<1>5. ASSUME NEW q \in Requests PROVE Handler(q)'
  <2>1. CASE q # r
    BY <2>1, <1>1, <1>2 DEF Handler, Untouched
  <2>2. CASE q = r
    <3>1. pc[r] = "done" BY <1>2 DEF Handler, Awaits
    <3> QED BY <3>1, <2>2, <1>1, <1>2 DEF Handler
  <2> QED BY <2>1, <2>2
<1> QED BY <1>3, <1>4, <1>5

(* The end of the process ends every handler; the orders it takes away     *)
(* were queued, or answered "Database".                                    *)
LEMMA FInvProcess ==
  ASSUME FInv, ProcessDies \/ Restart
  PROVE  FInv'
<1> USE DEF FInv, Types, money, late
<1>1. CASE ProcessDies
  <2>1. /\ queue' = <<>> /\ reverts' = {}
        /\ pc' = [r \in Requests |-> IF InFlight(r) THEN "done" ELSE pc[r]]
        /\ told' = [r \in Requests |-> IF InFlight(r) THEN "Lost" ELSE told[r]]
        /\ resp' = [r \in Requests |-> IF order[r] = "queued" THEN "Dropped" ELSE resp[r]]
        /\ failed' = failed \union reverts \union {r \in Requests : pc[r] = "wait"}
    BY <1>1 DEF ProcessDies
  <2>2. /\ UNCHANGED <<reserved, reverted>>
        /\ lateReserve' = lateReserve \union {r \in Requests : pc[r] = "insert"}
        /\ lateRevert' = lateRevert \union {r \in Requests : pc[r] = "revert"} \union reverts
    BY <1>1 DEF ProcessDies
  <2>3. PICK fate \in {"none", "late"}, unlogged \in SUBSET {r \in Requests : resp[r] = "Database"} :
          order' = [r \in Requests |->
                      IF order[r] = "queued" THEN (IF r = queue[1] THEN fate ELSE "none")
                      ELSE IF r \in unlogged THEN "late" ELSE order[r]]
    BY <1>1 DEF ProcessDies
  <2>4. Types'
    <3>1. pc' \in [Requests -> Awaits \union {"idle", "done"}]
      BY <2>1
    <3>2. lateReserve' \subseteq Requests /\ lateRevert' \subseteq Requests
      BY <2>2
    <3>3. order' \in [Requests -> {"none", "queued", "live", "refused", "late"}]
      BY <2>3
    <3>4. /\ resp' \in [Requests -> {"none", "Ok", "Err", "Database", "Dropped"}]
          /\ told' \in [Requests -> {"none", "Ok", "Err", "Timeout", "Panic", "Lost"}]
      BY <2>1
    <3> QED BY <2>1, <2>2, <3>1, <3>2, <3>3, <3>4
  <2>5. Channel'
    BY <2>1, <2>3 DEF Channel
  <2>6. ASSUME NEW q \in Requests PROVE Handler(q)'
    <3>1. CASE InFlight(q)
      <4>1. pc'[q] = "done" /\ told'[q] = "Lost" /\ q \notin reverts'
        BY <2>1, <3>1
      <4>2. /\ Untouched(q) /\ (pc[q] = "revert" => reserved[q]) /\ (pc[q] = "insert" => ~reserved[q])
        BY <3>1 DEF InFlight, Awaits, Handler
      <4>3. /\ reverted'[q] = 0 /\ reserved'[q] = reserved[q]
            /\ q \in lateReserve' => pc[q] = "insert"
            /\ q \in lateRevert' => pc[q] = "revert"
        BY <2>2, <4>2 DEF Untouched
      <4>4. CASE pc[q] = "wait"
        <5>1. q \in failed' /\ q \notin lateReserve' /\ q \notin lateRevert'
          BY <2>1, <4>3, <4>4
        <5> QED BY <4>1, <4>3, <5>1 DEF Handler
      <4>5. CASE pc[q] # "wait"
        <5>1. order[q] = "none" /\ resp[q] = "none"
          BY <3>1, <4>5 DEF InFlight, Awaits, Handler
        <5>2. order'[q] = "none" /\ resp'[q] = "none"
          BY <2>1, <2>3, <5>1
        <5> QED BY <4>1, <4>2, <4>3, <5>2 DEF Handler
      <4> QED BY <4>4, <4>5
    <3>2. CASE ~InFlight(q)
      <4>1. pc'[q] = pc[q] /\ told'[q] = told[q] /\ q \notin reverts' /\ pc[q] \in {"idle", "done"}
        BY <2>1, <3>2 DEF InFlight
      <4>2. /\ reserved'[q] = reserved[q] /\ reverted'[q] = reverted[q]
            /\ (q \in lateReserve') <=> (q \in lateReserve)
            /\ (q \in lateRevert') <=> (q \in lateRevert \/ q \in reverts)
        BY <2>2, <4>1
      <4>3. order[q] = "none" /\ resp[q] = "none" => order'[q] = "none" /\ resp'[q] = "none"
        BY <2>1, <2>3
      <4>4. order[q] = "live" /\ resp[q] = "Ok" => order'[q] = "live" /\ resp'[q] = "Ok"
        BY <2>1, <2>3
      <4>5. /\ order[q] # "queued" =>
                  /\ order'[q] # "queued" /\ resp'[q] = resp[q]
                  /\ order'[q] = order[q] \/ resp'[q] = "Database"
            /\ q \in reverts \/ q \in failed => q \in failed'
        BY <2>1, <2>3
      <4>6. CASE pc[q] = "idle"
        BY <4>1, <4>2, <4>3, <4>6 DEF Handler, Untouched
      <4>7. CASE pc[q] = "done"
        BY <4>1, <4>2, <4>3, <4>4, <4>5, <4>7 DEF Handler
      <4> QED BY <4>1, <4>6, <4>7
    <3> QED BY <3>1, <3>2
  <2> QED BY <2>4, <2>5, <2>6
<1>2. CASE Restart
  BY <1>2 DEF Restart, Channel, Handler, Untouched
<1> QED BY <1>1, <1>2

(* Every behaviour of the reservation protocol satisfies the invariant:    *)
(* handlers, revert tasks, timeouts, the engine and the end and restart of *)
(* the process, in any order.                                              *)
THEOREM FundsInvariant == Spec => []FInv
<1>1. Init => FInv BY FInvInit
<1>2. FInv /\ [Next]_vars => FInv'
  <2> SUFFICES ASSUME FInv, [Next]_vars PROVE FInv' OBVIOUS
  <2>1. CASE UNCHANGED vars
    BY <2>1 DEF vars, money, market, FInv, Types, Channel, Handler, Untouched
  <2>2. CASE Next
    BY <2>2, FInvReserve, FInvEnd, FInvSend, FInvEngine, FInvLogLands, FInvProcess DEF Next
  <2> QED BY <2>1, <2>2
<1> QED BY <1>1, <1>2, PTL DEF Spec

(* However a request ends, its reservation is put back at most once, and   *)
(* only if it was made (DeferGuard, ReserveOk::revert).                    *)
THEOREM RevertsOnce == Spec => []RevertedAtMostOnce
<1>1. FInv => RevertedAtMostOnce
  BY DEF FInv, Types, Handler, Untouched, Awaits, RevertedAtMostOnce
<1> QED BY <1>1, FundsInvariant, PTL

(* A client told Ok has a live order whose reservation stays: the guard is *)
(* cancelled on that answer and on no other path (trade_add_order).        *)
THEOREM ConfirmedOrderIsFunded == Spec => []OkIsFunded
<1>1. FInv => OkIsFunded
  BY DEF FInv, Types, Handler, Untouched, Awaits, OkIsFunded
<1> QED BY <1>1, FundsInvariant, PTL

(* An order is live although its funds went back only if its handler timed *)
(* out waiting for the engine, or the engine answered that it could not    *)
(* log the order it had executed: in particular an order the engine        *)
(* refused, or dropped when it ended, never comes back to life.            *)
THEOREM UnfundedOrdersExplained == Spec => []UnfundedOrderCause
<1>1. ASSUME FInv, NEW r \in Requests, order[r] = "live", reverted[r] > 0 \/ r \in reverts
      PROVE  told[r] = "Timeout" \/ resp[r] = "Database"
  <2>1. pc[r] = "done"
    BY <1>1 DEF FInv, Types, Handler, Untouched, Awaits
  <2>2. reverted[r] = 1 \/ r \in reverts
    BY <1>1, <2>1 DEF FInv, Types, Handler
  <2> QED BY <1>1, <2>1, <2>2 DEF FInv, Handler
<1>2. FInv => UnfundedOrderCause
  BY <1>1 DEF UnfundedOrderCause
<1> QED BY <1>2, FundsInvariant, PTL

(* Funds stay reserved for an order that is not in the book only if the    *)
(* handler ended before it held its guard, or the revert statement failed  *)
(* or was lost with the process: a guard that was dropped always reverts.  *)
THEOREM StrandedFundsExplained == Spec => []StrandedFundsCause
<1>1. FInv => StrandedFundsCause
  BY DEF FInv, Types, Handler, Untouched, Awaits, StrandedFundsCause
<1> QED BY <1>1, FundsInvariant, PTL
-----------------------------------------------------------------------------
(* Induction over the natural numbers, with a set for the property.        *)
LEMMA NatInd ==
  ASSUME NEW T, 0 \in T, \A n \in Nat : n \in T => n + 1 \in T
  PROVE  Nat \subseteq T
<1> DEFINE R == OpToRel(<, Nat)
           B == Nat \ T
<1>1. IsWellFoundedOn(R, Nat) BY NatLessThanWellFounded, Zenon
<1>2. \A x, y \in Nat : x < y => <<x, y>> \in R BY DEF OpToRel
<1> HIDE DEF R
<1>3. SUFFICES ASSUME B # {} PROVE FALSE OBVIOUS
<1>4. PICK x \in B : \A y \in B : ~(<<y, x>> \in R)
  <2>1. B \subseteq Nat OBVIOUS
  <2> HIDE DEF B
  <2> QED BY <1>1, <1>3, <2>1, WFMin
<1>5. x # 0 /\ x \in Nat OBVIOUS
<1>6. x - 1 \in Nat /\ x - 1 < x BY <1>5
<1>7. x - 1 \in T BY <1>2, <1>4, <1>5, <1>6
<1>8. (x - 1) + 1 = x BY <1>5
<1> QED BY <1>6, <1>7, <1>8

(* Sums over a finite set, as MapThenSumSet defines them: one element is   *)
(* chosen and added to the sum of the rest.                                *)
First(s) == CHOOSE x \in s : TRUE
Rest(s) == s \ {First(s)}
SumEq(g, S, f) == g = [s \in SUBSET S |-> IF s = {} THEN 0 ELSE f[First(s)] + g[Rest(s)]]

(* The rest of a set is smaller by one.                                    *)
LEMMA RestSmaller ==
  ASSUME NEW S, IsFiniteSet(S), NEW s \in SUBSET S, s # {}
  PROVE  /\ First(s) \in s /\ Rest(s) \in SUBSET S
         /\ Cardinality(s) \in Nat /\ Cardinality(Rest(s)) \in Nat
         /\ Cardinality(Rest(s)) + 1 = Cardinality(s)
<1>1. First(s) \in s BY DEF First
<1>2. IsFiniteSet(s) BY FS_Subset
<1>3. /\ IsFiniteSet(Rest(s)) /\ Cardinality(Rest(s)) = Cardinality(s) - 1
  BY <1>1, <1>2, FS_RemoveElement DEF Rest
<1>4. Cardinality(s) \in Nat /\ Cardinality(Rest(s)) \in Nat BY <1>2, <1>3, FS_CardinalityType
<1>5. Rest(s) \in SUBSET S BY DEF Rest
<1> QED BY <1>1, <1>3, <1>4, <1>5

(* What holds of the empty set, and of a set when it holds of its rest,    *)
(* holds of every subset.                                                  *)
LEMMA SubsetInd ==
  ASSUME NEW S, IsFiniteSet(S), NEW Q, {} \in Q,
         \A s \in SUBSET S : s # {} /\ Rest(s) \in Q => s \in Q
  PROVE  \A s \in SUBSET S : s \in Q
<1> DEFINE T == {n \in Nat : \A s \in SUBSET S : Cardinality(s) = n => s \in Q}
<1>1. 0 \in T
  <2>1. \A s \in SUBSET S : Cardinality(s) = 0 => s = {} BY FS_Subset, FS_EmptySet
  <2> QED BY <2>1
<1>2. ASSUME NEW n \in Nat, n \in T PROVE n + 1 \in T
  <2>1. ASSUME NEW s \in SUBSET S, Cardinality(s) = n + 1 PROVE s \in Q
    <3>1. s # {} BY <2>1, FS_EmptySet
    <3>2. Rest(s) \in SUBSET S /\ Cardinality(Rest(s)) \in Nat /\ Cardinality(Rest(s)) + 1 = n + 1
      BY <2>1, <3>1, RestSmaller
    <3>3. Cardinality(Rest(s)) = n BY <3>2
    <3>4. Rest(s) \in Q BY <1>2, <3>2, <3>3
    <3> QED BY <3>1, <3>4
  <2>2. n + 1 \in Nat OBVIOUS
  <2> QED BY <2>1, <2>2
<1> HIDE DEF T
<1>3. Nat \subseteq T BY <1>1, <1>2, NatInd
<1>4. ASSUME NEW s \in SUBSET S PROVE Cardinality(s) \in Nat BY FS_Subset, FS_CardinalityType
<1> QED BY <1>3, <1>4 DEF T

(* The sum of a finite set exists.                                         *)
LEMMA SumExists ==
  ASSUME NEW S, IsFiniteSet(S), NEW f
  PROVE  \E g : SumEq(g, S, f)
<1> DEFINE Small(n) == {s \in SUBSET S : Cardinality(s) <= n}
           Solves(g, n) == g = [s \in Small(n) |-> IF s = {} THEN 0 ELSE f[First(s)] + g[Rest(s)]]
           T == {n \in Nat : \E g : Solves(g, n)}
<1>0. ASSUME NEW s \in SUBSET S PROVE Cardinality(s) \in Nat /\ Cardinality(s) <= Cardinality(S)
  BY FS_Subset, FS_CardinalityType
<1>1. 0 \in T
  <2> DEFINE g == [s \in Small(0) |-> 0]
  <2>1. \A s \in Small(0) : s = {} BY <1>0, FS_Subset, FS_EmptySet
  <2>2. Solves(g, 0) BY <2>1
  <2> QED BY <2>2
<1>2. ASSUME NEW n \in Nat, n \in T PROVE n + 1 \in T
  <2>1. PICK g : Solves(g, n) BY <1>2
  <2> DEFINE h == [s \in Small(n + 1) |->
                      IF s \in Small(n) THEN g[s] ELSE f[First(s)] + g[Rest(s)]]
  <2>2. ASSUME NEW s \in Small(n + 1)
        PROVE  h[s] = IF s = {} THEN 0 ELSE f[First(s)] + h[Rest(s)]
    <3>1. CASE s = {}
      <4>1. s \in Small(n) BY <3>1, FS_EmptySet
      <4> QED BY <2>1, <3>1, <4>1
    <3>2. CASE s # {}
      <4>1. Rest(s) \in SUBSET S /\ Cardinality(Rest(s)) \in Nat /\ Cardinality(Rest(s)) + 1 = Cardinality(s)
        BY <3>2, RestSmaller
      <4>2. Rest(s) \in Small(n) /\ Rest(s) \in Small(n + 1) BY <4>1
      <4>3. h[Rest(s)] = g[Rest(s)] BY <4>2
      <4>4. h[s] = f[First(s)] + g[Rest(s)]
        <5>1. CASE s \in Small(n)
          <6>1. g[s] = f[First(s)] + g[Rest(s)] BY <2>1, <3>2, <5>1
          <6> QED BY <5>1, <6>1
        <5>2. CASE s \notin Small(n) BY <5>2
        <5> QED BY <5>1, <5>2
      <4> HIDE DEF h
      <4> QED BY <3>2, <4>3, <4>4
    <3> QED BY <3>1, <3>2
  <2>3. h = [s \in Small(n + 1) |-> h[s]] OBVIOUS
  <2> HIDE DEF h, Small
  <2>4. Solves(h, n + 1) BY <2>2, <2>3
  <2>5. n + 1 \in Nat OBVIOUS
  <2> HIDE DEF Solves
  <2> QED BY <2>4, <2>5, Zenon
<1>3. Cardinality(S) \in Nat BY FS_CardinalityType
<1>4. Cardinality(S) \in T
  <2> HIDE DEF T
  <2> QED BY <1>1, <1>2, <1>3, NatInd
<1>5. Small(Cardinality(S)) = SUBSET S BY <1>0
<1> HIDE DEF Small
<1>6. PICK g : Solves(g, Cardinality(S)) BY <1>4
<1>7. SumEq(g, S, f) BY <1>5, <1>6 DEF SumEq
<1> QED BY <1>7

(* A sum of integers, none of them positive, and of integers none of them  *)
(* negative.                                                               *)
LEMMA SumBounds ==
  ASSUME NEW S, IsFiniteSet(S), NEW f, NEW g, SumEq(g, S, f), \A x \in S : f[x] \in Int
  PROVE  /\ g[S] \in Int
         /\ (\A x \in S : f[x] <= 0) => g[S] <= 0
         /\ (\A x \in S : f[x] >= 0) => g[S] >= 0
<1> DEFINE Q == {s \in SUBSET S : /\ g[s] \in Int
                                  /\ (\A x \in S : f[x] <= 0) => g[s] <= 0
                                  /\ (\A x \in S : f[x] >= 0) => g[s] >= 0}
<1>1. {} \in Q BY DEF SumEq
<1>2. ASSUME NEW s \in SUBSET S, s # {}, Rest(s) \in Q PROVE s \in Q
  <2>1. First(s) \in S BY <1>2, RestSmaller
  <2>2. g[s] = f[First(s)] + g[Rest(s)] BY <1>2 DEF SumEq
  <2>3. f[First(s)] \in Int /\ g[Rest(s)] \in Int BY <1>2, <2>1
  <2> QED BY <1>2, <2>1, <2>2, <2>3
<1>3. S \in Q
  <2> HIDE DEF Q
  <2> QED BY <1>1, <1>2, SubsetInd
<1> QED BY <1>3

(* When no term is smaller than before, but that of r, which is smaller by *)
(* at most d, the sum is smaller by at most d; and not at all without r.   *)
LEMMA SumDrops ==
  ASSUME NEW S, IsFiniteSet(S), NEW f, NEW e, NEW g, NEW h, SumEq(g, S, f), SumEq(h, S, e),
         \A x \in S : f[x] \in Int /\ e[x] \in Int,
         NEW r, NEW d \in Nat,
         \A x \in S : x # r => e[x] >= f[x],
         r \in S => e[r] >= f[r] - d
  PROVE  h[S] >= g[S] - (IF r \in S THEN d ELSE 0)
<1> DEFINE Q == {s \in SUBSET S : /\ g[s] \in Int /\ h[s] \in Int
                                  /\ h[s] >= g[s] - (IF r \in s THEN d ELSE 0)}
<1>1. {} \in Q BY DEF SumEq
<1>2. ASSUME NEW s \in SUBSET S, s # {}, Rest(s) \in Q PROVE s \in Q
  <2>1. First(s) \in S /\ First(s) \in s BY <1>2, RestSmaller
  <2>2. g[s] = f[First(s)] + g[Rest(s)] /\ h[s] = e[First(s)] + h[Rest(s)] BY <1>2 DEF SumEq
  <2>3. /\ f[First(s)] \in Int /\ g[Rest(s)] \in Int /\ e[First(s)] \in Int /\ h[Rest(s)] \in Int
        /\ h[Rest(s)] >= g[Rest(s)] - (IF r \in Rest(s) THEN d ELSE 0)
    BY <1>2, <2>1
  <2>4. CASE First(s) = r
    <3>1. r \in s /\ r \notin Rest(s) BY <2>1, <2>4 DEF Rest
    <3>2. e[First(s)] >= f[First(s)] - d BY <2>1, <2>4
    <3> QED BY <2>2, <2>3, <3>1, <3>2
  <2>5. CASE First(s) # r
    <3>1. r \in s <=> r \in Rest(s) BY <2>5 DEF Rest
    <3>2. e[First(s)] >= f[First(s)] BY <2>1, <2>5
    <3> QED BY <2>2, <2>3, <3>1, <3>2
  <2> QED BY <2>4, <2>5
<1>3. S \in Q
  <2> HIDE DEF Q
  <2> QED BY <1>1, <1>2, SubsetInd
<1> QED BY <1>3
-----------------------------------------------------------------------------
(* The balance check.  What request r takes from its owner's account.      *)
Owes(r) == reserved[r] /\ reverted[r] = 0
Term == [r \in Requests |-> IF Owes(r) THEN 0 - amount[r] ELSE 0]
RequestsOf(user) == {r \in Requests : Owner[r] = user}

(* A reserve INSERT may still take effect, of a handler or left behind.    *)
Pending(r) == pc[r] = "insert" \/ r \in lateReserve
Active(r) == InFlight(r) \/ r \in lateReserve

(* Two active requests of one user are noticed.                            *)
Solo ==
    \A r, q \in Requests :
        r # q /\ Owner[r] = Owner[q] /\ Active(r) /\ Active(q) => Owner[r] \in overlapped

(* While a user's requests come one at a time, the account is solvent, and *)
(* stays so when the INSERT that is under way takes effect.                *)
Covered(user) ==
    user \notin overlapped =>
        /\ calculate_balance(user) >= 0
        /\ \A r \in RequestsOf(user) : Pending(r) => amount[r] <= calculate_balance(user)

BInv ==
    /\ amount \in [Requests -> Nat]
    /\ Solo
    /\ \A user \in Users : Covered(user)

(* calculate_balance is the deposit and the sum of what requests owe.      *)
BalanceIsSum(user) ==
    \E g : /\ SumEq(g, RequestsOf(user), Term)
           /\ calculate_balance(user) = Deposited + g[RequestsOf(user)]

LEMMA TermTypes ==
  ASSUME FInv, amount \in [Requests -> Nat], NEW r \in Requests
  PROVE  /\ Term[r] \in Int /\ Term[r] <= 0
         /\ Term[r] = (reverted[r] - (IF reserved[r] THEN 1 ELSE 0)) * amount[r]
<1>1. amount[r] \in Nat /\ reserved[r] \in BOOLEAN /\ reverted[r] \in {0, 1} /\ (reverted[r] = 1 => reserved[r])
  BY DEF FInv, Types, Handler, Untouched, Awaits
<1>2. Term[r] = IF Owes(r) THEN 0 - amount[r] ELSE 0 BY DEF Term
<1>3. CASE reserved[r] /\ reverted[r] = 0
  <2>1. (reverted[r] - (IF reserved[r] THEN 1 ELSE 0)) = -1 BY <1>3
  <2>2. (-1) * amount[r] = 0 - amount[r] BY <1>1
  <2>3. Owes(r) BY <1>3 DEF Owes
  <2> QED BY <1>1, <1>2, <2>1, <2>2, <2>3
<1>4. CASE ~Owes(r)
  <2>1. (reverted[r] - (IF reserved[r] THEN 1 ELSE 0)) = 0 BY <1>1, <1>4 DEF Owes
  <2>2. 0 * amount[r] = 0 BY <1>1
  <2> QED BY <1>1, <1>2, <1>4, <2>1, <2>2
<1> QED BY <1>3, <1>4 DEF Owes

LEMMA BalanceSum ==
  ASSUME IsFiniteSet(Requests)
  PROVE  FInv /\ amount \in [Requests -> Nat] => \A user \in Users : BalanceIsSum(user)
<1> SUFFICES ASSUME FInv, amount \in [Requests -> Nat], NEW user \in Users PROVE BalanceIsSum(user)
  OBVIOUS
<1> DEFINE S == RequestsOf(user)
           Raw(x) == (reverted[x] - (IF reserved[x] THEN 1 ELSE 0)) * amount[x]
           Eq(g) == g = [s \in SUBSET S |-> IF s = {} THEN 0
                                            ELSE Raw(First(s)) + g[s \ {First(s)}]]
           sum == CHOOSE g : Eq(g)
<1>1. S \in SUBSET Requests BY DEF RequestsOf
<1>2. IsFiniteSet(S) BY <1>1, FS_Subset
<1>3. PICK g : SumEq(g, S, Term) BY <1>2, SumExists
<1>4. \A x \in S : Raw(x) = Term[x] BY <1>1, TermTypes
<1>5. \A s \in SUBSET S : s # {} => First(s) \in S BY DEF First
<1> HIDE DEF S, Raw
<1>6. \A k : SumEq(k, S, Term) <=> Eq(k) BY <1>4, <1>5 DEF SumEq, Rest
<1>7. Eq(g) BY <1>3, <1>6
<1>8. Eq(sum)
  <2> HIDE DEF Eq
  <2> QED BY <1>7
<1>9. calculate_balance(user) = Deposited + sum[S]
  BY DEF calculate_balance, MapThenSumSet, MapThenFoldSet, S, Raw, RequestsOf, First
<1> QED BY <1>6, <1>8, <1>9 DEF BalanceIsSum, S

(* The same of the next state.                                             *)
LEMMA BalanceSumNext ==
  ASSUME IsFiniteSet(Requests)
  PROVE  FInv' /\ (amount \in [Requests -> Nat])' => (\A user \in Users : BalanceIsSum(user))'
  BY BalanceSum, PTL

LEMMA TermTypesNext ==
  FInv' /\ (amount \in [Requests -> Nat])' => (\A r \in Requests : Term[r] \in Int)'
<1>1. FInv /\ amount \in [Requests -> Nat] => \A r \in Requests : Term[r] \in Int BY TermTypes
<1> QED BY <1>1, PTL

(* How the balance of one user moves in a step.                            *)
LEMMA BalanceMoves ==
  ASSUME IsFiniteSet(Requests), FInv, FInv', amount \in [Requests -> Nat], amount' \in [Requests -> Nat],
         NEW user \in Users, NEW r, NEW d \in Nat,
         \A q \in RequestsOf(user) : q # r => Term'[q] >= Term[q],
         r \in RequestsOf(user) => Term'[r] >= Term[r] - d
  PROVE  /\ calculate_balance(user) \in Int /\ calculate_balance(user)' \in Int
         /\ calculate_balance(user)' >= calculate_balance(user) - (IF r \in RequestsOf(user) THEN d ELSE 0)
<1> DEFINE S == RequestsOf(user)
<1>1. S \in SUBSET Requests /\ S' = S BY DEF RequestsOf
<1>2. IsFiniteSet(S) BY <1>1, FS_Subset
<1>3. BalanceIsSum(user) BY BalanceSum
<1>4. BalanceIsSum(user)' BY BalanceSumNext
<1>5. PICK g : SumEq(g, S, Term) /\ calculate_balance(user) = Deposited + g[S] BY <1>3 DEF BalanceIsSum
<1>6. PICK h : SumEq(h, S, Term') /\ calculate_balance(user)' = Deposited + h[S]
  BY <1>1, <1>4 DEF BalanceIsSum, SumEq
<1>7. \A x \in S : Term[x] \in Int BY <1>1, TermTypes
<1>8. \A x \in S : Term'[x] \in Int BY <1>1, TermTypesNext
<1> HIDE DEF S
<1>9. g[S] \in Int BY <1>2, <1>5, <1>7, SumBounds
<1>10. h[S] \in Int BY <1>2, <1>6, <1>8, SumBounds
<1>11. /\ \A q \in S : q # r => Term'[q] >= Term[q]
       /\ r \in S => Term'[r] >= Term[r] - d
  BY DEF S
<1>12. h[S] >= g[S] - (IF r \in S THEN d ELSE 0)
  <2> PICK e : e = Term' OBVIOUS
  <2>1. SumEq(h, S, e) /\ \A x \in S : Term[x] \in Int /\ e[x] \in Int BY <1>6, <1>7, <1>8
  <2>2. /\ \A q \in S : q # r => e[q] >= Term[q]
        /\ r \in S => e[r] >= Term[r] - d
    BY <1>11
  <2> QED BY <1>2, <1>5, <2>1, <2>2, SumDrops
<1>13. Deposited \in Int BY AmountsAssumption
<1> QED BY <1>5, <1>6, <1>9, <1>10, <1>12, <1>13 DEF S

(* An account never holds more than was deposited.                         *)
LEMMA BalanceBounded ==
  ASSUME IsFiniteSet(Requests), FInv, amount \in [Requests -> Nat], NEW user \in Users
  PROVE  calculate_balance(user) \in Int /\ calculate_balance(user) <= Deposited
<1> DEFINE S == RequestsOf(user)
<1>1. S \in SUBSET Requests BY DEF RequestsOf
<1>2. IsFiniteSet(S) BY <1>1, FS_Subset
<1>3. BalanceIsSum(user) BY BalanceSum
<1>5. PICK g : SumEq(g, S, Term) /\ calculate_balance(user) = Deposited + g[S] BY <1>3 DEF BalanceIsSum
<1>7. \A x \in S : Term[x] \in Int /\ Term[x] <= 0 BY <1>1, TermTypes
<1> HIDE DEF S
<1>9. g[S] \in Int /\ g[S] <= 0 BY <1>2, <1>5, <1>7, SumBounds
<1>13. Deposited \in Int BY AmountsAssumption
<1> QED BY <1>5, <1>9, <1>13

(* A balance that fits is read as it is.                                   *)
LEMMA AsU64Fits ==
  ASSUME NEW b \in Int, 0 <= b, b <= Deposited
  PROVE  AsU64(b) = b
  BY AmountsAssumption, U64Assumption DEF AsU64

(* The invariant holds initially: nothing is owed.                         *)
LEMMA BInvInit ==
  ASSUME IsFiniteSet(Requests), Init
  PROVE  BInv
<1>1. FInv BY FInvInit
<1>2. amount \in [Requests -> Nat] BY DEF Init
<1>3. Solo BY DEF Init, Solo, Active, InFlight, Awaits
<1>4. ASSUME NEW user \in Users PROVE Covered(user)
  <2> DEFINE S == RequestsOf(user)
  <2>1. S \in SUBSET Requests BY DEF RequestsOf
  <2>2. IsFiniteSet(S) BY <2>1, FS_Subset
  <2>3. BalanceIsSum(user) BY <1>1, <1>2, BalanceSum
  <2>4. PICK g : SumEq(g, S, Term) /\ calculate_balance(user) = Deposited + g[S] BY <2>3 DEF BalanceIsSum
  <2>5. \A x \in S : Term[x] = 0 BY <2>1 DEF Term, Owes, Init
  <2>6. \A x \in S : ~Pending(x) BY <2>1 DEF Init, Pending
  <2>7. \A x \in S : Term[x] \in Int /\ Term[x] >= 0 BY <2>5
  <2> HIDE DEF S
  <2>8. g[S] \in Int /\ g[S] >= 0 BY <2>2, <2>4, <2>7, SumBounds
  <2>9. calculate_balance(user) >= 0 BY <2>4, <2>8, AmountsAssumption
  <2> QED BY <2>6, <2>9 DEF Covered, S
<1> QED BY <1>2, <1>3, <1>4 DEF BInv

(* Every step but a request's arrival and its first read: nobody begins to *)
(* insert, and who owes more than before was inserting.                    *)
LEMMA BInvKept ==
  ASSUME IsFiniteSet(Requests), FInv, FInv', BInv, UNCHANGED <<amount, overlapped>>,
         \A q \in Requests :
             /\ Active(q)' => Active(q)
             /\ Pending(q)' => Pending(q)
             /\ Owes(q)' => Owes(q) \/ (Pending(q) /\ ~Pending(q)')
  PROVE  BInv'
<1>1. amount \in [Requests -> Nat] /\ amount' \in [Requests -> Nat] BY DEF BInv
<1>2. Solo' BY DEF BInv, Solo
<1>3. ASSUME NEW user \in Users, user \notin overlapped
      PROVE  /\ calculate_balance(user)' >= 0
             /\ \A r \in RequestsOf(user) : Pending(r)' => amount[r] <= calculate_balance(user)'
  <2> DEFINE S == RequestsOf(user)
             bal == calculate_balance(user)
  <2>1. S \in SUBSET Requests BY DEF RequestsOf
  <2>2. bal >= 0 /\ \A r \in S : Pending(r) => amount[r] <= bal
    BY <1>3 DEF BInv, Covered
  <2>3. \A x \in S : /\ Term[x] = IF Owes(x) THEN 0 - amount[x] ELSE 0
                     /\ Term'[x] = IF Owes(x)' THEN 0 - amount[x] ELSE 0
                     /\ amount[x] \in Nat
    BY <1>1, <2>1 DEF Term
  <2>4. \A x, y \in S : Pending(x) /\ Pending(y) => x = y
    BY <1>3, <2>1 DEF BInv, Solo, Pending, Active, InFlight, Awaits, RequestsOf
  <2>5. CASE \E r \in S : Pending(r) /\ Owes(r)' /\ ~Owes(r)
    <3>1. PICK r \in S : Pending(r) /\ Owes(r)' /\ ~Owes(r) BY <2>5
    <3>2. ~Pending(r)' BY <2>1, <3>1
    <3>3. \A x \in S : x # r => (Owes(x)' => Owes(x)) /\ ~Pending(x)' BY <2>1, <2>4, <3>1
    <3>4. \A x \in S : x # r => Term'[x] >= Term[x] BY <2>3, <3>3
    <3>5. Term'[r] >= Term[r] - amount[r] /\ amount[r] \in Nat BY <2>3, <3>1
    <3>6. bal \in Int /\ bal' \in Int /\ bal' >= bal - (IF r \in S THEN amount[r] ELSE 0)
      BY <1>1, <3>4, <3>5, BalanceMoves
    <3>7. amount[r] <= bal BY <2>2, <3>1
    <3> HIDE DEF bal
    <3>8. bal' >= 0 BY <3>1, <3>5, <3>6, <3>7
    <3> QED BY <3>2, <3>3, <3>8 DEF bal
  <2>6. CASE ~ \E r \in S : Pending(r) /\ Owes(r)' /\ ~Owes(r)
    <3>1. \A x \in S : Owes(x)' => Owes(x) BY <2>1, <2>6
    <3>2. \A x \in S : Term'[x] >= Term[x] BY <2>3, <3>1
    <3>3. \A x \in S : Term[x] \in Int /\ Term'[x] \in Int /\ Term'[x] >= Term[x] - 0 BY <2>3, <3>2
    <3>4. bal \in Int /\ bal' \in Int /\ bal' >= bal - (IF 0 \in S THEN 0 ELSE 0)
      BY <1>1, <3>2, <3>3, BalanceMoves
    <3> HIDE DEF bal
    <3>5. bal' >= bal BY <3>4
    <3>6. \A x \in S : Pending(x)' => Pending(x) /\ amount[x] \in Nat BY <2>1, <2>3
    <3> QED BY <2>2, <3>4, <3>5, <3>6 DEF bal
  <2> QED BY <2>5, <2>6
<1>4. ASSUME NEW user \in Users PROVE Covered(user)'
  <2>1. RequestsOf(user)' = RequestsOf(user) BY DEF RequestsOf
  <2> QED BY <1>3, <2>1 DEF Covered
<1> QED BY <1>1, <1>2, <1>4 DEF BInv

(* A request arrives: it owes nothing yet, and is noticed if its owner has *)
(* another one in flight.                                                  *)
LEMMA BInvStart ==
  ASSUME IsFiniteSet(Requests), FInv, FInv', BInv, NEW r \in Requests, NEW a \in Amounts, Start(r, a)
  PROVE  BInv'
<1> USE DEF FInv, Types
<1>1. /\ pc[r] = "idle" /\ pc' = [pc EXCEPT ![r] = "read"] /\ amount' = [amount EXCEPT ![r] = a]
      /\ overlapped \subseteq overlapped' /\ UNCHANGED <<reserved, reverted, lateReserve>>
  BY DEF Start, money, late
<1>2. a \in Nat /\ amount \in [Requests -> Nat] BY AmountsAssumption DEF BInv
<1>3. amount' \in [Requests -> Nat] BY <1>1, <1>2
<1>4. \A q \in Requests \ {r} : (Active(q)' <=> Active(q)) /\ (Pending(q)' <=> Pending(q)) /\ amount'[q] = amount[q]
  BY <1>1, <1>2 DEF Active, Pending, InFlight
<1>5. ASSUME NEW q \in Requests, q # r, Owner[q] = Owner[r], Active(q) PROVE Owner[r] \in overlapped'
  BY <1>5 DEF Start, Active
<1>6. Solo'
  <2> SUFFICES ASSUME NEW p \in Requests, NEW q \in Requests, p # q, Owner[p] = Owner[q],
                      Active(p)', Active(q)'
               PROVE  Owner[p] \in overlapped'
    BY DEF Solo
  <2>1. CASE p = r BY <1>4, <1>5, <2>1
  <2>2. CASE q = r BY <1>4, <1>5, <2>2
  <2>3. CASE p # r /\ q # r BY <1>1, <1>4, <2>3 DEF BInv, Solo
  <2> QED BY <2>1, <2>2, <2>3
<1>7. \A q \in Requests : Term'[q] = Term[q]
  <2>1. ~Owes(r) /\ ~Owes(r)' BY <1>1 DEF Handler, Owes
  <2>2. \A q \in Requests : Owes(q)' <=> Owes(q) BY <1>1 DEF Owes
  <2> QED BY <1>4, <2>1, <2>2 DEF Term
<1>8. ASSUME NEW user \in Users PROVE Covered(user)'
  <2> DEFINE S == RequestsOf(user)
             bal == calculate_balance(user)
  <2>1. S' = S /\ S \in SUBSET Requests BY DEF RequestsOf
  <2>2. \A x \in S : Term[x] \in Int /\ Term'[x] >= Term[x] /\ Term'[x] >= Term[x] - 0
    BY <1>2, <1>7, <2>1, TermTypes
  <2>3. bal \in Int /\ bal' \in Int /\ bal' >= bal - (IF 0 \in S THEN 0 ELSE 0)
    BY <1>2, <1>3, <2>2, BalanceMoves
  <2>4. user \notin overlapped' =>
          bal >= 0 /\ \A x \in S : Pending(x) => amount[x] <= bal /\ amount[x] \in Nat
    BY <1>1, <1>2, <2>1 DEF BInv, Covered
  <2>5. \A x \in S : Pending(x)' => Pending(x) /\ amount'[x] = amount[x]
    <3>1. ~Pending(r)' BY <1>1 DEF Pending, Handler, Untouched
    <3> QED BY <1>4, <2>1, <3>1
  <2> HIDE DEF bal
  <2>6. bal' >= bal BY <2>3
  <2>7. user \notin overlapped' => bal' >= 0 /\ \A x \in S : Pending(x)' => amount'[x] <= bal'
    <3> SUFFICES ASSUME user \notin overlapped'
                 PROVE  bal' >= 0 /\ \A x \in S : Pending(x)' => amount'[x] <= bal'
      OBVIOUS
    <3>1. bal' >= 0 BY <2>3, <2>4, <2>6
    <3>2. ASSUME NEW x \in S, Pending(x)' PROVE amount'[x] <= bal'
      <4>1. amount'[x] = amount[x] /\ amount[x] <= bal /\ amount[x] \in Nat BY <2>4, <2>5, <3>2
      <4> QED BY <2>3, <2>6, <4>1
    <3> QED BY <3>1, <3>2
  <2> QED BY <2>1, <2>7 DEF Covered, bal
<1> QED BY <1>3, <1>6, <1>8 DEF BInv

(* The first read: a solvent account's balance is compared as it is, so    *)
(* the INSERT that follows is covered.                                     *)
LEMMA BInvRead ==
  ASSUME IsFiniteSet(Requests), FInv, FInv', BInv, NEW r \in Requests, ReadBalance(r)
  PROVE  BInv'
<1> USE DEF FInv, Types
<1>1. pc[r] = "read" /\ UNCHANGED <<amount, overlapped, reserved, reverted, lateReserve>>
  BY DEF ReadBalance, money, late
<1>2. pc' \in [Requests -> Awaits \union {"idle", "done"}] OBVIOUS
<1>3. \A q \in Requests \ {r} : pc'[q] = pc[q] /\ (Pending(q)' <=> Pending(q))
  BY <1>1 DEF ReadBalance, End, Pending
<1>4. amount \in [Requests -> Nat] BY DEF BInv
<1>5. \A q \in Requests : Active(q)' => Active(q)
  BY <1>1, <1>3 DEF Active, InFlight, Awaits
<1>6. Solo' BY <1>1, <1>5 DEF BInv, Solo
<1>7. ASSUME NEW user \in Users, user \notin overlapped
      PROVE  calculate_balance(user) >= 0 /\
             \A x \in RequestsOf(user) : Pending(x)' => amount[x] <= calculate_balance(user)
  <2> DEFINE bal == calculate_balance(user)
  <2>1. bal \in Int /\ bal <= Deposited BY <1>4, <1>7, BalanceBounded
  <2>2. bal >= 0 /\ \A x \in RequestsOf(user) : Pending(x) => amount[x] <= bal
    BY <1>7 DEF BInv, Covered
  <2>3. ASSUME NEW x \in RequestsOf(user), Pending(x)' PROVE amount[x] <= bal
    <3>1. x \in Requests /\ Owner[x] = user BY DEF RequestsOf
    <3>2. CASE x # r BY <1>3, <2>2, <2>3, <3>1, <3>2
    <3>3. CASE x = r
      <4>0. r \notin lateReserve' /\ pc'[r] = "insert"
        BY <1>1, <2>3, <3>3 DEF Pending, Handler, Untouched
      <4>1. AsU64(bal) >= amount[r] BY <4>0, <3>1, <3>3 DEF ReadBalance, End
      <4>2. AsU64(bal) = bal
        <5> HIDE DEF bal
        <5> QED BY <2>1, <2>2, AsU64Fits
      <4> QED BY <1>4, <2>1, <3>3, <4>1, <4>2
    <3> QED BY <3>2, <3>3
  <2> QED BY <2>2, <2>3
<1>8. ASSUME NEW user \in Users PROVE Covered(user)'
  <2>1. calculate_balance(user)' = calculate_balance(user) 
    BY <1>1 DEF calculate_balance, MapThenSumSet, MapThenFoldSet
  <2>2. RequestsOf(user)' = RequestsOf(user) BY DEF RequestsOf
  <2> QED BY <1>1, <1>7, <2>1, <2>2 DEF Covered
<1> QED BY <1>1, <1>4, <1>6, <1>8 DEF BInv

(* All other steps are of the kind of BInvKept.                            *)
LEMMA BInvOther ==
  ASSUME IsFiniteSet(Requests), FInv, FInv', BInv,
         \/ \E r \in Requests :
               \/ InsertReserve(r) \/ RereadBalance(r) \/ ReserveFails(r)
               \/ SendOk(r) \/ SendErr(r) \/ RevertInline(r)
               \/ Respond(r) \/ RevertTask(r) \/ Timeout(r)
               \/ ReserveLands(r) \/ RevertLands(r) \/ LogLands(r)
         \/ EngineTakes \/ EngineStops \/ ProcessDies \/ Restart
  PROVE  BInv'
<1> DEFINE Keeps(q) ==
        /\ Active(q)' => Active(q)
        /\ Pending(q)' => Pending(q)
        /\ Owes(q)' => Owes(q) \/ (Pending(q) /\ ~Pending(q)')
<1>0. /\ pc \in [Requests -> Awaits \union {"idle", "done"}]
      /\ reserved \in [Requests -> BOOLEAN] /\ reverted \in [Requests -> Nat]
  BY DEF FInv, Types
<1>1. ASSUME NEW r \in Requests, InsertReserve(r)
      PROVE  UNCHANGED <<amount, overlapped>> /\ \A q \in Requests : Keeps(q)
  <2>1. r \notin lateReserve BY <1>1 DEF InsertReserve, FInv, Handler, Untouched
  <2>2. /\ UNCHANGED <<amount, overlapped, reverted, lateReserve>> /\ pc[r] = "insert"
        /\ pc' = [pc EXCEPT ![r] = "reread"] /\ reserved' = [reserved EXCEPT ![r] = TRUE]
    BY <1>1 DEF InsertReserve, late
  <2> QED BY <1>0, <2>1, <2>2 DEF Active, Pending, InFlight, Awaits, Owes
<1>2. ASSUME NEW r \in Requests, RereadBalance(r)
      PROVE  UNCHANGED <<amount, overlapped>> /\ \A q \in Requests : Keeps(q)
  BY <1>0, <1>2 DEF RereadBalance, End, money, late, Active, Pending, InFlight, Awaits, Owes
<1>3. ASSUME NEW r \in Requests, ReserveFails(r)
      PROVE  UNCHANGED <<amount, overlapped>> /\ \A q \in Requests : Keeps(q)
  <2>1. /\ UNCHANGED <<amount, overlapped, reserved, reverted>> /\ pc[r] \in {"read", "insert", "reread"}
        /\ pc' = [pc EXCEPT ![r] = "done"]
        /\ lateReserve' = IF pc[r] = "insert" THEN lateReserve \union {r} ELSE lateReserve
    BY <1>3 DEF ReserveFails, End, money
  <2>2. \A q \in Requests : Pending(q)' => Pending(q) BY <1>0, <2>1 DEF Pending
  <2>3. \A q \in Requests : Active(q)' => Active(q) BY <1>0, <2>1 DEF Active, InFlight, Awaits
  <2> QED BY <2>1, <2>2, <2>3 DEF Owes
<1>4. ASSUME NEW r \in Requests, SendOk(r) \/ SendErr(r)
      PROVE  UNCHANGED <<amount, overlapped>> /\ \A q \in Requests : Keeps(q)
  BY <1>0, <1>4 DEF SendOk, SendErr, money, late, Active, Pending, InFlight, Awaits, Owes
<1>5. ASSUME NEW r \in Requests, RevertInline(r) \/ RevertTask(r)
      PROVE  UNCHANGED <<amount, overlapped>> /\ \A q \in Requests : Keeps(q)
  <2>1. \A q \in Requests : reverted'[q] = 0 => reverted[q] = 0
    BY <1>0, <1>5 DEF RevertInline, RevertTask, revert
  <2>2. UNCHANGED <<amount, overlapped, reserved>> BY <1>5 DEF RevertInline, RevertTask
  <2>3. \A q \in Requests : pc'[q] = pc[q] \/ pc'[q] = "done"
    BY <1>0, <1>5 DEF RevertInline, RevertTask, End
  <2>4. UNCHANGED lateReserve BY <1>5 DEF RevertInline, RevertTask
  <2> QED BY <2>1, <2>2, <2>3, <2>4 DEF Active, Pending, InFlight, Awaits, Owes
<1>6. ASSUME NEW r \in Requests, Respond(r)
      PROVE  UNCHANGED <<amount, overlapped>> /\ \A q \in Requests : Keeps(q)
  BY <1>0, <1>6 DEF Respond, End, money, late, Active, Pending, InFlight, Awaits, Owes
<1>7. ASSUME NEW r \in Requests, Timeout(r)
      PROVE  UNCHANGED <<amount, overlapped>> /\ \A q \in Requests : Keeps(q)
  <2>1. UNCHANGED <<amount, overlapped, reserved, reverted>> /\ pc' = [pc EXCEPT ![r] = "done"] /\ InFlight(r)
    BY <1>7 DEF Timeout, End, money
  <2>2. lateReserve' = IF pc[r] = "insert" THEN lateReserve \union {r} ELSE lateReserve BY <1>7 DEF Timeout
  <2>3. \A q \in Requests : Pending(q)' <=> Pending(q) BY <1>0, <2>1, <2>2 DEF Pending
  <2>4. \A q \in Requests : Active(q)' => Active(q) BY <1>0, <2>1, <2>2 DEF Active, InFlight, Awaits
  <2> QED BY <2>1, <2>3, <2>4 DEF Owes
<1>8. ASSUME EngineTakes \/ EngineStops \/ Restart \/ \E r \in Requests : LogLands(r)
      PROVE  UNCHANGED <<amount, overlapped>> /\ \A q \in Requests : Keeps(q)
  <2>1. UNCHANGED <<amount, overlapped, pc, reserved, reverted, lateReserve>>
    BY <1>8 DEF EngineTakes, EngineStops, Restart, LogLands, money, late
  <2> QED BY <2>1 DEF Active, Pending, InFlight, Owes
<1>9. ASSUME ProcessDies
      PROVE  UNCHANGED <<amount, overlapped>> /\ \A q \in Requests : Keeps(q)
  <2>1. /\ UNCHANGED <<amount, overlapped, reserved, reverted>>
        /\ pc' = [r \in Requests |-> IF InFlight(r) THEN "done" ELSE pc[r]]
        /\ lateReserve' = lateReserve \union {r \in Requests : pc[r] = "insert"}
    BY <1>9 DEF ProcessDies, money
  <2>2. \A q \in Requests : pc'[q] # "insert" /\ ~InFlight(q)'  BY <2>1 DEF InFlight, Awaits
  <2>3. \A q \in Requests : q \in lateReserve' <=> Pending(q) BY <2>1 DEF Pending
  <2>4. \A q \in Requests : Pending(q)' <=> Pending(q) BY <2>2, <2>3 DEF Pending
  <2>5. \A q \in Requests : Active(q)' => Active(q) BY <2>2, <2>3 DEF Active, Pending, InFlight, Awaits
  <2> QED BY <2>1, <2>4, <2>5 DEF Owes
<1>11. ASSUME NEW r \in Requests, ReserveLands(r)
      PROVE  UNCHANGED <<amount, overlapped>> /\ \A q \in Requests : Keeps(q)
  <2>1. pc[r] # "insert" BY <1>11 DEF ReserveLands, FInv, Handler, Untouched
  <2> QED BY <1>0, <1>11, <2>1 DEF ReserveLands, Active, Pending, InFlight, Owes
<1>12. ASSUME NEW r \in Requests, RevertLands(r)
      PROVE  UNCHANGED <<amount, overlapped>> /\ \A q \in Requests : Keeps(q)
  <2>1. \A q \in Requests : reverted'[q] = 0 => reverted[q] = 0
    BY <1>0, <1>12 DEF RevertLands
  <2> QED BY <1>12, <2>1 DEF RevertLands, Active, Pending, InFlight, Owes
<1>10. UNCHANGED <<amount, overlapped>> /\ \A q \in Requests : Keeps(q)
  <2> HIDE DEF Keeps
  <2> QED BY <1>1, <1>2, <1>3, <1>4, <1>5, <1>6, <1>7, <1>8, <1>9, <1>11, <1>12
<1> QED BY <1>10, BInvKept

(* An account is overdrawn only if its user started a request while        *)
(* another was in flight or had its reserve INSERT still under way:        *)
(* neither timeouts, failed or late statements, the end of the process nor *)
(* other users defeat the balance check of reserve_by_asset, although it   *)
(* is a read and an INSERT without a transaction.  For any finite number   *)
(* of requests: the balance is a sum over their rows.                      *)
THEOREM OverdraftsExplained ==
  ASSUME IsFiniteSet(Requests)
  PROVE  Spec => []OverdraftCause
<1>1. Init => BInv BY BInvInit
<1>2. FInv /\ FInv' /\ BInv /\ [Next]_vars => BInv'
  <2> SUFFICES ASSUME FInv, FInv', BInv, [Next]_vars PROVE BInv' OBVIOUS
  <2>1. CASE UNCHANGED vars
    <3>1. UNCHANGED <<amount, overlapped, pc, reserved, reverted, lateReserve>> BY <2>1 DEF vars
    <3>2. \A q \in Requests : (Active(q)' <=> Active(q)) /\ (Pending(q)' <=> Pending(q)) /\ (Owes(q)' <=> Owes(q))
      BY <3>1 DEF Active, Pending, InFlight, Owes
    <3> QED BY <3>1, <3>2, BInvKept
  <2>2. CASE Next
    <3>1. CASE \E r \in Requests : \E a \in Amounts : Start(r, a) BY <3>1, BInvStart
    <3>2. CASE \E r \in Requests : ReadBalance(r) BY <3>2, BInvRead
    <3> QED BY <2>2, <3>1, <3>2, BInvOther DEF Next
  <2> QED BY <2>1, <2>2
<1>3. BInv => OverdraftCause BY DEF BInv, Covered, OverdraftCause
<1> QED BY <1>1, <1>2, <1>3, FundsInvariant, PTL DEF Spec
=============================================================================
