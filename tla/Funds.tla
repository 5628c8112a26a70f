------------------------------- MODULE Funds -------------------------------
(***************************************************************************)
(* The money side of placing an order: the trade_add_order handler,        *)
(* AppCx::place_order and reserve_by_asset, which reserve the funds in     *)
(* account_tx_journal with no transaction around the reads and the INSERT, *)
(* the 10 second TimeoutLayer, which may drop the handler's future at any  *)
(* of its awaits, and the DeferGuard, which spawns a task that puts the    *)
(* funds back.  Handlers, revert tasks and the engine interleave freely,   *)
(* and the process may end and be started again at any time: the journal   *)
(* and the event log survive, handlers, guards and spawned tasks do not.   *)
(*                                                                         *)
(* The engine is reduced to what TradingEngine lets a handler see: a       *)
(* queued command is executed or refused or ignored, and answered.  The    *)
(* journal is reduced to its effect: whether request r has its "reserve    *)
(* asset" row, and how many "revert reserve asset" rows refer to it.       *)
(*                                                                         *)
(* Migration 0007 makes txid mandatory, and neither of these rows has one: *)
(* on the schema of this commit every reserve INSERT fails (ReserveFails). *)
(* InsertReserve is what follows where the statement is accepted.          *)
(*                                                                         *)
(* A statement that nobody waits for any more (the handler's future was    *)
(* dropped, an error was reported, the process died) may still be under    *)
(* way in the database: it lands at any later time, in any later life of   *)
(* the process, or never.                                                  *)
(***************************************************************************)
EXTENDS Integers, Sequences, FiniteSetsExt

CONSTANTS
    Users, Requests,
    Owner,         \* [Requests -> Users]: whose session a request carries
    Amounts,       \* the quantities orders are placed for
    Deposited,     \* what each user's account received before the first request
    Capacity,      \* te_channel_capacity
    U64Size,       \* 2^64: the cast of a negative i64 to u64 wraps around
    DbFails        \* TRUE: statements may fail, before or after they took effect

ASSUME OwnerAssumption == Owner \in [Requests -> Users]
ASSUME AmountsAssumption == Amounts \subseteq Nat \ {0} /\ Deposited \in Nat
ASSUME CapacityAssumption == Capacity \in Nat \ {0}
ASSUME U64Assumption == U64Size \in Nat /\ U64Size > 2 * Deposited

VARIABLES
    pc,         \* the await each handler is at; "done" once its future is gone
    amount,     \* the quantity each request reserves
    seen,       \* the balance reserve_by_asset read first
    reserved,   \* the reserve row is in the journal
    reverted,   \* how many revert rows are in the journal
    queue,      \* commands in the engine's channel; the first may be the one it works on
    engine,     \* "up", "gone" once the engine task has ended, "down" without a process
    order,      \* what became of the order: "none", "queued", "live" (executed), "refused",
                \* or "late": executed in an earlier life and not in the log, or not yet
    resp,       \* the oneshot from the engine: "none", "Ok", "Err", "Database", "Dropped"
    told,       \* what the client saw: "none", "Ok", "Err", "Timeout", "Panic", or
                \* "Lost" when the process ended under its request
    reverts,    \* revert tasks spawned and not yet run
    lateReserve, \* requests whose reserve INSERT may be under way with nobody waiting
    lateRevert, \* the same of their revert INSERT
    failed,     \* history: requests whose revert failed or was lost with the process
    overlapped  \* history: users who started a request with another in flight, or
                \* with a reserve INSERT of another under way

vars == <<pc, amount, seen, reserved, reverted, queue, engine, order, resp, told, reverts, lateReserve, lateRevert,
          failed, overlapped>>
money == <<reserved, reverted>>
late == <<lateReserve, lateRevert>>
market == <<queue, engine, order, resp>>

Awaits == {"read", "insert", "reread", "send", "revert", "wait"}
InFlight(r) == pc[r] \in Awaits

Init == /\ pc = [r \in Requests |-> "idle"]
        /\ amount = [r \in Requests |-> 0]
        /\ seen = [r \in Requests |-> 0]
        /\ reserved = [r \in Requests |-> FALSE]
        /\ reverted = [r \in Requests |-> 0]
        /\ queue = <<>>
        /\ engine = "up"
        /\ order = [r \in Requests |-> "none"]
        /\ resp = [r \in Requests |-> "none"]
        /\ told = [r \in Requests |-> "none"]
        /\ reverts = {}
        /\ lateReserve = {}
        /\ lateRevert = {}
        /\ failed = {}
        /\ overlapped = {}

(* The SQL function calculate_balance.                                     *)
calculate_balance(user) ==
    Deposited + MapThenSumSet(
        LAMBDA r : (reverted[r] - (IF reserved[r] THEN 1 ELSE 0)) * amount[r],
        {r \in Requests : Owner[r] = user})

(* "as u64" of calculate_balance_from_accounting.                          *)
AsU64(balance) == balance % U64Size

(* The handler ends and the client sees what.                              *)
End(r, what) == pc' = [pc EXCEPT ![r] = "done"] /\ told' = [told EXCEPT ![r] = what]
-----------------------------------------------------------------------------
(* The request arrives and place_order finds the engine state Running.     *)
Start(r, a) ==
    /\ pc[r] = "idle"
    /\ engine # "down"
    /\ pc' = [pc EXCEPT ![r] = "read"]
    /\ amount' = [amount EXCEPT ![r] = a]
    /\ overlapped' = IF \E q \in Requests : Owner[q] = Owner[r] /\ (InFlight(q) \/ q \in lateReserve)
                     THEN overlapped \union {Owner[r]} ELSE overlapped
    /\ UNCHANGED <<seen, money, market, told, reverts, failed, late>>

(* Mutant: the balance is not compared with the quantity.                  *)
ReadBalance_Unchecked(r) ==
    /\ pc[r] = "read"
    /\ seen' = [seen EXCEPT ![r] = AsU64(calculate_balance(Owner[r]))]
    /\ pc' = [pc EXCEPT ![r] = "insert"]
    /\ UNCHANGED <<amount, money, market, told, reverts, failed, overlapped, late>>

(* reserve_by_asset reads the balance and compares.                        *)
ReadBalance(r) ==
    LET balance == AsU64(calculate_balance(Owner[r])) IN
        /\ pc[r] = "read"
        /\ IF balance >= amount[r]
           THEN /\ seen' = [seen EXCEPT ![r] = balance]
                /\ pc' = [pc EXCEPT ![r] = "insert"]
                /\ UNCHANGED told
           ELSE End(r, "Err") /\ UNCHANGED seen
        /\ UNCHANGED <<amount, money, market, reverts, failed, overlapped, late>>

InsertReserve(r) ==
    /\ pc[r] = "insert"
    /\ reserved' = [reserved EXCEPT ![r] = TRUE]
    /\ pc' = [pc EXCEPT ![r] = "reread"]
    /\ UNCHANGED <<amount, seen, reverted, market, told, reverts, failed, overlapped, late>>

(* The second read; an assert compares it with the first.                  *)
RereadBalance(r) ==
    LET balance == AsU64(calculate_balance(Owner[r])) IN
        /\ pc[r] = "reread"
        /\ IF balance = 0 \/ balance < seen[r]
           THEN pc' = [pc EXCEPT ![r] = "send"] /\ UNCHANGED told
           ELSE End(r, "Panic")
        /\ UNCHANGED <<amount, seen, money, market, reverts, failed, overlapped, late>>

(* A database error in reserve_by_asset reaches From<ReserveError>, which  *)
(* is todo!(): the handler panics and nothing puts the funds back.         *)
ReserveFails(r) ==
    /\ DbFails
    /\ pc[r] \in {"read", "insert", "reread"}
    /\ End(r, "Panic")
    /\ lateReserve' = IF pc[r] = "insert" THEN lateReserve \union {r} ELSE lateReserve
    /\ UNCHANGED <<amount, seen, money, market, reverts, failed, overlapped, lateRevert>>

(* te_tx.send succeeds; place_order returns and the handler creates the    *)
(* guard before its next await.  The channel holds Capacity commands       *)
(* besides the one the engine is working on.                               *)
SendOk(r) ==
    /\ pc[r] = "send"
    /\ engine = "up"
    /\ Len(queue) <= Capacity
    /\ queue' = Append(queue, r)
    /\ order' = [order EXCEPT ![r] = "queued"]
    /\ pc' = [pc EXCEPT ![r] = "wait"]
    /\ UNCHANGED <<amount, seen, money, engine, resp, told, reverts, failed, overlapped, late>>

(* Mutant: place_order returns the error without reverting.                *)
SendErr_NoRevert(r) ==
    /\ pc[r] = "send"
    /\ engine = "gone"
    /\ End(r, "Err")
    /\ UNCHANGED <<amount, seen, money, market, reverts, failed, overlapped, late>>

(* te_tx.send fails: place_order awaits the revert itself.                 *)
SendErr(r) ==
    /\ pc[r] = "send"
    /\ engine = "gone"
    /\ pc' = [pc EXCEPT ![r] = "revert"]
    /\ UNCHANGED <<amount, seen, money, market, told, reverts, failed, overlapped, late>>

(* ReserveOk::revert: the inverse row is stored, or the statement fails    *)
(* and its row may land later.                                             *)
revert(r) ==
    \/ /\ reverted' = [reverted EXCEPT ![r] = @ + 1]
       /\ UNCHANGED <<failed, lateRevert>>
    \/ /\ DbFails
       /\ failed' = failed \union {r}
       /\ lateRevert' = lateRevert \union {r}
       /\ UNCHANGED reverted

(* Mutant: the handler holds the guard while place_order reverts.          *)
RevertInline_Guarded(r) ==
    /\ pc[r] = "revert"
    /\ revert(r)
    /\ End(r, "Err")
    /\ reverts' = reverts \union {r}
    /\ UNCHANGED <<amount, seen, reserved, market, overlapped, lateReserve>>

RevertInline(r) ==
    /\ pc[r] = "revert"
    /\ revert(r)
    /\ End(r, "Err")
    /\ UNCHANGED <<amount, seen, reserved, market, reverts, overlapped, lateReserve>>

(* Mutant: the guard is never cancelled.                                   *)
Respond_NeverCancel(r) ==
    /\ pc[r] = "wait"
    /\ resp[r] # "none"
    /\ End(r, IF resp[r] = "Ok" THEN "Ok" ELSE "Err")
    /\ reverts' = reverts \union {r}
    /\ UNCHANGED <<amount, seen, money, market, failed, overlapped, late>>

(* Mutant: any answer of the engine (Some(_)) cancels the guard.           *)
Respond_CancelOnAny(r) ==
    /\ pc[r] = "wait"
    /\ resp[r] # "none"
    /\ End(r, IF resp[r] = "Ok" THEN "Ok" ELSE "Err")
    /\ reverts' = IF resp[r] = "Dropped" THEN reverts \union {r} ELSE reverts
    /\ UNCHANGED <<amount, seen, money, market, failed, overlapped, late>>

(* The engine's answer: only Some(Ok(_)) cancels the guard.                *)
Respond(r) ==
    /\ pc[r] = "wait"
    /\ resp[r] # "none"
    /\ IF resp[r] = "Ok"
       THEN End(r, "Ok") /\ UNCHANGED reverts
       ELSE End(r, "Err") /\ reverts' = reverts \union {r}
    /\ UNCHANGED <<amount, seen, money, market, failed, overlapped, late>>

(* The task spawned by the guard's drop.                                   *)
RevertTask(r) ==
    /\ r \in reverts
    /\ reverts' = reverts \ {r}
    /\ revert(r)
    /\ UNCHANGED <<pc, amount, seen, reserved, market, told, overlapped, lateReserve>>

(* TimeoutLayer drops the handler's future at an await, or the server does *)
(* because the client has disconnected.  A statement stays under way; a    *)
(* pending send has sent nothing; after the send, dropping the future      *)
(* drops the guard.                                                        *)
Timeout(r) ==
    /\ InFlight(r)
    /\ End(r, "Timeout")
    /\ lateReserve' = IF pc[r] = "insert" THEN lateReserve \union {r} ELSE lateReserve
    /\ lateRevert' = IF pc[r] = "revert" THEN lateRevert \union {r} ELSE lateRevert
    /\ reverts' = IF pc[r] = "wait" THEN reverts \union {r} ELSE reverts
    /\ UNCHANGED <<amount, seen, money, market, failed, overlapped>>

(* A statement that nobody waits for stores its row.                       *)
ReserveLands(r) ==
    /\ r \in lateReserve
    /\ lateReserve' = lateReserve \ {r}
    /\ reserved' = [reserved EXCEPT ![r] = TRUE]
    /\ UNCHANGED <<pc, amount, seen, reverted, market, told, reverts, failed, overlapped, lateRevert>>

RevertLands(r) ==
    /\ r \in lateRevert
    /\ lateRevert' = lateRevert \ {r}
    /\ reverted' = [reverted EXCEPT ![r] = @ + 1]
    /\ UNCHANGED <<pc, amount, seen, reserved, market, told, reverts, failed, overlapped, lateReserve>>
-----------------------------------------------------------------------------
(* Mutant: an executed order may be answered with any error.               *)
EngineTakes_LateError ==
    /\ engine = "up"
    /\ queue # <<>>
    /\ LET r == Head(queue) IN
        /\ order' = [order EXCEPT ![r] = "live"]
        /\ resp' \in {[resp EXCEPT ![r] = "Ok"], [resp EXCEPT ![r] = "Err"]}
    /\ queue' = Tail(queue)
    /\ UNCHANGED <<pc, amount, seen, money, engine, told, reverts, failed, overlapped, late>>

(* The engine takes a command, as TradingEngine does: the order is placed  *)
(* or refused and the result sent; or its INSERT fails and "Database" is   *)
(* sent either way; or a suspended engine ignores it.                      *)
EngineTakes ==
    /\ engine = "up"
    /\ queue # <<>>
    /\ LET r == Head(queue) IN
        /\ \/ /\ order' = [order EXCEPT ![r] = "live"]
              /\ resp' = [resp EXCEPT ![r] = "Ok"]
           \/ /\ order' = [order EXCEPT ![r] = "refused"]
              /\ resp' = [resp EXCEPT ![r] = "Err"]
           \/ \E fate \in {"live", "refused"} :
                 /\ DbFails
                 /\ order' = [order EXCEPT ![r] = fate]
                 /\ resp' = [resp EXCEPT ![r] = "Database"]
           \/ /\ order' = [order EXCEPT ![r] = "none"]
              /\ resp' = [resp EXCEPT ![r] = "Dropped"]
    /\ queue' = Tail(queue)
    /\ UNCHANGED <<pc, amount, seen, money, engine, told, reverts, failed, overlapped, late>>

(* The engine task ends; what is queued is dropped.                        *)
EngineStops ==
    /\ engine = "up"
    /\ engine' = "gone"
    /\ queue' = <<>>
    /\ order' = [r \in Requests |-> IF order[r] = "queued" THEN "none" ELSE order[r]]
    /\ resp' = [r \in Requests |-> IF order[r] = "queued" THEN "Dropped" ELSE resp[r]]
    /\ UNCHANGED <<pc, amount, seen, money, told, reverts, failed, overlapped, late>>

(* The process ends, by a crash or because start_fullstack returned: the   *)
(* runtime is dropped with every handler and revert task, and the guards   *)
(* dropped with them spawn tasks that never run.  The statements under way *)
(* go on: the reserve or revert row of a handler or a task, and the log    *)
(* row of the command the engine worked on.  An executed order is in the   *)
(* next life's book if it was logged, which one answered "Database" may    *)
(* not have been.                                                          *)
ProcessDies ==
    /\ engine # "down"
    /\ engine' = "down"
    /\ queue' = <<>>
    /\ pc' = [r \in Requests |-> IF InFlight(r) THEN "done" ELSE pc[r]]
    /\ told' = [r \in Requests |-> IF InFlight(r) THEN "Lost" ELSE told[r]]
    /\ lateReserve' = lateReserve \union {r \in Requests : pc[r] = "insert"}
    /\ lateRevert' = lateRevert \union {r \in Requests : pc[r] = "revert"} \union reverts
    /\ \E fate \in {"none", "late"}, unlogged \in SUBSET {r \in Requests : resp[r] = "Database"} :
          order' = [r \in Requests |->
                      IF order[r] = "queued" THEN (IF r = queue[1] THEN fate ELSE "none")
                      ELSE IF r \in unlogged THEN "late" ELSE order[r]]
    /\ resp' = [r \in Requests |-> IF order[r] = "queued" THEN "Dropped" ELSE resp[r]]
    /\ failed' = failed \union reverts \union {r \in Requests : pc[r] = "wait"}
    /\ reverts' = {}
    /\ UNCHANGED <<amount, seen, money, overlapped>>

(* The log row of an order executed in an earlier life lands: every later  *)
(* life will replay it.                                                    *)
LogLands(r) ==
    /\ order[r] = "late"
    /\ \E fate \in {"live", "refused"} : order' = [order EXCEPT ![r] = fate]
    /\ UNCHANGED <<pc, amount, seen, money, queue, engine, resp, told, reverts, failed, overlapped, late>>

(* A new process serves requests; its engine may not have survived the     *)
(* replay of the log.                                                      *)
Restart ==
    /\ engine = "down"
    /\ engine' \in {"up", "gone"}
    /\ UNCHANGED <<pc, amount, seen, money, queue, order, resp, told, reverts, failed, overlapped, late>>

Next ==
    \/ \E r \in Requests :
          \/ \E a \in Amounts : Start(r, a)
          \/ ReadBalance(r) \/ InsertReserve(r) \/ RereadBalance(r) \/ ReserveFails(r)
          \/ SendOk(r) \/ SendErr(r) \/ RevertInline(r)
          \/ Respond(r) \/ RevertTask(r) \/ Timeout(r)
          \/ ReserveLands(r) \/ RevertLands(r) \/ LogLands(r)
    \/ EngineTakes
    \/ EngineStops
    \/ ProcessDies
    \/ Restart

Spec == Init /\ [][Next]_vars

(* Spawned tasks run, and a handler whose answer is there is polled.       *)
FairSpec ==
    /\ Spec
    /\ \A r \in Requests : /\ WF_vars(RevertTask(r))
                           /\ WF_vars(Respond(r))
-----------------------------------------------------------------------------
(* However a request ends (answer, error path of place_order, dropped      *)
(* future, end of the process), its reservation is put back at most once,  *)
(* and only if it was made, the revert still to come or under way counted. *)
RevertedAtMostOnce ==
    \A r \in Requests :
        /\ reverted[r] + (IF r \in reverts THEN 1 ELSE 0) + (IF r \in lateRevert THEN 1 ELSE 0) <= 1
        /\ reverted[r] = 1 \/ r \in reverts \/ r \in lateRevert => reserved[r]

(* A client that is told its order was placed has paid for it: the order   *)
(* is in the book and the reservation stays, through any restart.          *)
OkIsFunded ==
    \A r \in Requests : told[r] = "Ok" =>
        order[r] = "live" /\ reserved[r] /\ reverted[r] = 0 /\ r \notin reverts \union lateRevert

(* An order that is live although its funds went back: the handler timed   *)
(* out waiting for the engine, or the engine failed to log the order.      *)
UnfundedOrderCause ==
    \A r \in Requests : order[r] = "live" /\ (reverted[r] > 0 \/ r \in reverts) =>
        \/ told[r] = "Timeout"
        \/ resp[r] = "Database"

(* Funds that stay reserved for an order that was not placed: the handler  *)
(* was dropped (timeout or client disconnect), panicked or went down with  *)
(* the process before it held a guard, or the revert failed or was lost    *)
(* with the process.                                                       *)
StrandedFundsCause ==
    \A r \in Requests :
        pc[r] = "done" /\ reserved[r] /\ reverted[r] = 0 /\ r \notin reverts
          /\ order[r] \in {"none", "refused", "late"} =>
            \/ told[r] \in {"Timeout", "Panic", "Lost"} /\ resp[r] = "none"
            \/ r \in failed

(* An account is overdrawn only if its user started a request while        *)
(* another was in flight or had its reserve INSERT still under way in the  *)
(* database: neither timeouts, crashes, failed or late statements nor the  *)
(* other users' requests defeat the balance check.                         *)
OverdraftCause ==
    \A user \in Users : user \notin overlapped => calculate_balance(user) >= 0

(* When the engine refuses an order, cannot log it or drops it, the funds  *)
(* come back, whether the handler is still waiting or has been dropped,    *)
(* unless the revert statement itself fails or the process ends before it. *)
FailedOrderIsRefunded ==
    \A r \in Requests :
        (resp[r] \in {"Err", "Database", "Dropped"}) ~> (reverted[r] = 1 \/ r \in failed)
=============================================================================
