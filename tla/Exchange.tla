------------------------------ MODULE Exchange ------------------------------
(***************************************************************************)
(* The order path end to end: the trade_add_order handlers of Funds and    *)
(* the supervisor, channel, event log and process of TradingEngine, in one *)
(* process.  A handler sends its order into the engine's channel, waits    *)
(* for the oneshot, and dies with the process.                             *)
(*                                                                         *)
(* Funds describes the engine as its clients see it.  The INSTANCE below   *)
(* computes that view from the state of the real engine; that every        *)
(* behaviour of the composition is one of Funds (ImplementsFunds) says     *)
(* that what was checked and proved about Funds holds of the composition.  *)
(***************************************************************************)
EXTENDS TradingEngine

CONSTANTS
    Users, Requests, Owner, Deposited, U64Size, DbFails   \* as in Funds

ASSUME OwnerAssumption == Owner \in [Requests -> Users]
ASSUME DepositedAssumption == Deposited \in Nat
ASSUME U64Assumption == U64Size \in Nat /\ U64Size > 2 * Deposited

VARIABLES
    pc, amount, seen, reserved, reverted, told, reverts, lateReserve, lateRevert,
    failed, overlapped,  \* as in Funds
    sender,     \* the request that sent each trade command
    result      \* history: what executing each command gave, "none" before

handlers == <<pc, amount, seen, reserved, reverted, told, reverts, lateReserve, lateRevert, failed, overlapped>>
tags == <<sender, result>>
allVars == <<vars, handlers, tags>>

(* The command of a request, as a set.                                     *)
CmdOf(r) == {id \in DOMAIN sender : sender[id] = r}
IsLogged(id) == \E i \in DOMAIN rows : rows[i].id = id
IsLate(id) == \E row \in late : row.id = id

(* The channel as its senders see it, the command whose INSERT is awaited  *)
(* included: commands are answered in the order they were sent in.         *)
Done == Cardinality({id \in DOMAIN answers : answers[id] # Waiting})
Pending == [i \in 1..(Len(sent) - Done) |-> sender[Done + i]]

EngineState ==
    IF ~Up THEN "down" ELSE IF task = "gone" THEN "gone" ELSE "up"

(* What became of a command: executed in this life, or logged, or executed *)
(* earlier and its INSERT under way; and what its oneshot holds.           *)
Fate(id) ==
    IF answers[id] = Waiting THEN "queued"
    ELSE IF IsLogged(id) \/ id \in lost
         THEN IF result[id] = "Ok" THEN "live" ELSE "refused"
         ELSE IF IsLate(id) THEN "late" ELSE "none"

Reply(id) ==
    IF answers[id] = Waiting THEN "none"
    ELSE IF answers[id] = Err("Database") THEN "Database" ELSE answers[id].tag

OrderOf(r) == IF CmdOf(r) = {} THEN "none" ELSE Fate(CHOOSE id \in CmdOf(r) : TRUE)
AnswerOf(r) == IF CmdOf(r) = {} THEN "none" ELSE Reply(CHOOSE id \in CmdOf(r) : TRUE)

F == INSTANCE Funds WITH
        Amounts <- Quantities,
        queue <- Pending,
        engine <- EngineState,
        order <- [r \in Requests |-> OrderOf(r)],
        resp <- [r \in Requests |-> AnswerOf(r)]

ExchangeInit == Init /\ sender = <<>> /\ result = <<>> /\ F!Init
-----------------------------------------------------------------------------
(* The steps of a handler or a revert task that the engine does not see:   *)
(* a request arrives, times out, meets an error of the database, ...       *)
HandlerStep(r) ==
    /\ UNCHANGED <<vars, tags>>
    /\ \/ \E a \in Quantities : F!Start(r, a)
       \/ F!ReserveFails(r) \/ F!Timeout(r) \/ F!RevertTask(r)
       \/ F!ReserveLands(r) \/ F!RevertLands(r)

(* ... or goes on.                                                         *)
HandlerGoesOn(r) ==
    /\ UNCHANGED <<vars, tags>>
    /\ \/ F!ReadBalance(r) \/ F!InsertReserve(r) \/ F!RereadBalance(r)
       \/ F!SendErr(r) \/ F!RevertInline(r) \/ F!Respond(r)

(* Mutant: the order is sent without waiting for the reserve INSERT.       *)
SendOrder_Unreserved(r) ==
    /\ pc[r] \in {"insert", "send"}
    /\ \E order \in Menu : order.quantity = amount[r] /\ Send(Place(order))
    /\ pc' = [pc EXCEPT ![r] = "wait"]
    /\ sender' = Append(sender, r)
    /\ result' = Append(result, "none")
    /\ UNCHANGED <<amount, seen, reserved, reverted, told, reverts, lateReserve, lateRevert, failed, overlapped>>

(* AppCx::place_order puts the order into the channel.                     *)
SendOrder(r) ==
    /\ pc[r] = "send"
    /\ \E order \in Menu : order.quantity = amount[r] /\ Send(Place(order))
    /\ pc' = [pc EXCEPT ![r] = "wait"]
    /\ sender' = Append(sender, r)
    /\ result' = Append(result, "none")
    /\ UNCHANGED <<amount, seen, reserved, reverted, told, reverts, lateReserve, lateRevert, failed, overlapped>>

(* The engine executes a command and remembers the result until the INSERT *)
(* has ended.                                                              *)
EngineExecutes ==
    /\ RecvTrade
    /\ \E c \in current' : result' = [result EXCEPT ![c.row.id] = c.result.tag]
    /\ UNCHANGED <<handlers, sender>>

EngineStep ==
    /\ \/ RecvShutdown \/ RecvTradePanics \/ RecvBootstrap \/ RecvBootstrapPanics
       \/ Inserted \/ (DbFails /\ InsertFailed)
    /\ UNCHANGED <<handlers, tags>>

(* start_fullstack boots, serves and shuts down.  Nothing in the program   *)
(* sends Suspend or Resume.                                                *)
ProcessStep ==
    /\ RequestShutdown \/ SendShutdown \/ Start \/ FetchRow \/ Serve
    /\ UNCHANGED <<handlers, tags>>

(* A row of the log that nobody waits for is stored.                       *)
RowLands ==
    /\ LateInsert
    /\ UNCHANGED <<handlers, tags>>

(* The process ends and takes handlers, guards and spawned tasks with it;  *)
(* their statements go on.                                                 *)
ProcessEnds ==
    /\ Crash \/ Exit
    /\ pc' = [r \in Requests |-> IF F!InFlight(r) THEN "done" ELSE pc[r]]
    /\ told' = [r \in Requests |-> IF F!InFlight(r) THEN "Lost" ELSE told[r]]
    /\ lateReserve' = lateReserve \union {r \in Requests : pc[r] = "insert"}
    /\ lateRevert' = lateRevert \union {r \in Requests : pc[r] = "revert"} \union reverts
    /\ failed' = failed \union reverts \union {r \in Requests : pc[r] = "wait"}
    /\ reverts' = {}
    /\ UNCHANGED <<amount, seen, reserved, reverted, overlapped, tags>>

ExchangeNext ==
    \/ \E r \in Requests : HandlerStep(r) \/ HandlerGoesOn(r) \/ SendOrder(r)
    \/ EngineExecutes
    \/ EngineStep
    \/ ProcessStep
    \/ RowLands
    \/ ProcessEnds

(* Handlers and the engine task are polled, and statements complete or     *)
(* fail.  Senders that wait for room are served in turn (the semaphore of  *)
(* a tokio channel is a queue), so none is passed over for ever: strong    *)
(* fairness.  Nothing is asked of the timeout.                             *)
ExchangeSpec ==
    /\ ExchangeInit /\ [][ExchangeNext]_allVars
    /\ WF_allVars(EngineExecutes \/ EngineStep)
    /\ \A r \in Requests : WF_allVars(HandlerGoesOn(r)) /\ SF_allVars(SendOrder(r))
-----------------------------------------------------------------------------
(* Handlers, channel, engine, event log and restarts together behave as    *)
(* Funds says: the engine view Funds assumes is the one the supervisor     *)
(* provides, also when the process dies between an execution and its log   *)
(* row or between a log row and its answer, and when the row lands only in *)
(* a later life.                                                           *)
ImplementsFunds == F!Spec

(* The two tables agree across every crash: an order in the event log,     *)
(* which every later life of the process replays, has its reserve row in   *)
(* the journal (place_order awaits the reservation before it sends).       *)
LoggedOrderIsReserved ==
    \A i \in DOMAIN rows : reserved[sender[rows[i].id]]

(* No handler hangs, even without the TimeoutLayer: a full channel drains, *)
(* and a queued command is answered or its oneshot dropped, whether the    *)
(* engine panics, is shut down or fails to log meanwhile.                  *)
RequestsEnd == \A r \in Requests : F!InFlight(r) ~> ~F!InFlight(r)
=============================================================================
