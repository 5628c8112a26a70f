---------------------------- MODULE TradingEngine ----------------------------
(***************************************************************************)
(* The trading engine task: trading_engine_supervisor fed by a bounded     *)
(* mpsc channel, its event log (table trading_event_source), the life of   *)
(* the process around it (start_fullstack), its crash, and init_from_db,   *)
(* which replays the log into a new engine before the webserver starts.    *)
(*                                                                         *)
(* A trade command is executed on the in-memory book first and logged by   *)
(* an INSERT the task awaits afterwards; a failed INSERT turns the answer  *)
(* into an error but does not undo the execution.  A command whose         *)
(* execution panics is never logged, and takes the engine task with it.    *)
(*                                                                         *)
(* An INSERT that the engine no longer waits for, because it was given an  *)
(* error or because its process died, may still be under way in the        *)
(* database: it lands at any later time, in any later life, or never.  The *)
(* SELECT of init_from_db has no ORDER BY: it yields the rows in any order. *)
(*                                                                         *)
(* Commands are numbered in the order they enter the channel.  One asset's *)
(* book is modelled: match_asset_mut keeps the two apart.                  *)
(***************************************************************************)
EXTENDS PlaceOrderFn, Sequences, SequencesExt

CONSTANTS
    Menu,         \* the orders clients place
    Controls,     \* the control commands that may be sent
    Capacity,     \* te_channel_capacity
    MaxCmds       \* bound: trade commands sent

ASSUME MenuAssumption == Menu \subseteq PlaceOrder
ASSUME ControlsAssumption == Controls \subseteq {"Suspend", "Resume"}
ASSUME CapacityAssumption == Capacity \in Nat \ {0}
ASSUME MaxCmdsAssumption == MaxCmds \in Nat

VARIABLES
    process,    \* "boot" (init_from_db), "serving" (the select!), "closing" (sending
                \* Shutdown), "stopping" (awaiting the engine task) or "down"
    chan,       \* the mpsc channel
    task,       \* the engine task: "recv", "insert" (awaiting the INSERT) or "gone"
    running,    \* the supervisor's flag
    assets,     \* book, memo_seq and order_uuids
    current,    \* the command whose INSERT is awaited, and its result
    rows,       \* trading_event_source, in the order the rows were stored
    late,       \* rows of INSERTs under way that nobody waits for
    unfetched,  \* rows the SELECT of init_from_db has not yielded yet
    sent,       \* history: every trade command sent
    answers,    \* what each sender has been told
    lost,       \* history: commands executed in this life whose INSERT was given up
    strayed,    \* history: in this life the book has parted from the log
    everStrayed \* history: in some life

aftermath == <<late, lost, strayed, everStrayed>>
vars == <<process, chan, task, running, assets, current, rows, unfetched, sent, answers, aftermath>>

Place(order) == [op |-> "place", order |-> order]
Cancel(target) == [op |-> "cancel", target |-> target]  \* the uuid answered to command target

Row(id, cmd) == [id |-> id, cmd |-> cmd]
Trade(row) == [tag |-> "Trade", row |-> row]
Bootstrap(row) == [tag |-> "Bootstrap", row |-> row]
Control(tag) == [tag |-> tag]

NewAssets == [book |-> EmptyBook, memo_seq |-> EmptyMemoSeq, order_uuids |-> <<>>]
NoCommand == {}

Waiting == [tag |-> "Waiting"]
Dropped == [tag |-> "Dropped"]    \* the oneshot sender was dropped unused

(* order_uuids, which do_cancel_order looks the order up in, is written    *)
(* nowhere.                                                                *)
do_cancel_order(a, target) ==
    IF target \notin DOMAIN a.order_uuids
    THEN [assets |-> a, result |-> Err("OrderNotFound")]
    ELSE LET left == [o \in DOMAIN a.book \ {a.order_uuids[target]} |-> a.book[o]] IN
         [assets |-> [a EXCEPT !.book = left, !.memo_seq = ForgetEmpty(@, left)],
          result |-> [tag |-> "Ok", order_index |-> {}]]

Execute(a, cmd) ==
    IF cmd.op = "cancel" THEN do_cancel_order(a, cmd.target)
    ELSE LET after == do_place_order(a.book, a.memo_seq, cmd.order) IN
         [assets |-> [a EXCEPT !.book = after.book, !.memo_seq = after.memo_seq],
          result |-> after.result]

(* The assets after the commands of some rows, in that order.              *)
Replay(a, log) ==
    LET after[i \in 0..Len(log)] == IF i = 0 THEN a ELSE Execute(after[i - 1], log[i].cmd).assets
    IN  after[Len(log)]

Init == /\ process = "serving"
        /\ chan = <<>>
        /\ task = "recv"
        /\ running = TRUE
        /\ assets = NewAssets
        /\ current = NoCommand
        /\ rows = <<>>
        /\ unfetched = <<>>
        /\ sent = <<>>
        /\ answers = <<>>
        /\ late = {}
        /\ lost = {}
        /\ strayed = FALSE
        /\ everStrayed = FALSE
-----------------------------------------------------------------------------
(* Handlers run from the start of the webserver until the runtime is       *)
(* dropped: ending the select! stops the listener, not their tasks.        *)
Up == process \in {"serving", "closing", "stopping"}

(* A handler sends a trade command: AppCx::place_order, AppCx::cancel_order. *)
Send(cmd) ==
    /\ Up
    /\ task # "gone"
    /\ Len(chan) < Capacity
    /\ Len(sent) < MaxCmds
    /\ chan' = Append(chan, Trade(Row(Len(sent) + 1, cmd)))
    /\ sent' = Append(sent, cmd)
    /\ answers' = Append(answers, Waiting)
    /\ UNCHANGED <<process, task, running, assets, current, rows, unfetched, aftermath>>

SendControl(tag) ==
    /\ process = "serving"
    /\ task # "gone"
    /\ Len(chan) < Capacity
    /\ \A i \in DOMAIN chan : chan[i].tag \notin Controls    \* bound: one in the channel
    /\ chan' = Append(chan, Control(tag))
    /\ UNCHANGED <<process, task, running, assets, current, rows, unfetched, sent, answers, aftermath>>

(* The select! of start_fullstack ends: ctrl-c, the automatic shutdown, or *)
(* web::serve returned.                                                    *)
RequestShutdown ==
    /\ process = "serving"
    /\ process' = "closing"
    /\ UNCHANGED <<chan, task, running, assets, current, rows, unfetched, sent, answers, aftermath>>

(* The engine task is not finished: Shutdown is sent once there is room,   *)
(* and its handle awaited.                                                 *)
SendShutdown ==
    /\ process = "closing"
    /\ task # "gone"
    /\ Len(chan) < Capacity
    /\ process' = "stopping"
    /\ chan' = Append(chan, Control("Shutdown"))
    /\ UNCHANGED <<task, running, assets, current, rows, unfetched, sent, answers, aftermath>>
-----------------------------------------------------------------------------
(* The commands left in a channel that goes away are never answered.       *)
DropQueued(queue) ==
    answers' = [id \in DOMAIN answers |->
                   IF \E i \in DOMAIN queue : queue[i].tag = "Trade" /\ queue[i].row.id = id
                   THEN Dropped ELSE answers[id]]

Receiving == task = "recv" /\ chan # <<>>

(* A suspended supervisor takes every command and ignores it.              *)
RecvSuspended ==
    /\ Receiving
    /\ ~running
    /\ chan' = Tail(chan)
    /\ DropQueued(<<Head(chan)>>)
    /\ UNCHANGED <<process, task, running, assets, current, rows, unfetched, sent, aftermath>>

RecvSuspend ==
    /\ Receiving /\ running
    /\ Head(chan).tag = "Suspend"
    /\ chan' = Tail(chan)
    /\ running' = FALSE
    /\ UNCHANGED <<process, task, assets, current, rows, unfetched, sent, answers, aftermath>>

RecvResume ==
    /\ Receiving /\ running
    /\ Head(chan).tag = "Resume"
    /\ chan' = Tail(chan)
    /\ running' = TRUE
    /\ UNCHANGED <<process, task, assets, current, rows, unfetched, sent, answers, aftermath>>

(* Mutant: Shutdown does not leave the loop.                               *)
RecvShutdown_Continue ==
    /\ Receiving /\ running
    /\ Head(chan).tag = "Shutdown"
    /\ chan' = Tail(chan)
    /\ UNCHANGED <<process, task, running, assets, current, rows, unfetched, sent, answers, aftermath>>

(* break: the receiver is dropped with whatever is queued behind it.       *)
RecvShutdown ==
    /\ Receiving /\ running
    /\ Head(chan).tag = "Shutdown"
    /\ task' = "gone"
    /\ chan' = <<>>
    /\ DropQueued(Tail(chan))
    /\ UNCHANGED <<process, running, assets, current, rows, unfetched, sent, aftermath>>

(* do_place_order rests the remainder of an order in a level whose         *)
(* memo_seq is at the end of the u32: push_order panics (the dev build; a  *)
(* release build wraps, see PriceLevels).  Or the order that do_cancel_    *)
(* order finds in order_uuids is not in the book ("checked order").        *)
Panics(a, cmd) ==
    \/ Execute(a, cmd).assets.memo_seq \notin [OrderSide -> [Prices -> Memo]]
    \/ /\ cmd.op = "cancel"
       /\ cmd.target \in DOMAIN a.order_uuids
       /\ a.order_uuids[cmd.target] \notin DOMAIN a.book

(* The panic unwinds the engine task: the receiver and the oneshot of the  *)
(* command at hand are dropped with whatever is queued.                    *)
PanicOn(cmd) ==
    /\ Panics(assets, cmd)
    /\ task' = "gone"
    /\ chan' = <<>>
    /\ DropQueued(chan)
    /\ UNCHANGED <<process, running, assets, current, unfetched, sent, aftermath>>

(* Mutant: the command is logged before it is executed.                    *)
RecvTradePanics_Logged ==
    /\ Receiving /\ running
    /\ Head(chan).tag = "Trade"
    /\ PanicOn(Head(chan).row.cmd)
    /\ rows' = Append(rows, Head(chan).row)

(* try_event_log! evaluates the command before its INSERT: a command that  *)
(* panics is not logged.                                                   *)
RecvTradePanics ==
    /\ Receiving /\ running
    /\ Head(chan).tag = "Trade"
    /\ PanicOn(Head(chan).row.cmd)
    /\ UNCHANGED rows

(* Mutant: the result is sent before the command is logged.                *)
RecvTrade_AnswerFirst ==
    /\ Receiving /\ running
    /\ Head(chan).tag = "Trade"
    /\ ~Panics(assets, Head(chan).row.cmd)
    /\ LET row == Head(chan).row
           after == Execute(assets, row.cmd)
       IN /\ assets' = after.assets
          /\ current' = {[row |-> row, result |-> after.result]}
          /\ answers' = [answers EXCEPT ![row.id] = after.result]
    /\ chan' = Tail(chan)
    /\ task' = "insert"
    /\ UNCHANGED <<process, running, rows, unfetched, sent, aftermath>>

(* The first half of try_event_log!: execute, then start the INSERT.       *)
RecvTrade ==
    /\ Receiving /\ running
    /\ Head(chan).tag = "Trade"
    /\ ~Panics(assets, Head(chan).row.cmd)
    /\ LET row == Head(chan).row
           after == Execute(assets, row.cmd)
       IN /\ assets' = after.assets
          /\ current' = {[row |-> row, result |-> after.result]}
    /\ chan' = Tail(chan)
    /\ task' = "insert"
    /\ UNCHANGED <<process, running, rows, unfetched, sent, answers, aftermath>>

(* The INSERT succeeds and the result is sent.                             *)
Inserted ==
    /\ task = "insert"
    /\ \E c \in current :
          /\ rows' = Append(rows, c.row)
          /\ answers' = [answers EXCEPT ![c.row.id] = c.result]
    /\ task' = "recv"
    /\ current' = NoCommand
    /\ UNCHANGED <<process, chan, running, assets, unfetched, sent, aftermath>>

(* Mutant: a failed INSERT is retried, whether or not it stored the row.   *)
InsertFailed_Retry ==
    /\ task = "insert"
    /\ \E c \in current :
          /\ rows' \in {Append(rows, c.row), rows \o <<c.row, c.row>>}
          /\ answers' = [answers EXCEPT ![c.row.id] = c.result]
    /\ task' = "recv"
    /\ current' = NoCommand
    /\ UNCHANGED <<process, chan, running, assets, unfetched, sent, aftermath>>

(* Mutant: the command is put aside for a retry, its oneshot with it, that *)
(* nobody makes.                                                           *)
InsertFailed_PutAside ==
    /\ task = "insert"
    /\ \E c \in current : lost' = lost \union {c.row.id}
    /\ strayed' = TRUE
    /\ everStrayed' = TRUE
    /\ task' = "recv"
    /\ current' = NoCommand
    /\ UNCHANGED <<process, chan, running, assets, rows, unfetched, sent, answers, late>>

(* The INSERT reports an error (the connection is lost): the row is stored *)
(* already, or it is not, and the INSERT may be under way or given up.     *)
InsertFailed ==
    /\ task = "insert"
    /\ \E c \in current :
          /\ \/ rows' = Append(rows, c.row) /\ UNCHANGED aftermath
             \/ /\ late' = late \union {c.row}
                /\ lost' = lost \union {c.row.id}
                /\ strayed' = TRUE
                /\ everStrayed' = TRUE
                /\ UNCHANGED rows
          /\ answers' = [answers EXCEPT ![c.row.id] = Err("Database")]
    /\ task' = "recv"
    /\ current' = NoCommand
    /\ UNCHANGED <<process, chan, running, assets, unfetched, sent>>

(* An INSERT that nobody waits for stores its row.  The book of a running  *)
(* process was built without it; and a later command that is logged, or    *)
(* may yet be, was executed without it.                                    *)
LateInsert ==
    \E row \in late :
        /\ rows' = Append(rows, row)
        /\ late' = late \ {row}
        /\ strayed' = (strayed \/ process # "down")
        /\ everStrayed' = \/ everStrayed
                          \/ process # "down"
                          \/ \E other \in Range(rows) \union late : other.id > row.id
        /\ UNCHANGED <<process, chan, task, running, assets, current, unfetched, sent, answers, lost>>

(* Bootstrap commands are executed and neither logged nor answered.        *)
RecvBootstrap ==
    /\ Receiving /\ running
    /\ Head(chan).tag = "Bootstrap"
    /\ ~Panics(assets, Head(chan).row.cmd)
    /\ assets' = Execute(assets, Head(chan).row.cmd).assets
    /\ chan' = Tail(chan)
    /\ UNCHANGED <<process, task, running, current, rows, unfetched, sent, answers, aftermath>>

RecvBootstrapPanics ==
    /\ Receiving /\ running
    /\ Head(chan).tag = "Bootstrap"
    /\ PanicOn(Head(chan).row.cmd)
    /\ UNCHANGED rows
-----------------------------------------------------------------------------
(* The process dies, by a crash or by start_fullstack returning: only the  *)
(* table survives, and the INSERT under way.                               *)
Die ==
    /\ process' = "down"
    /\ chan' = <<>>
    /\ task' = "gone"
    /\ assets' = NewAssets
    /\ current' = NoCommand
    /\ late' = late \union {c.row : c \in current}
    /\ unfetched' = <<>>
    /\ answers' = [id \in DOMAIN answers |->
                      IF answers[id] = Waiting THEN Dropped ELSE answers[id]]
    /\ lost' = {}
    /\ strayed' = FALSE
    /\ UNCHANGED <<running, rows, sent, everStrayed>>

Crash == process # "down" /\ Die

(* The engine task has ended and start_fullstack follows: te_handle is     *)
(* resolved, in the select! or after it; or the send of the next row       *)
(* fails, which init_from_db unwraps.                                      *)
Exit ==
    /\ process # "down"
    /\ task = "gone"
    /\ process = "boot" => unfetched # <<>>
    /\ Die

(* A new process: a fresh engine, and the SELECT of init_from_db.          *)
Start ==
    /\ process = "down"
    /\ process' = "boot"
    /\ task' = "recv"
    /\ running' = TRUE
    /\ unfetched' = rows
    /\ UNCHANGED <<chan, assets, current, rows, sent, answers, aftermath>>

(* Mutant: the rows are replayed from the newest.                          *)
FetchRow_NewestFirst ==
    /\ process = "boot"
    /\ Len(chan) < Capacity
    /\ unfetched # <<>>
    /\ chan' = Append(chan, Bootstrap(Last(unfetched)))
    /\ unfetched' = Front(unfetched)
    /\ UNCHANGED <<process, task, running, assets, current, rows, sent, answers, aftermath>>

(* One row of the stream is sent as a Bootstrap command: any of those not  *)
(* yet seen.                                                               *)
FetchRow ==
    /\ process = "boot"
    /\ task # "gone"
    /\ Len(chan) < Capacity
    /\ \E i \in DOMAIN unfetched :
          /\ chan' = Append(chan, Bootstrap(unfetched[i]))
          /\ unfetched' = RemoveAt(unfetched, i)
          /\ strayed' = (strayed \/ i # 1)
          /\ everStrayed' = (everStrayed \/ i # 1)
    /\ UNCHANGED <<process, task, running, assets, current, rows, sent, answers, late, lost>>

(* init_from_db returns and the webserver starts; Bootstrap commands may   *)
(* still be queued.                                                        *)
Serve ==
    /\ process = "boot"
    /\ unfetched = <<>>
    /\ process' = "serving"
    /\ UNCHANGED <<chan, task, running, assets, current, rows, unfetched, sent, answers, aftermath>>

Supervise == \/ RecvSuspended \/ RecvSuspend \/ RecvResume \/ RecvShutdown
             \/ RecvTrade \/ RecvTradePanics \/ RecvBootstrap \/ RecvBootstrapPanics
             \/ Inserted

Boot == FetchRow \/ Serve

Next ==
    \/ \E order \in Menu : Send(Place(order))
    \/ \E target \in DOMAIN sent : answers[target].tag = "Ok" /\ Send(Cancel(target))
    \/ \E tag \in Controls : SendControl(tag)
    \/ RequestShutdown \/ SendShutdown
    \/ Supervise
    \/ InsertFailed
    \/ LateInsert
    \/ Crash
    \/ Exit
    \/ Start
    \/ Boot

Spec == Init /\ [][Next]_vars

(* The engine task and init_from_db are polled until they finish, an       *)
(* INSERT completes or fails, start_fullstack gets its place in the        *)
(* channel (waiting senders are served in turn) and returns once the       *)
(* engine task has.                                                        *)
FairSpec == /\ Spec
            /\ WF_vars(Supervise \/ InsertFailed) /\ WF_vars(Boot)
            /\ WF_vars(SendShutdown) /\ WF_vars(Exit)
-----------------------------------------------------------------------------
(* The rows still to be replayed into the engine: Bootstrap commands are   *)
(* the first in the channel.                                               *)
Queued == CHOOSE n \in 0..Len(chan) : \A i \in DOMAIN chan : chan[i].tag = "Bootstrap" <=> i <= n
ToReplay == [i \in 1..(Queued + Len(unfetched)) |->
                IF i <= Queued THEN chan[i].row ELSE unfetched[i - Queued]]
InFlight == IF current = NoCommand THEN <<>> ELSE <<(CHOOSE c \in current : TRUE).row>>

(* The book in memory is the one a restart would rebuild: replaying what   *)
(* is still to be replayed gives the replay of the whole log and of the    *)
(* command being logged.  So in every life of the process, but one in      *)
(* which an INSERT was reported to have failed and had not stored its row, *)
(* or a row given up earlier landed, or the SELECT (it has no ORDER BY)    *)
(* yielded the rows in another order than they were stored.                *)
BookIsReplayOfLog ==
    process # "down" /\ task # "gone" /\ ~strayed =>
        Replay(assets, ToReplay) = Replay(NewAssets, rows \o InFlight)

(* A sender got the result of its command from the engine, good or bad.    *)
Confirmed(id) ==
    /\ id \in DOMAIN answers
    /\ answers[id].tag = "Ok" \/ (answers[id].tag = "Err" /\ answers[id].error # "Database")

(* A client that got a result from the engine (the order's, good or bad)   *)
(* has its command in the log, through any number of restarts.             *)
AnsweredIsLogged ==
    \A id \in DOMAIN answers : Confirmed(id) => \E i \in DOMAIN rows : rows[i].id = id

(* The log holds each command at most once, through failed INSERTs,        *)
(* crashes and restarts, and in the order the channel delivered them: only *)
(* a row whose sender never got a result (it was told of a database error, *)
(* or its process died) may come behind the row of a later command.        *)
LogFollowsChannel ==
    \A i, j \in DOMAIN rows : i < j =>
        /\ rows[i].id # rows[j].id
        /\ Confirmed(rows[j].id) => rows[i].id < rows[j].id

(* Whatever was logged can be replayed: a start of the process runs into a *)
(* panic of the engine (one with overflow checks) only if the log once     *)
(* parted from the book that clients saw.  That is, a command was executed *)
(* and not logged, a row landed behind those of commands executed without  *)
(* it, or some SELECT yielded the rows out of order.                       *)
BootPanicCause == process = "boot" /\ task = "gone" => everStrayed

(* No bid meets an ask in the book of any life of the process: not while   *)
(* the log is being replayed, nor when rows are missing from it because    *)
(* their INSERT failed, nor in whatever order the SELECT yields them.      *)
NeverCrossed ==
    \A bid, ask \in DOMAIN assets.book :
        bid.side = "Buy" /\ ask.side = "Sell" => bid.price < ask.price

(* A sender waits exactly as long as an engine that runs has its command   *)
(* in the channel or at its INSERT: whatever happens to the command or to  *)
(* the engine, its oneshot is used or dropped in the same step, and never  *)
(* before the command is off the engine's hands.                           *)
InHand(id) ==
    \/ \E i \in DOMAIN chan : chan[i].tag = "Trade" /\ chan[i].row.id = id
    \/ \E c \in current : c.row.id = id
WaitsWhileInHand ==
    \A id \in DOMAIN answers : answers[id] = Waiting <=> task # "gone" /\ InHand(id)

(* Every command sent is answered or its sender learns that it never will. *)
Answered == \A id \in 1..MaxCmds :
    (id \in DOMAIN answers /\ answers[id] = Waiting)
        ~> (id \in DOMAIN answers /\ answers[id] # Waiting)

(* A requested shutdown completes, however full the channel is, whatever   *)
(* the INSERT in flight does and if the engine panics meanwhile, unless    *)
(* the engine is suspended.                                                *)
ShutdownCompletes == process = "closing" ~> (process = "down" \/ ~running)

(* A suspended engine that is sent Resume runs again: "resume the engine   *)
(* if suspended" (mod.rs, Resume).                                         *)
ResumeResumes ==
    (~running /\ \E i \in DOMAIN chan : chan[i].tag = "Resume") ~> (running \/ process # "serving")

(* A cancel that is answered "order not found" named an order that does    *)
(* not rest in the book: order_uuids is the "map of order uuids to order   *)
(* indexes and assets" (mod.rs, Assets).                                   *)
CancelFindsRestingOrder ==
    \A id \in DOMAIN sent :
        sent[id].op = "cancel" /\ answers[id].tag = "Err" /\ process = "serving" /\ ToReplay = <<>>
            => answers[sent[id].target].order_index \intersect DOMAIN assets.book = {}
=============================================================================
