--------------------------- MODULE ExchangeProofs ---------------------------
(***************************************************************************)
(* What holds of the trading engine, for every menu of orders, capacity    *)
(* and number of commands, and of the order path end to end, for every set *)
(* of clients and orders and any number of crashes, restarts and failed    *)
(* statements.                                                             *)
(*                                                                         *)
(* The engine (TradingEngine):                                             *)
(*  - AnsweredIsLogged is inductive over the types.                        *)
(*  - LogFollowsChannel follows from InOrder, which orders the log, the    *)
(*    rows that may yet land, the command at its INSERT and the channel    *)
(*    together.                                                            *)
(*  - BookIsReplayOfLog and BootPanicCause need BookInv: how much of the   *)
(*    log this life of the process has replayed (Behind), and that the log *)
(*    itself replays without a panic (Story), as long as nothing parted    *)
(*    the book from the log, in this life or in any.                       *)
(*  - WaitsWhileInHand needs Hands: an engine that is gone holds nothing.  *)
(*  - NeverCrossed needs SoundAssets; that placing an order keeps it is    *)
(*    shown in MatchingProofs, of any book.                                *)
(*                                                                         *)
(* Replay is a recursive function.  That it satisfies its equation, and    *)
(* what it gives on a longer log or from the middle of one, is proved by   *)
(* induction (NatInd).  For the replay it is nowhere opened how a command  *)
(* changes the book: the replay is right whatever Execute does, as long as *)
(* it is a function.                                                       *)
(*                                                                         *)
(* The order path (Exchange): LoggedOrderIsReserved, that the composition  *)
(* implements Funds, and what FundsProofs shows, which thereby holds of    *)
(* the composition.  Both need to know which command of the engine belongs *)
(* to which request at which await, across the channel, the INSERT, the    *)
(* log and the ends of the process.  EInv says it in four parts: commands  *)
(* and requests pair up (Tagged); what exists of a request at each await   *)
(* of its handler (Clients); commands are answered in the order they were  *)
(* sent in, and those not answered sit at the INSERT or in the channel     *)
(* (Waits); what the engine remembers of executed commands (Executed).  It *)
(* rests on the engine's own invariants, which hold here because every     *)
(* step of the composition is one of TradingEngine or none of its business *)
(* (EngineNext).                                                           *)
(*                                                                         *)
(* The refinement is then shown step by step: the lemmas Refine... say     *)
(* which action of Funds each step is, in terms of what a request can see  *)
(* of its command (Fate, Reply) and of the commands not yet answered       *)
(* (Pending).                                                              *)
(***************************************************************************)
EXTENDS Exchange, SequenceTheorems, FiniteSetTheorems, WellFoundedInduction, TLAPS

(* Sequences by their elements: what the proofs use of Append, Tail and    *)
(* RemoveAt.                                                               *)
LEMMA Appended ==
  ASSUME NEW S, NEW s \in Seq(S), NEW e \in S
  PROVE  /\ Append(s, e) \in Seq(S)
         /\ Len(s) \in Nat /\ DOMAIN s = 1..Len(s)
         /\ Len(Append(s, e)) = Len(s) + 1 /\ DOMAIN Append(s, e) = 1..(Len(s) + 1)
         /\ Append(s, e)[Len(s) + 1] = e
         /\ \A i \in 1..Len(s) : Append(s, e)[i] = s[i]
  BY AppendProperties, LenProperties

LEMMA Tailed ==
  ASSUME NEW S, NEW s \in Seq(S), s # <<>>
  PROVE  /\ Tail(s) \in Seq(S) /\ Head(s) \in S /\ Head(s) = s[1]
         /\ Len(s) \in Nat /\ DOMAIN s = 1..Len(s) /\ 1 \in DOMAIN s
         /\ Len(Tail(s)) = Len(s) - 1 /\ DOMAIN Tail(s) = 1..(Len(s) - 1)
         /\ \A i \in 1..(Len(s) - 1) : Tail(s)[i] = s[i + 1]
  BY HeadTailProperties, LenProperties, EmptySeq

LEMMA Removed ==
  ASSUME NEW S, NEW s \in Seq(S), NEW i \in DOMAIN s
  PROVE  /\ RemoveAt(s, i) \in Seq(S)
         /\ Len(s) \in Nat /\ Len(RemoveAt(s, i)) = Len(s) - 1
         /\ DOMAIN RemoveAt(s, i) = 1..(Len(s) - 1)
         /\ \A j \in 1..(Len(s) - 1) : RemoveAt(s, i)[j] = IF j < i THEN s[j] ELSE s[j + 1]
<1> DEFINE a == SubSeq(s, 1, i - 1)
           b == SubSeq(s, i + 1, Len(s))
<1>1. Len(s) \in Nat /\ DOMAIN s = 1..Len(s) /\ i \in 1..Len(s) /\ \A j \in 1..Len(s) : s[j] \in S
  BY LenProperties, ElementOfSeq
<1>2. a \in Seq(S) /\ Len(a) = i - 1 /\ \A j \in 1..(i - 1) : a[j] = s[j]
  <2>1. \A j \in 1..(i - 1) : s[j] \in S BY <1>1
  <2> QED BY <1>1, <2>1, SubSeqProperties
<1>3. b \in Seq(S) /\ Len(b) = Len(s) - i /\ \A j \in 1..(Len(s) - i) : b[j] = s[i + j]
  <2>1. \A j \in (i + 1)..Len(s) : s[j] \in S BY <1>1
  <2> QED BY <1>1, <2>1, SubSeqProperties
<1> HIDE DEF a, b
<1>4. /\ a \o b \in Seq(S) /\ Len(a \o b) = Len(a) + Len(b)
      /\ \A j \in 1..(Len(a) + Len(b)) : (a \o b)[j] = IF j <= Len(a) THEN a[j] ELSE b[j - Len(a)]
  BY <1>2, <1>3, ConcatProperties
<1>5. ASSUME NEW j \in 1..(Len(s) - 1) PROVE (a \o b)[j] = IF j < i THEN s[j] ELSE s[j + 1]
  <2>1. j \in 1..(Len(a) + Len(b)) BY <1>1, <1>2, <1>3
  <2>2. CASE j < i
    <3>1. j \in 1..(i - 1) /\ j <= Len(a) BY <1>1, <1>2, <2>2
    <3> QED BY <1>2, <1>4, <2>1, <2>2, <3>1
  <2>3. CASE ~(j < i)
    <3>1. ~(j <= Len(a)) /\ j - Len(a) \in 1..(Len(s) - i) /\ i + (j - Len(a)) = j + 1
      BY <1>1, <1>2, <2>3
    <3> QED BY <1>3, <1>4, <2>1, <2>3, <3>1
  <2> QED BY <2>2, <2>3
<1>6. RemoveAt(s, i) = a \o b BY DEF RemoveAt, a, b
<1>7. Len(a \o b) = Len(s) - 1 BY <1>1, <1>2, <1>3, <1>4
<1> QED BY <1>1, <1>4, <1>5, <1>6, <1>7, LenProperties

-----------------------------------------------------------------------------
Cmds == {Place(order) : order \in Menu} \union {Cancel(target) : target \in Nat}
Rows == [id : Nat \ {0}, cmd : Cmds]
Commands == [tag : {"Trade", "Bootstrap"}, row : Rows]
                \union [tag : {"Suspend", "Resume", "Shutdown"}]

(* What every variable holds; assets is whatever Execute gives.            *)
Types ==
    /\ process \in {"boot", "serving", "closing", "stopping", "down"}
    /\ task \in {"recv", "insert", "gone"}
    /\ chan \in Seq(Commands)
    /\ rows \in Seq(Rows) /\ unfetched \in Seq(Rows)
    /\ sent \in Seq(Cmds)
    /\ answers = [id \in 1..Len(sent) |-> answers[id]]
    /\ \A c \in current : c.row \in Rows
    /\ \A c, d \in current : c = d
    /\ current = {} <=> task # "insert"
    /\ process = "down" => task = "gone"
    /\ late \subseteq Rows
    /\ strayed \in BOOLEAN /\ everStrayed \in BOOLEAN

(* The messages of the channel by what they carry.                         *)
LEMMA CommandTypes ==
  ASSUME NEW m \in Commands
  PROVE  /\ m.tag \in {"Trade", "Bootstrap", "Suspend", "Resume", "Shutdown"}
         /\ m.tag \in {"Trade", "Bootstrap"} => m.row \in Rows
  BY DEF Commands

LEMMA TypesInit == Init => Types
<1> SUFFICES ASSUME Init PROVE Types OBVIOUS
<1>1. Len(sent) = 0 /\ \A S : <<>> \in Seq(S) BY EmptySeq DEF Init
<1>2. answers = [id \in 1..Len(sent) |-> answers[id]] BY <1>1 DEF Init
<1> QED BY <1>1, <1>2 DEF Init, Types, NoCommand

(* Dropping answers leaves them a sequence.                                *)
LEMMA TypesDropped ==
  ASSUME Types, NEW queue, DropQueued(queue) \/ UNCHANGED answers, UNCHANGED sent
  PROVE  answers' = [id \in 1..Len(sent') |-> answers'[id]]
  BY DEF Types, DropQueued

LEMMA TypesNext == Types /\ [Next]_vars => Types'
<1> SUFFICES ASSUME Types, [Next]_vars PROVE Types' OBVIOUS
<1>1. ASSUME NEW cmd \in Cmds, Send(cmd) PROVE Types'
  <2>1. Len(sent) \in Nat BY LenProperties DEF Types
  <2>2. Trade(Row(Len(sent) + 1, cmd)) \in Commands
    BY <2>1 DEF Trade, Row, Commands, Rows
  <2>3. chan' \in Seq(Commands) /\ sent' \in Seq(Cmds) /\ Len(sent') = Len(sent) + 1
    BY <1>1, <2>2, Appended DEF Send, Types
  <2>4. answers' = [id \in 1..Len(sent') |-> answers'[id]]
    <3> DEFINE A == {answers[id] : id \in 1..Len(sent)} \union {Waiting}
    <3>1. answers \in [1..Len(sent) -> A] BY DEF Types
    <3>2. answers \in Seq(A) BY <2>1, <3>1, SeqDef
    <3>3. Len(answers) = Len(sent) BY <2>1, <3>1, <3>2, LenProperties
    <3> HIDE DEF A
    <3>4. Append(answers, Waiting) \in Seq(A) /\ Len(Append(answers, Waiting)) = Len(sent) + 1
      BY <3>2, <3>3, Appended DEF A
    <3>5. Append(answers, Waiting) \in [1..(Len(sent) + 1) -> A] BY <3>4, LenProperties
    <3> QED BY <1>1, <2>3, <3>5 DEF Send
  <2> QED BY <1>1, <2>3, <2>4 DEF Send, Types, aftermath
<1>2. ASSUME NEW tag \in {"Suspend", "Resume", "Shutdown"}, chan' = Append(chan, Control(tag)),
             UNCHANGED <<task, current, rows, unfetched, sent, answers, aftermath>>,
             process' \in {process, "stopping"}
      PROVE  Types'
  <2>1. Control(tag) \in Commands BY DEF Control, Commands
  <2>2. chan' \in Seq(Commands) BY <1>2, <2>1, Appended DEF Types
  <2> QED BY <1>2, <2>2 DEF Types, aftermath
<1>3. ASSUME NEW queue, DropQueued(queue) \/ UNCHANGED answers,
             \/ chan # <<>> /\ chan' = Tail(chan) /\ UNCHANGED task
             \/ chan' = <<>> /\ task = "recv" /\ task' = "gone"
             \/ UNCHANGED <<chan, task>>,
             UNCHANGED <<current, rows, unfetched, sent, aftermath>>,
             process' \in {process, "closing", "serving"}
      PROVE  Types'
  <2>1. answers' = [id \in 1..Len(sent') |-> answers'[id]] BY <1>3, TypesDropped
  <2>2. chan' \in Seq(Commands)
    <3>1. CASE chan # <<>> /\ chan' = Tail(chan) BY <3>1, Tailed DEF Types
    <3>2. CASE chan' = <<>> BY <3>2, EmptySeq
    <3> QED BY <1>3, <3>1, <3>2 DEF Types
  <2> QED BY <1>3, <2>1, <2>2 DEF Types, aftermath
<1>4. CASE RecvTrade
  <2>1. chan' \in Seq(Commands) /\ Head(chan) \in Commands
    BY <1>4, Tailed DEF RecvTrade, Receiving, Types
  <2>2. Head(chan).row \in Rows BY <1>4, <2>1, CommandTypes DEF RecvTrade
  <2> DEFINE c == [row |-> Head(chan).row, result |-> Execute(assets, Head(chan).row.cmd).result]
  <2>3. current' = {c} /\ c.row = Head(chan).row BY <1>4 DEF RecvTrade
  <2> HIDE DEF c
  <2>4. UNCHANGED <<process, rows, unfetched, sent, answers, aftermath>> /\ task' = "insert" /\ task = "recv"
    BY <1>4 DEF RecvTrade, Receiving
  <2> QED BY <2>1, <2>2, <2>3, <2>4 DEF Types, aftermath
<1>5. CASE Inserted \/ InsertFailed
  <2>1. PICK c \in current : /\ rows' = Append(rows, c.row) \/ UNCHANGED rows
                             /\ late' \in {late, late \union {c.row}}
    BY <1>5 DEF Inserted, InsertFailed, aftermath
  <2>2. c.row \in Rows BY DEF Types
  <2>3. rows' \in Seq(Rows)
    <3>1. Append(rows, c.row) \in Seq(Rows) BY <2>2, Appended DEF Types
    <3> QED BY <2>1, <3>1 DEF Types
  <2>4. late' \subseteq Rows BY <2>1, <2>2 DEF Types
  <2>5. answers' = [id \in 1..Len(sent') |-> answers'[id]]
    BY <1>5 DEF Inserted, InsertFailed, Types
  <2>6. strayed' \in BOOLEAN /\ everStrayed' \in BOOLEAN
    BY <1>5 DEF Inserted, InsertFailed, aftermath, Types
  <2> QED BY <1>5, <2>3, <2>4, <2>5, <2>6 DEF Inserted, InsertFailed, Types, NoCommand
<1>6. CASE Die
  <2>1. rows' \in Seq(Rows) BY <1>6 DEF Die, Types
  <2>2. answers' = [id \in 1..Len(sent') |-> answers'[id]] BY <1>6 DEF Die, Types
  <2>3. late' \subseteq Rows BY <1>6 DEF Die, Types
  <2> QED BY <1>6, <2>1, <2>2, <2>3, EmptySeq DEF Die, Types, NoCommand
<1>7. CASE Start BY <1>7 DEF Start, Types, aftermath
<1>8. CASE FetchRow
  <2>1. PICK i \in DOMAIN unfetched : /\ chan' = Append(chan, Bootstrap(unfetched[i]))
                                      /\ unfetched' = RemoveAt(unfetched, i)
    BY <1>8 DEF FetchRow
  <2>2. unfetched' \in Seq(Rows) BY <2>1, Removed DEF Types
  <2>3. unfetched[i] \in Rows BY <2>1, ElementOfSeq, LenProperties DEF Types
  <2>4. Bootstrap(unfetched[i]) \in Commands BY <2>3 DEF Bootstrap, Commands
  <2>5. chan' \in Seq(Commands) BY <2>1, <2>4, Appended DEF Types
  <2>6. strayed' \in BOOLEAN /\ everStrayed' \in BOOLEAN /\ UNCHANGED late
    BY <1>8 DEF FetchRow, Types
  <2> QED BY <1>8, <2>2, <2>5, <2>6 DEF FetchRow, Types
<1>9. CASE UNCHANGED vars BY <1>9 DEF vars, aftermath, Types
<1>10. ASSUME NEW order \in Menu, Send(Place(order)) PROVE Types'
  BY <1>1, <1>10 DEF Cmds
<1>11. ASSUME NEW target \in DOMAIN sent, Send(Cancel(target)) PROVE Types'
  <2>1. target \in Nat BY LenProperties DEF Types
  <2> QED BY <1>1, <1>11, <2>1 DEF Cmds
<1>12. ASSUME NEW tag \in Controls, SendControl(tag) PROVE Types'
  BY <1>2, <1>12, ControlsAssumption DEF SendControl
<1>13. CASE RequestShutdown BY <1>3, <1>13 DEF RequestShutdown
<1>14. CASE SendShutdown BY <1>2, <1>14 DEF SendShutdown
<1>15. CASE RecvSuspended \/ RecvSuspend \/ RecvResume \/ RecvBootstrap
  BY <1>3, <1>15 DEF RecvSuspended, RecvSuspend, RecvResume, RecvBootstrap, Receiving
<1>16. CASE RecvShutdown \/ RecvTradePanics \/ RecvBootstrapPanics
  BY <1>3, <1>16 DEF RecvShutdown, RecvTradePanics, RecvBootstrapPanics, PanicOn, Receiving
<1>17. CASE Serve BY <1>3, <1>17 DEF Serve
<1>18. CASE LateInsert
  <2>1. PICK row \in late : rows' = Append(rows, row) /\ late' = late \ {row}
    BY <1>18 DEF LateInsert
  <2>2. rows' \in Seq(Rows) BY <2>1, Appended DEF Types
  <2>3. strayed' \in BOOLEAN /\ everStrayed' \in BOOLEAN BY <1>18 DEF LateInsert, Types
  <2> QED BY <1>18, <2>1, <2>2, <2>3 DEF LateInsert, Types
<1> QED
  BY <1>4, <1>5, <1>6, <1>7, <1>8, <1>9, <1>10, <1>11, <1>12, <1>13, <1>14, <1>15, <1>16, <1>17, <1>18
  DEF Next, Supervise, Boot, Crash, Exit

(* Type correctness of the trading engine task, its log and its process.   *)
THEOREM TradingEngineTypes == Spec => []Types
  BY TypesInit, TypesNext, PTL DEF Spec
-----------------------------------------------------------------------------
(* What a step may do to the answers: a command whose answer becomes a     *)
(* result of the engine is logged in the same step.                        *)
LEMMA AnsweredStep ==
  ASSUME Types, Types', AnsweredIsLogged,
         \A i \in DOMAIN rows : i \in DOMAIN rows' /\ rows'[i] = rows[i],
         \A id \in DOMAIN answers' : \/ id \in DOMAIN answers /\ answers'[id] = answers[id]
                                     \/ answers'[id] \in {Waiting, Dropped, Err("Database")}
                                     \/ \E i \in DOMAIN rows' : rows'[i].id = id
  PROVE  AnsweredIsLogged'
<1>1. SUFFICES ASSUME NEW id \in DOMAIN answers', Confirmed(id)'
               PROVE  \E i \in DOMAIN rows' : rows'[i].id = id
  BY DEF AnsweredIsLogged
<1>2. answers'[id] \notin {Waiting, Dropped, Err("Database")}
  BY <1>1 DEF Confirmed, Waiting, Dropped, Err
<1>3. CASE id \in DOMAIN answers /\ answers'[id] = answers[id]
  <2>1. Confirmed(id) BY <1>1, <1>3 DEF Confirmed
  <2> QED BY <1>3, <2>1 DEF AnsweredIsLogged
<1> QED BY <1>1, <1>2, <1>3

LEMMA AnsweredNext == Types /\ Types' /\ AnsweredIsLogged /\ [Next]_vars => AnsweredIsLogged'
<1> SUFFICES ASSUME Types, Types', AnsweredIsLogged, [Next]_vars PROVE AnsweredIsLogged' OBVIOUS
<1>1. ASSUME NEW row \in Rows, rows' = Append(rows, row)
      PROVE  /\ \A i \in DOMAIN rows : i \in DOMAIN rows' /\ rows'[i] = rows[i]
             /\ \E i \in DOMAIN rows' : rows'[i] = row
  <2>1. rows \in Seq(Rows) BY DEF Types
  <2>2. /\ Len(rows) \in Nat /\ DOMAIN rows = 1..Len(rows) /\ DOMAIN rows' = 1..(Len(rows) + 1)
        /\ rows'[Len(rows) + 1] = row
        /\ \A j \in 1..Len(rows) : rows'[j] = rows[j]
    BY <1>1, <2>1, Appended
  <2> QED BY <2>2
<1>2. ASSUME UNCHANGED rows, NEW queue, DropQueued(queue) \/ UNCHANGED answers PROVE AnsweredIsLogged'
  <2>1. \A id \in DOMAIN answers' : id \in DOMAIN answers /\ answers'[id] \in {answers[id], Dropped}
    BY <1>2 DEF DropQueued
  <2> QED BY <1>2, <2>1, AnsweredStep
<1>3. ASSUME NEW cmd, Send(cmd) PROVE AnsweredIsLogged'
  <2> DEFINE A == {answers[id] : id \in 1..Len(sent)} \union {Waiting}
  <2>1. Len(sent) \in Nat /\ answers \in [1..Len(sent) -> A] BY LenProperties DEF Types
  <2>2. answers \in Seq(A) BY <2>1, SeqDef
  <2>3. Waiting \in A OBVIOUS
  <2> HIDE DEF A
  <2>4. answers' = Append(answers, Waiting) BY <1>3 DEF Send
  <2>5. /\ Len(answers) \in Nat /\ DOMAIN answers = 1..Len(answers)
        /\ DOMAIN answers' = 1..(Len(answers) + 1)
        /\ answers'[Len(answers) + 1] = Waiting
        /\ \A i \in 1..Len(answers) : answers'[i] = answers[i]
    BY <2>2, <2>3, <2>4, Appended
  <2>6. \A id \in DOMAIN answers' : \/ id \in DOMAIN answers /\ answers'[id] = answers[id]
                                    \/ answers'[id] = Waiting
    BY <2>5
  <2> QED BY <1>3, <2>6, AnsweredStep DEF Send
<1>4. CASE Inserted
  <2>1. PICK c \in current : rows' = Append(rows, c.row) /\ answers' = [answers EXCEPT ![c.row.id] = c.result]
    BY <1>4 DEF Inserted
  <2>2. \A id \in DOMAIN answers' : \/ id \in DOMAIN answers /\ answers'[id] = answers[id]
                                    \/ id = c.row.id
    BY <2>1
  <2>3. c.row \in Rows BY DEF Types
  <2> QED BY <1>1, <2>1, <2>2, <2>3, AnsweredStep
<1>5. CASE InsertFailed
  <2>1. PICK c \in current : /\ rows' = Append(rows, c.row) \/ UNCHANGED rows
                             /\ answers' = [answers EXCEPT ![c.row.id] = Err("Database")]
    BY <1>5 DEF InsertFailed
  <2>2. \A id \in DOMAIN answers' : id \in DOMAIN answers /\ answers'[id] \in {answers[id], Err("Database")}
    BY <2>1
  <2>3. c.row \in Rows BY DEF Types
  <2> QED BY <1>1, <2>1, <2>2, <2>3, AnsweredStep
<1>6. CASE Die
  <2>1. \A id \in DOMAIN answers' : id \in DOMAIN answers /\ answers'[id] \in {answers[id], Dropped}
    BY <1>6 DEF Die
  <2>2. UNCHANGED rows BY <1>6 DEF Die
  <2> QED BY <2>1, <2>2, AnsweredStep
<1>7. CASE \/ RecvSuspended \/ RecvSuspend \/ RecvResume \/ RecvShutdown \/ RecvBootstrap
           \/ RecvTrade \/ RecvTradePanics \/ RecvBootstrapPanics
  BY <1>2, <1>7
  DEF RecvSuspended, RecvSuspend, RecvResume, RecvShutdown, RecvBootstrap, RecvTrade, RecvTradePanics,
      RecvBootstrapPanics, PanicOn
<1>8. CASE \/ \E tag \in Controls : SendControl(tag)
           \/ RequestShutdown \/ SendShutdown \/ Start \/ FetchRow \/ Serve \/ UNCHANGED vars
  BY <1>2, <1>8 DEF SendControl, RequestShutdown, SendShutdown, Start, FetchRow, Serve, vars
<1>9. CASE LateInsert
  <2>1. PICK row \in late : rows' = Append(rows, row) /\ UNCHANGED answers BY <1>9 DEF LateInsert
  <2>2. row \in Rows BY DEF Types
  <2> QED BY <1>1, <2>1, <2>2, AnsweredStep
<1> QED
  BY <1>3, <1>4, <1>5, <1>6, <1>7, <1>8, <1>9 DEF Next, Supervise, Boot, Crash, Exit

(* A client that got a result from the engine has its command in the log,  *)
(* through any number of failures, crashes and restarts (try_event_log!    *)
(* awaits the INSERT before the result is sent).                           *)
THEOREM ResultsAreLogged == Spec => []AnsweredIsLogged
<1>1. Init => AnsweredIsLogged BY DEF Init, AnsweredIsLogged
<1> QED BY <1>1, AnsweredNext, TradingEngineTypes, PTL DEF Spec
-----------------------------------------------------------------------------
(* Where the number of a command can be: in the log, at the INSERT, in the *)
(* channel; and it was given out.                                          *)
IsTrade(k) == k \in DOMAIN chan /\ chan[k].tag = "Trade"

(* The log, the command at its INSERT and the channel are in the order the *)
(* commands were sent in.  The rows that may yet land are older than those *)
(* two, were never confirmed and are not in the log.                       *)
InOrder ==
    /\ LogFollowsChannel
    /\ \A i \in DOMAIN rows : /\ rows[i].id <= Len(sent)
                              /\ \A c \in current : rows[i].id < c.row.id
                              /\ \A k : IsTrade(k) => rows[i].id < chan[k].row.id
    /\ \A c \in current : /\ c.row.id <= Len(sent)
                          /\ \A k : IsTrade(k) => c.row.id < chan[k].row.id
    /\ \A k : IsTrade(k) => /\ chan[k].row.id <= Len(sent)
                            /\ \A l : IsTrade(l) /\ k < l => chan[k].row.id < chan[l].row.id
    /\ \A w \in late : /\ w.id <= Len(sent)
                       /\ \A c \in current : w.id < c.row.id
                       /\ \A k : IsTrade(k) => w.id < chan[k].row.id
                       /\ \A i \in DOMAIN rows : rows[i].id # w.id
                       /\ \A v \in late : v.id = w.id => v = w
                       /\ ~Confirmed(w.id)

(* Numbers and positions are numbers.                                      *)
LEMMA Numbers ==
  ASSUME Types
  PROVE  /\ Len(sent) \in Nat
         /\ \A i \in DOMAIN rows : i \in Nat /\ rows[i].id \in Nat
         /\ \A c \in current : c.row.id \in Nat
         /\ \A w \in late : w.id \in Nat
         /\ \A k : IsTrade(k) => k \in Nat /\ chan[k].row.id \in Nat
         /\ Len(chan) \in Nat /\ DOMAIN chan = 1..Len(chan)
<1>1. Len(sent) \in Nat /\ Len(chan) \in Nat /\ DOMAIN chan = 1..Len(chan) /\ DOMAIN rows = 1..Len(rows)
      /\ Len(rows) \in Nat
  BY LenProperties DEF Types
<1>2. ASSUME NEW i \in DOMAIN rows PROVE rows[i] \in Rows
  BY <1>1, ElementOfSeq DEF Types
<1>3. ASSUME NEW k \in DOMAIN chan, chan[k].tag = "Trade" PROVE chan[k].row \in Rows
  <2>1. chan[k] \in Commands BY <1>1, ElementOfSeq DEF Types
  <2> QED BY <1>3, <2>1, CommandTypes
<1> QED BY <1>1, <1>2, <1>3 DEF Types, Rows, IsTrade

(* What a step may do to the channel without spoiling the order: keep some *)
(* of its trade commands, in their order.                                  *)
Thinned ==
    \E shift \in Nat : \A k : IsTrade(k)' => k \in Nat /\ IsTrade(k + shift) /\ chan'[k] = chan[k + shift]

LEMMA ThinnedTail ==
  ASSUME Types, \/ chan' = chan \/ chan' = <<>> \/ (chan # <<>> /\ chan' = Tail(chan))
                \/ \E m \in Commands : m.tag # "Trade" /\ chan' = Append(chan, m)
  PROVE  Thinned
<1>1. CASE chan' = chan
  <2>1. \A k : IsTrade(k)' => k \in Nat /\ IsTrade(k + 0) /\ chan'[k] = chan[k + 0]
    BY <1>1, Numbers DEF IsTrade
  <2> QED BY <2>1 DEF Thinned
<1>2. CASE chan' = <<>> BY <1>2 DEF Thinned, IsTrade
<1>3. CASE chan # <<>> /\ chan' = Tail(chan)
  <2>1. \A k : IsTrade(k)' => k \in Nat /\ IsTrade(k + 1) /\ chan'[k] = chan[k + 1]
    BY <1>3, Tailed DEF IsTrade, Types
  <2> QED BY <2>1 DEF Thinned
<1>4. ASSUME NEW m \in Commands, m.tag # "Trade", chan' = Append(chan, m) PROVE Thinned
  <2>1. \A k : IsTrade(k)' => k \in Nat /\ IsTrade(k + 0) /\ chan'[k] = chan[k + 0]
    BY <1>4, Appended DEF IsTrade, Types
  <2> QED BY <2>1 DEF Thinned
<1> QED BY <1>1, <1>2, <1>3, <1>4

(* A result is given out only in the step that logs its command.           *)
LEMMA ConfirmedDrop ==
  ASSUME NEW queue, DropQueued(queue) \/ UNCHANGED answers \/ Die, NEW id, Confirmed(id)'
  PROVE  Confirmed(id)
<1>1. id \in DOMAIN answers /\ answers'[id] \in {answers[id], Dropped}
  BY DEF DropQueued, Die, Confirmed
<1>2. answers'[id] # Dropped BY DEF Confirmed, Dropped
<1> QED BY <1>1, <1>2 DEF Confirmed

LEMMA ConfirmedInsert ==
  ASSUME NEW c, NEW ans, answers' = [answers EXCEPT ![c.row.id] = ans], NEW id, Confirmed(id)',
         id = c.row.id => ans = Err("Database")
  PROVE  Confirmed(id)
<1>1. id \in DOMAIN answers /\ answers'[id] \in {answers[id], Err("Database")}
  BY DEF Confirmed
<1>2. answers'[id] # Err("Database") BY DEF Confirmed, Err
<1> QED BY <1>1, <1>2 DEF Confirmed

(* A step that logs nothing new but, perhaps, the command at its INSERT,   *)
(* or leaves that INSERT under way.                                        *)
LEMMA InOrderStep ==
  ASSUME Types, Types', InOrder, Thinned, UNCHANGED sent,
         current' \in {current, {}},
         \/ UNCHANGED rows
         \/ current' = {} /\ \E c \in current : rows' = Append(rows, c.row),
         \/ UNCHANGED late
         \/ /\ late' = late \union {c.row : c \in current} /\ current' = {} /\ UNCHANGED rows
            /\ \A c \in current : ~Confirmed(c.row.id)',
         \A id : Confirmed(id)' => \/ Confirmed(id)
                                   \/ \E c \in current : id = c.row.id
  PROVE  InOrder'
<1>1. PICK shift \in Nat : \A k : IsTrade(k)' => k \in Nat /\ IsTrade(k + shift) /\ chan'[k] = chan[k + shift]
  BY DEF Thinned
<1>2. ASSUME NEW i \in DOMAIN rows', rows # rows'
      PROVE  \/ i \in DOMAIN rows /\ rows'[i] = rows[i]
             \/ i = Len(rows) + 1 /\ \E c \in current : rows'[i] = c.row
  <2>1. PICK c \in current : rows' = Append(rows, c.row) BY <1>2
  <2>2. c.row \in Rows BY DEF Types
  <2>3. /\ Len(rows) \in Nat /\ DOMAIN rows = 1..Len(rows) /\ DOMAIN rows' = 1..(Len(rows) + 1)
        /\ rows'[Len(rows) + 1] = c.row
        /\ \A j \in 1..Len(rows) : rows'[j] = rows[j]
    BY <2>1, <2>2, Appended DEF Types
  <2>4. i \in DOMAIN rows \/ i = Len(rows) + 1 BY <1>2, <2>3
  <2> QED BY <2>1, <2>3, <2>4
<1>3. ASSUME NEW i \in DOMAIN rows'
      PROVE  /\ rows'[i].id <= Len(sent)
             /\ \A k : IsTrade(k)' => rows'[i].id < chan'[k].row.id
             /\ \A c \in current' : rows'[i].id < c.row.id
  BY <1>1, <1>2 DEF InOrder
<1>4. LogFollowsChannel'
  <2>1. SUFFICES ASSUME NEW i \in DOMAIN rows', NEW j \in DOMAIN rows', i < j
                 PROVE  rows'[i].id # rows'[j].id /\ (Confirmed(rows[j].id)' => rows'[i].id < rows'[j].id)
    BY DEF LogFollowsChannel
  <2>2. ASSUME NEW m \in DOMAIN rows, NEW id, id = rows[m].id, Confirmed(id)' PROVE Confirmed(id)
    <3>1. \A c \in current : id < c.row.id /\ id \in Nat /\ c.row.id \in Nat
      BY <2>2, Numbers DEF InOrder
    <3>2. \A c \in current : id # c.row.id BY <3>1
    <3> QED BY <2>2, <3>2
  <2>3. CASE rows' = rows BY <2>1, <2>2, <2>3 DEF InOrder, LogFollowsChannel
  <2>4. CASE rows' # rows
    <3>1. j \in Nat /\ i \in Nat /\ Len(rows) \in Nat /\ DOMAIN rows = 1..Len(rows)
      BY Numbers, LenProperties DEF Types
    <3>2. i \in DOMAIN rows /\ rows'[i] = rows[i] BY <1>2, <2>1, <2>4, <3>1
    <3>3. CASE j \in DOMAIN rows /\ rows'[j] = rows[j]
      BY <2>1, <2>2, <3>2, <3>3 DEF InOrder, LogFollowsChannel
    <3>4. ASSUME NEW c \in current, rows'[j] = c.row
          PROVE  rows'[i].id < rows'[j].id /\ rows'[i].id # rows'[j].id
      <4>1. rows[i].id < c.row.id /\ rows[i].id \in Nat /\ c.row.id \in Nat
        BY <3>2, Numbers DEF InOrder
      <4> QED BY <3>2, <3>4, <4>1
    <3> QED BY <1>2, <2>4, <3>3, <3>4
  <2> QED BY <2>3, <2>4
<1>5. ASSUME NEW k, IsTrade(k)', NEW l, IsTrade(l)', k < l PROVE chan'[k].row.id < chan'[l].row.id
  BY <1>1, <1>5 DEF InOrder
<1>6. ASSUME NEW k, IsTrade(k)'
      PROVE  chan'[k].row.id <= Len(sent) /\ \A c \in current' : c.row.id < chan'[k].row.id
  BY <1>1, <1>6 DEF InOrder
<1>7. \A c \in current' : c.row.id <= Len(sent) BY DEF InOrder
<1>8. ASSUME NEW w \in late, w \in late'
      PROVE  /\ w.id <= Len(sent)
             /\ \A c \in current' : w.id < c.row.id
             /\ \A k : IsTrade(k)' => w.id < chan'[k].row.id
             /\ \A i \in DOMAIN rows' : rows'[i].id # w.id
             /\ ~Confirmed(w.id)'
  <2>1. \A c \in current : w.id < c.row.id /\ w.id \in Nat /\ c.row.id \in Nat
    BY Numbers DEF InOrder
  <2>2. \A c \in current : w.id # c.row.id BY <2>1
  <2>3. ~Confirmed(w.id)' BY <2>2 DEF InOrder
  <2>4. \A i \in DOMAIN rows' : rows'[i].id # w.id
    BY <1>2, <2>2 DEF InOrder
  <2>5. \A k : IsTrade(k)' => w.id < chan'[k].row.id BY <1>1 DEF InOrder
  <2> QED BY <2>3, <2>4, <2>5 DEF InOrder
<1>9. ASSUME NEW c \in current, c.row \in late', late' # late
      PROVE  /\ c.row.id <= Len(sent)
             /\ \A k : IsTrade(k)' => c.row.id < chan'[k].row.id
             /\ \A i \in DOMAIN rows' : rows'[i].id # c.row.id
             /\ ~Confirmed(c.row.id)'
             /\ \A v \in late : v.id # c.row.id
             /\ current' = {}
  <2>1. \A i \in DOMAIN rows : rows[i].id < c.row.id /\ rows[i].id \in Nat /\ c.row.id \in Nat
    BY Numbers DEF InOrder
  <2>2. \A i \in DOMAIN rows : rows[i].id # c.row.id BY <2>1
  <2>3. \A v \in late : v.id < c.row.id /\ v.id \in Nat /\ c.row.id \in Nat
    BY Numbers DEF InOrder
  <2>4. \A v \in late : v.id # c.row.id BY <2>3
  <2>5. \A k : IsTrade(k)' => c.row.id < chan'[k].row.id BY <1>1 DEF InOrder
  <2> QED BY <1>9, <2>2, <2>4, <2>5 DEF InOrder
<1>10. ASSUME NEW w \in late'
       PROVE  w \in late \/ (late' # late /\ \E c \in current : current = {c} /\ w = c.row)
  BY DEF Types
<1>11. ASSUME NEW w \in late', NEW v \in late', v.id = w.id PROVE v = w
  <2>1. CASE w \in late /\ v \in late BY <1>11, <2>1 DEF InOrder
  <2>2. CASE w \in late /\ v \notin late BY <1>9, <1>10, <1>11, <2>2
  <2>3. CASE w \notin late /\ v \in late BY <1>9, <1>10, <1>11, <2>3
  <2>4. CASE w \notin late /\ v \notin late BY <1>10, <1>11, <2>4
  <2> QED BY <2>1, <2>2, <2>3, <2>4
<1>12. ASSUME NEW w \in late'
       PROVE  /\ w.id <= Len(sent)
              /\ \A c \in current' : w.id < c.row.id
              /\ \A k : IsTrade(k)' => w.id < chan'[k].row.id
              /\ \A i \in DOMAIN rows' : rows'[i].id # w.id
              /\ ~Confirmed(w.id)'
  <2>1. CASE w \in late BY <1>8, <2>1
  <2>2. CASE w \notin late BY <1>9, <1>10, <2>2
  <2> QED BY <2>1, <2>2
<1> QED BY <1>3, <1>4, <1>5, <1>6, <1>7, <1>11, <1>12 DEF InOrder

(* A row that nobody waits for is stored behind the others.                *)
LEMMA InOrderLate ==
  ASSUME Types, Types', InOrder, LateInsert
  PROVE  InOrder'
<1>1. PICK row \in late : /\ rows' = Append(rows, row) /\ late' = late \ {row}
                          /\ UNCHANGED <<chan, current, sent, answers>>
  BY DEF LateInsert
<1>2. /\ Len(rows) \in Nat /\ DOMAIN rows = 1..Len(rows) /\ DOMAIN rows' = 1..(Len(rows) + 1)
      /\ rows'[Len(rows) + 1] = row
      /\ \A j \in 1..Len(rows) : rows'[j] = rows[j]
  BY <1>1, Appended DEF Types
<1>3. ASSUME NEW i \in DOMAIN rows'
      PROVE  (i \in DOMAIN rows /\ rows'[i] = rows[i]) \/ (i = Len(rows) + 1 /\ rows'[i] = row)
  BY <1>2
<1>4. \A id : Confirmed(id)' <=> Confirmed(id) BY <1>1 DEF Confirmed
<1>5. \A k : IsTrade(k)' <=> IsTrade(k) BY <1>1 DEF IsTrade
<1>6. LogFollowsChannel'
  <2>1. SUFFICES ASSUME NEW i \in DOMAIN rows', NEW j \in DOMAIN rows', i < j
                 PROVE  rows'[i].id # rows'[j].id /\ (Confirmed(rows[j].id)' => rows'[i].id < rows'[j].id)
    BY DEF LogFollowsChannel
  <2>2. i \in DOMAIN rows /\ rows'[i] = rows[i] BY <1>2, <2>1
  <2>3. CASE j \in DOMAIN rows /\ rows'[j] = rows[j]
    BY <1>4, <2>1, <2>2, <2>3 DEF InOrder, LogFollowsChannel
  <2>4. CASE rows'[j] = row BY <1>4, <2>2, <2>4 DEF InOrder
  <2> QED BY <1>3, <2>3, <2>4
<1>7. ASSUME NEW i \in DOMAIN rows'
      PROVE  /\ rows'[i].id <= Len(sent)
             /\ \A k : IsTrade(k)' => rows'[i].id < chan[k].row.id
             /\ \A c \in current : rows'[i].id < c.row.id
  BY <1>3, <1>5 DEF InOrder
<1>8. ASSUME NEW w \in late' PROVE \A i \in DOMAIN rows' : rows'[i].id # w.id
  BY <1>1, <1>3 DEF InOrder
<1>9. ASSUME NEW w \in late'
      PROVE  /\ w.id <= Len(sent)
             /\ \A c \in current : w.id < c.row.id
             /\ \A k : IsTrade(k)' => w.id < chan[k].row.id
             /\ \A v \in late' : v.id = w.id => v = w
             /\ ~Confirmed(w.id)'
  BY <1>1, <1>4, <1>5 DEF InOrder
<1>10. /\ \A c \in current : /\ c.row.id <= Len(sent)
                              /\ \A k : IsTrade(k)' => c.row.id < chan[k].row.id
       /\ \A k : IsTrade(k)' => /\ chan[k].row.id <= Len(sent)
                                /\ \A l : IsTrade(l)' /\ k < l => chan[k].row.id < chan[l].row.id
  BY <1>5 DEF InOrder
<1> QED BY <1>1, <1>6, <1>7, <1>8, <1>9, <1>10 DEF InOrder

(* A command enters the channel with the next number.                      *)
LEMMA InOrderSend ==
  ASSUME Types, Types', InOrder, NEW cmd \in Cmds, Send(cmd)
  PROVE  InOrder'
<1> DEFINE new == Trade(Row(Len(sent) + 1, cmd))
<1>1. Len(sent) \in Nat /\ Len(chan) \in Nat /\ DOMAIN chan = 1..Len(chan) BY Numbers
<1>2. new \in Commands /\ new.row.id = Len(sent) + 1
  BY <1>1 DEF Trade, Row, Commands, Rows
<1> HIDE DEF new
<1>3. /\ chan' = Append(chan, new) /\ sent' = Append(sent, cmd) /\ UNCHANGED <<rows, current, late>>
      /\ answers' = Append(answers, Waiting)
  BY DEF Send, new, aftermath
<1>4. Len(sent') = Len(sent) + 1 BY <1>3, Appended DEF Types
<1>5. ASSUME NEW k, IsTrade(k)'
      PROVE  \/ IsTrade(k) /\ chan'[k] = chan[k]
             \/ k = Len(chan) + 1 /\ chan'[k].row.id = Len(sent) + 1
  BY <1>2, <1>3, <1>5, Appended DEF IsTrade, Types
<1>6. ASSUME NEW i \in DOMAIN rows
      PROVE  /\ rows[i].id <= Len(sent')
             /\ \A k : IsTrade(k)' => rows[i].id < chan'[k].row.id
  BY <1>1, <1>4, <1>5, Numbers DEF InOrder
<1>7. ASSUME NEW c \in current
      PROVE  /\ c.row.id <= Len(sent')
             /\ \A k : IsTrade(k)' => c.row.id < chan'[k].row.id
  BY <1>1, <1>4, <1>5, Numbers DEF InOrder
<1>8. ASSUME NEW k, IsTrade(k)', NEW l, IsTrade(l)', k < l PROVE chan'[k].row.id < chan'[l].row.id
  <2>1. k \in Nat /\ l \in Nat /\ l <= Len(chan) + 1 BY <1>1, <1>5, <1>8, Numbers DEF IsTrade
  <2>2. IsTrade(k) /\ chan'[k] = chan[k] BY <1>1, <1>5, <1>8, <2>1
  <2> QED BY <1>1, <1>5, <1>8, <2>2, Numbers DEF InOrder
<1>9. ASSUME NEW k, IsTrade(k)' PROVE chan'[k].row.id <= Len(sent')
  BY <1>1, <1>4, <1>5, <1>9, Numbers DEF InOrder
<1>10. ASSUME NEW id, Confirmed(id)' PROVE Confirmed(id)
  <2> DEFINE A == {answers[x] : x \in 1..Len(sent)} \union {Waiting}
  <2>1. answers \in [1..Len(sent) -> A] BY DEF Types
  <2>2. answers \in Seq(A) /\ Waiting \in A BY <1>1, <2>1, SeqDef
  <2> HIDE DEF A
  <2>3. id \in DOMAIN answers' /\ answers'[id] # Waiting BY <1>10 DEF Confirmed, Waiting
  <2>4. id \in DOMAIN answers /\ answers'[id] = answers[id]
    BY <1>3, <2>2, <2>3, Appended
  <2> QED BY <1>10, <2>4 DEF Confirmed
<1>11. ASSUME NEW w \in late
       PROVE  /\ w.id <= Len(sent')
              /\ \A k : IsTrade(k)' => w.id < chan'[k].row.id
              /\ ~Confirmed(w.id)'
  <2>1. w.id \in Nat /\ w.id <= Len(sent) BY Numbers DEF InOrder
  <2>2. \A k : IsTrade(k)' => w.id < chan'[k].row.id
    BY <1>1, <1>5, <2>1 DEF InOrder
  <2>3. w.id <= Len(sent') BY <1>1, <1>4, <2>1
  <2>4. ~Confirmed(w.id)' BY <1>10 DEF InOrder
  <2> QED BY <2>2, <2>3, <2>4
<1>12. LogFollowsChannel'
  BY <1>3, <1>10 DEF InOrder, LogFollowsChannel
<1>13. ASSUME NEW w \in late'
       PROVE  /\ w.id <= Len(sent')
              /\ \A c \in current' : w.id < c.row.id
              /\ \A k : IsTrade(k)' => w.id < chan'[k].row.id
              /\ \A i \in DOMAIN rows' : rows'[i].id # w.id
              /\ \A v \in late' : v.id = w.id => v = w
              /\ ~Confirmed(w.id)'
  BY <1>3, <1>11 DEF InOrder
<1> QED BY <1>3, <1>6, <1>7, <1>8, <1>9, <1>12, <1>13 DEF InOrder

(* The engine takes the first command of the channel.                      *)
LEMMA InOrderTrade ==
  ASSUME Types, Types', InOrder, RecvTrade
  PROVE  InOrder'
<1> DEFINE c == [row |-> Head(chan).row, result |-> Execute(assets, Head(chan).row.cmd).result]
<1>1. current' = {c} /\ c.row = Head(chan).row BY DEF RecvTrade
<1> HIDE DEF c
<1>2. /\ chan # <<>> /\ chan' = Tail(chan) /\ Head(chan).tag = "Trade"
      /\ UNCHANGED <<rows, sent, answers, late>>
  BY DEF RecvTrade, Receiving, aftermath
<1>3. IsTrade(1) /\ c.row = chan[1].row BY <1>1, <1>2, Tailed DEF IsTrade, Types
<1>4. ASSUME NEW k, IsTrade(k)' PROVE k \in Nat /\ 1 < k + 1 /\ IsTrade(k + 1) /\ chan'[k] = chan[k + 1]
  BY <1>2, <1>4, Tailed DEF IsTrade, Types
<1>5. ASSUME NEW k, IsTrade(k)'
      PROVE  /\ c.row.id < chan'[k].row.id /\ chan'[k].row.id <= Len(sent)
             /\ \A i \in DOMAIN rows : rows[i].id < chan'[k].row.id
  BY <1>3, <1>4, <1>5 DEF InOrder
<1>6. ASSUME NEW k, IsTrade(k)', NEW l, IsTrade(l)', k < l PROVE chan'[k].row.id < chan'[l].row.id
  BY <1>4, <1>6 DEF InOrder
<1>7. /\ c.row.id <= Len(sent)
      /\ \A i \in DOMAIN rows : rows[i].id < c.row.id /\ rows[i].id <= Len(sent)
  BY <1>3 DEF InOrder
<1>8. \A id : Confirmed(id)' <=> Confirmed(id) BY <1>2 DEF Confirmed
<1>9. LogFollowsChannel' BY <1>2, <1>8 DEF InOrder, LogFollowsChannel
<1>10. ASSUME NEW w \in late'
       PROVE  /\ w.id <= Len(sent')
              /\ \A d \in current' : w.id < d.row.id
              /\ \A k : IsTrade(k)' => w.id < chan'[k].row.id
              /\ \A i \in DOMAIN rows' : rows'[i].id # w.id
              /\ \A v \in late' : v.id = w.id => v = w
              /\ ~Confirmed(w.id)'
  <2>0. w \in late /\ \A k : IsTrade(k) => w.id < chan[k].row.id BY <1>2 DEF InOrder
  <2>1. ASSUME NEW k, IsTrade(k)' PROVE w.id < chan'[k].row.id BY <1>4, <2>0, <2>1
  <2>2. \A d \in current' : w.id < d.row.id BY <1>1, <1>2, <1>3 DEF InOrder
  <2>3. ~Confirmed(w.id)' BY <1>2, <1>8 DEF InOrder
  <2> QED BY <1>2, <2>1, <2>2, <2>3 DEF InOrder
<1> QED BY <1>1, <1>2, <1>5, <1>6, <1>7, <1>9, <1>10 DEF InOrder

LEMMA InOrderNext == Types /\ Types' /\ InOrder /\ AnsweredIsLogged /\ [Next]_vars => InOrder'
<1> SUFFICES ASSUME Types, Types', InOrder, AnsweredIsLogged, [Next]_vars PROVE InOrder' OBVIOUS
<1>1. ASSUME NEW cmd, Send(cmd), cmd \in Cmds PROVE InOrder' BY <1>1, InOrderSend
<1>2. ASSUME NEW order \in Menu, Send(Place(order)) PROVE InOrder'
  BY <1>1, <1>2 DEF Cmds
<1>3. ASSUME NEW target \in DOMAIN sent, Send(Cancel(target)) PROVE InOrder'
  <2>1. target \in Nat BY LenProperties DEF Types
  <2> QED BY <1>1, <1>3, <2>1 DEF Cmds
<1>4. ASSUME NEW tag \in {"Suspend", "Resume", "Shutdown"}, chan' = Append(chan, Control(tag)),
             UNCHANGED <<sent, current, rows, answers, late>>
      PROVE  InOrder'
  <2>1. Control(tag) \in Commands /\ Control(tag).tag # "Trade" BY DEF Control, Commands
  <2>2. Thinned BY <1>4, <2>1, ThinnedTail
  <2>3. \A id : Confirmed(id)' => Confirmed(id) BY <1>4, ConfirmedDrop
  <2> QED BY <1>4, <2>2, <2>3, InOrderStep
<1>5. ASSUME NEW tag \in Controls, SendControl(tag) PROVE InOrder'
  BY <1>4, <1>5, ControlsAssumption DEF SendControl, aftermath
<1>6. CASE SendShutdown BY <1>4, <1>6 DEF SendShutdown, aftermath
<1>7. CASE RecvTrade BY <1>7, InOrderTrade
<1>8. CASE \/ RecvSuspended \/ RecvSuspend \/ RecvResume \/ RecvShutdown \/ RecvBootstrap
           \/ RecvTradePanics \/ RecvBootstrapPanics \/ RequestShutdown \/ Serve \/ Start \/ UNCHANGED vars
  <2>1. UNCHANGED <<rows, sent, current, late>>
    BY <1>8 DEF RecvSuspended, RecvSuspend, RecvResume, RecvShutdown, RecvBootstrap, RecvTradePanics,
                RecvBootstrapPanics, RequestShutdown, Serve, Start, PanicOn, vars, aftermath
  <2>2. chan' = chan \/ chan' = <<>> \/ (chan # <<>> /\ chan' = Tail(chan))
    BY <1>8 DEF RecvSuspended, RecvSuspend, RecvResume, RecvShutdown, RecvBootstrap, RecvTradePanics,
                RecvBootstrapPanics, RequestShutdown, Serve, Start, PanicOn, vars, Receiving
  <2>3. UNCHANGED answers \/ \E queue : DropQueued(queue)
    BY <1>8 DEF RecvSuspended, RecvSuspend, RecvResume, RecvShutdown, RecvBootstrap, RecvTradePanics,
                RecvBootstrapPanics, RequestShutdown, Serve, Start, PanicOn, vars
  <2>4. \A id : Confirmed(id)' => Confirmed(id) BY <2>3, ConfirmedDrop
  <2> QED BY <2>1, <2>2, <2>4, ThinnedTail, InOrderStep
<1>9. CASE Inserted
  <2>1. Thinned BY <1>9, ThinnedTail DEF Inserted
  <2>2. PICK c \in current : /\ rows' = Append(rows, c.row)
                             /\ answers' = [answers EXCEPT ![c.row.id] = c.result]
    BY <1>9 DEF Inserted
  <2>3. \A id : Confirmed(id)' => Confirmed(id) \/ id = c.row.id BY <2>2, ConfirmedInsert
  <2> QED BY <1>9, <2>1, <2>2, <2>3, InOrderStep DEF Inserted, NoCommand, aftermath
<1>10. CASE InsertFailed
  <2>1. Thinned BY <1>10, ThinnedTail DEF InsertFailed
  <2>2. PICK c \in current :
           /\ (rows' = Append(rows, c.row) /\ UNCHANGED late) \/ (UNCHANGED rows /\ late' = late \union {c.row})
           /\ answers' = [answers EXCEPT ![c.row.id] = Err("Database")]
    BY <1>10 DEF InsertFailed, aftermath
  <2>3. \A id : Confirmed(id)' => Confirmed(id) BY <2>2, ConfirmedInsert
  <2>4. current = {c} BY DEF Types
  <2>5. ~Confirmed(c.row.id)' BY <2>2 DEF Confirmed, Err
  <2>6. current' = {} /\ UNCHANGED sent BY <1>10 DEF InsertFailed, NoCommand
  <2>7. CASE rows' = Append(rows, c.row) /\ UNCHANGED late
    BY <2>1, <2>3, <2>6, <2>7, InOrderStep
  <2>8. CASE UNCHANGED rows /\ late' = late \union {c.row}
    <3>1. {d.row : d \in current} = {c.row} BY <2>4
    <3>2. late' = late \union {d.row : d \in current} /\ \A d \in current : ~Confirmed(d.row.id)'
      BY <2>4, <2>5, <2>8, <3>1
    <3> QED BY <2>1, <2>3, <2>6, <2>8, <3>2, InOrderStep
  <2> QED BY <2>2, <2>7, <2>8
<1>11. CASE Die
  <2>1. Thinned BY <1>11, ThinnedTail DEF Die
  <2>2. \A id : Confirmed(id)' => Confirmed(id) BY <1>11, ConfirmedDrop
  <2>3. ASSUME NEW c \in current PROVE ~Confirmed(c.row.id)
    <3>1. \A i \in DOMAIN rows : rows[i].id < c.row.id /\ rows[i].id \in Nat /\ c.row.id \in Nat
      BY Numbers DEF InOrder
    <3>2. \A i \in DOMAIN rows : rows[i].id # c.row.id BY <3>1
    <3> QED BY <3>2 DEF AnsweredIsLogged, Confirmed
  <2>4. \A c \in current : ~Confirmed(c.row.id)' BY <2>2, <2>3
  <2> QED BY <1>11, <2>1, <2>2, <2>4, InOrderStep DEF Die, NoCommand
<1>12. CASE FetchRow
  <2>1. PICK i \in DOMAIN unfetched : chan' = Append(chan, Bootstrap(unfetched[i])) BY <1>12 DEF FetchRow
  <2>2. unfetched[i] \in Rows BY <2>1, ElementOfSeq, LenProperties DEF Types
  <2>3. Bootstrap(unfetched[i]) \in Commands /\ Bootstrap(unfetched[i]).tag # "Trade"
    BY <2>2 DEF Bootstrap, Commands
  <2>4. Thinned BY <2>1, <2>3, ThinnedTail
  <2>5. UNCHANGED <<answers, late, sent, rows, current>> BY <1>12 DEF FetchRow
  <2>6. \A id : Confirmed(id)' => Confirmed(id) BY <2>5, ConfirmedDrop
  <2> QED BY <2>4, <2>5, <2>6, InOrderStep
<1>13. CASE LateInsert BY <1>13, InOrderLate
<1> QED
  BY <1>2, <1>3, <1>5, <1>6, <1>7, <1>8, <1>9, <1>10, <1>11, <1>12, <1>13
  DEF Next, Supervise, Boot, Crash, Exit

LEMMA InOrderInit == Init => InOrder
  BY DEF Init, InOrder, LogFollowsChannel, IsTrade, NoCommand

(* The log, the channel and the answers together, in every state.          *)
LEMMA AlwaysInOrder == Spec => [](Types /\ InOrder /\ AnsweredIsLogged)
<1>1. Init => AnsweredIsLogged BY DEF Init, AnsweredIsLogged
<1> QED BY <1>1, InOrderInit, InOrderNext, AnsweredNext, TradingEngineTypes, PTL DEF Spec

(* The log holds each command at most once and in the order the channel    *)
(* delivered them (trading_engine_supervisor, try_event_log!), but for the *)
(* rows of commands that nobody got a result of; through any failures of   *)
(* the INSERT, crashes and restarts, and whenever such rows land.          *)
THEOREM LogIsInOrder == Spec => []LogFollowsChannel
<1>1. InOrder => LogFollowsChannel BY DEF InOrder
<1> QED BY <1>1, AlwaysInOrder, PTL
-----------------------------------------------------------------------------
(* Induction over the natural numbers, with a set for the property.        *)
LEMMA NatInd ==
  ASSUME NEW T, 0 \in T, \A n \in Nat : n \in T => n + 1 \in T
  PROVE  Nat \subseteq T
<1> DEFINE R == OpToRel(<, Nat)
           B == Nat \ T
<1>1. IsWellFoundedOn(R, Nat) BY NatLessThanWellFounded, Zenon
<1>2. \A x, y \in Nat : x < y => <<x, y>> \in R BY DEF OpToRel
<1> HIDE DEF R
<1>3. SUFFICES ASSUME B # {} PROVE FALSE OBVIOUS
<1>4. PICK x \in B : \A y \in B : ~(<<y, x>> \in R)
  <2>1. B \subseteq Nat OBVIOUS
  <2> HIDE DEF B
  <2> QED BY <1>1, <1>3, <2>1, WFMin
<1>5. x # 0 /\ x \in Nat OBVIOUS
<1>6. x - 1 \in Nat /\ x - 1 < x BY <1>5
<1>7. x - 1 \in T BY <1>2, <1>4, <1>5, <1>6
<1>8. (x - 1) + 1 = x BY <1>5
<1> QED BY <1>6, <1>7, <1>8

(* The assets after each row of a log: the function Replay is defined by.  *)
Books(a, log) ==
    CHOOSE after : after = [i \in 0..Len(log) |->
                               IF i = 0 THEN a ELSE Execute(after[i - 1], log[i].cmd).assets]

After(a, row) == Execute(a, row.cmd).assets

LEMMA ReplayIsBooks == ASSUME NEW a, NEW log PROVE Replay(a, log) = Books(a, log)[Len(log)]
  BY DEF Replay, Books

(* There is such a function, so that it satisfies its equation.            *)
LEMMA BooksEquation ==
  ASSUME NEW a, NEW log, Len(log) \in Nat
  PROVE  /\ Books(a, log)[0] = a
         /\ \A i \in 1..Len(log) : Books(a, log)[i] = After(Books(a, log)[i - 1], log[i])
<1> DEFINE T == {n \in Nat : \E b : b = [i \in 0..n |->
                                            IF i = 0 THEN a ELSE Execute(b[i - 1], log[i].cmd).assets]}
<1>1. 0 \in T
  <2> DEFINE b == [i \in 0..0 |-> a]
  <2>1. b = [i \in 0..0 |-> IF i = 0 THEN a ELSE Execute(b[i - 1], log[i].cmd).assets]
    OBVIOUS
  <2> QED BY <2>1
<1>2. ASSUME NEW n \in Nat, n \in T PROVE n + 1 \in T
  <2>1. PICK b : b = [i \in 0..n |-> IF i = 0 THEN a ELSE Execute(b[i - 1], log[i].cmd).assets]
    BY <1>2
  <2> DEFINE c == [i \in 0..(n + 1) |->
                      IF i = n + 1 THEN Execute(b[n], log[n + 1].cmd).assets ELSE b[i]]
  <2>2. ASSUME NEW i \in 0..(n + 1)
        PROVE  c[i] = IF i = 0 THEN a ELSE Execute(c[i - 1], log[i].cmd).assets
    <3>1. CASE i = 0 BY <2>1, <3>1
    <3>2. CASE i = n + 1 BY <2>1, <3>2
    <3>3. CASE i \in 1..n
      <4>1. c[i] = b[i] /\ c[i - 1] = b[i - 1] BY <3>3
      <4>2. b[i] = Execute(b[i - 1], log[i].cmd).assets BY <2>1, <3>3
      <4> QED BY <3>3, <4>1, <4>2
    <3> QED BY <3>1, <3>2, <3>3
  <2>3. c = [i \in 0..(n + 1) |-> c[i]] OBVIOUS
  <2> HIDE DEF c
  <2>4. c = [i \in 0..(n + 1) |-> IF i = 0 THEN a ELSE Execute(c[i - 1], log[i].cmd).assets]
    BY <2>2, <2>3
  <2> QED BY <2>4
<1> HIDE DEF T
<1>3. Len(log) \in T BY <1>1, <1>2, NatInd
<1>4. \E b : b = [i \in 0..Len(log) |-> IF i = 0 THEN a ELSE Execute(b[i - 1], log[i].cmd).assets]
  BY <1>3 DEF T
<1>5. Books(a, log) = [i \in 0..Len(log) |->
          IF i = 0 THEN a ELSE Execute(Books(a, log)[i - 1], log[i].cmd).assets]
  BY <1>4 DEF Books
<1> QED BY <1>5 DEF After

(* A log replayed from where the replay of another one has got to gives    *)
(* what the other one gives, as long as they agree.                        *)
LEMMA BooksFrom ==
  ASSUME NEW a, NEW log, NEW rest, Len(log) \in Nat, Len(rest) \in Nat,
         NEW k \in Nat, NEW m \in Nat, k + m <= Len(log), m <= Len(rest),
         \A j \in 1..m : rest[j] = log[k + j]
  PROVE  Books(Books(a, log)[k], rest)[m] = Books(a, log)[k + m]
<1> DEFINE b == Books(a, log)
           c == Books(b[k], rest)
           T == {n \in Nat : n <= m => c[n] = b[k + n]}
<1>1. \A i \in 1..Len(log) : b[i] = After(b[i - 1], log[i]) BY BooksEquation
<1>2. c[0] = b[k] /\ \A i \in 1..Len(rest) : c[i] = After(c[i - 1], rest[i]) BY BooksEquation
<1> HIDE DEF b, c
<1>3. 0 \in T BY <1>2
<1>4. ASSUME NEW n \in Nat, n \in T PROVE n + 1 \in T
  <2>1. SUFFICES ASSUME n + 1 <= m PROVE c[n + 1] = b[k + (n + 1)] OBVIOUS
  <2>2. n <= m /\ c[n] = b[k + n] BY <1>4, <2>1
  <2>3. c[n + 1] = After(c[n], rest[n + 1]) /\ rest[n + 1] = log[k + (n + 1)]
    <3>1. n + 1 \in 1..Len(rest) /\ n + 1 \in 1..m /\ (n + 1) - 1 = n BY <2>1
    <3> QED BY <1>2, <3>1
  <2>4. b[k + (n + 1)] = After(b[k + n], log[k + (n + 1)])
    <3>1. k + (n + 1) \in 1..Len(log) /\ (k + (n + 1)) - 1 = k + n BY <2>1
    <3> QED BY <1>1, <3>1
  <2> QED BY <2>2, <2>3, <2>4
<1> HIDE DEF T
<1>5. m \in T BY <1>3, <1>4, NatInd
<1> QED BY <1>5 DEF T, b, c

LEMMA ReplayRest ==
  ASSUME NEW a, NEW log, NEW rest, NEW k \in Nat, Len(log) \in Nat, Len(rest) \in Nat,
         k + Len(rest) = Len(log), \A j \in 1..Len(rest) : rest[j] = log[k + j]
  PROVE  Replay(Books(a, log)[k], rest) = Replay(a, log)
<1>1. k + Len(rest) <= Len(log) /\ Len(rest) <= Len(rest) OBVIOUS
<1>2. Books(Books(a, log)[k], rest)[Len(rest)] = Books(a, log)[k + Len(rest)] BY <1>1, BooksFrom
<1> QED BY <1>2, ReplayIsBooks

(* One more row.                                                           *)
LEMMA BooksAppend ==
  ASSUME NEW a, NEW log \in Seq(Rows), NEW row \in Rows
  PROVE  /\ \A i \in 0..Len(log) : Books(a, Append(log, row))[i] = Books(a, log)[i]
         /\ Books(a, Append(log, row))[Len(log) + 1] = After(Books(a, log)[Len(log)], row)
<1> DEFINE longer == Append(log, row)
<1>1. /\ Len(log) \in Nat /\ Len(longer) = Len(log) + 1 /\ longer[Len(log) + 1] = row
      /\ \A i \in 1..Len(log) : longer[i] = log[i]
  BY Appended
<1> HIDE DEF longer
<1>2. ASSUME NEW i \in 0..Len(log) PROVE Books(a, longer)[i] = Books(a, log)[i]
  <2>1. Books(a, log)[0] = a BY <1>1, BooksEquation
  <2>2. \A j \in 1..i : longer[j] = log[0 + j] BY <1>1
  <2>3. Books(Books(a, log)[0], longer)[i] = Books(a, log)[0 + i]
    BY <1>1, <2>2, BooksFrom
  <2> QED BY <2>1, <2>3
<1>3. Books(a, longer)[Len(log) + 1] = After(Books(a, longer)[(Len(log) + 1) - 1], longer[Len(log) + 1])
  BY <1>1, BooksEquation
<1>4. Books(a, longer)[Len(log)] = Books(a, log)[Len(log)] BY <1>1, <1>2
<1>5. (Len(log) + 1) - 1 = Len(log) BY <1>1
<1> QED BY <1>1, <1>2, <1>3, <1>4, <1>5 DEF longer

(* k rows of the log have been replayed, the next n are in the channel and *)
(* the others are still to be fetched.                                     *)
Behind(k, n) ==
    /\ k \in Nat /\ n \in Nat /\ n <= Len(chan)
    /\ \A i \in DOMAIN chan : chan[i].tag = "Bootstrap" <=> i <= n
    /\ k + n + Len(unfetched) = Len(rows)
    /\ \A i \in 1..n : chan[i].row = rows[k + i]
    /\ \A i \in DOMAIN unfetched : unfetched[i] = rows[k + n + i]
    /\ ~running \/ current # {} => n = 0
    /\ current = {} => assets = Books(NewAssets, rows)[k]

(* What the log says of the command at its INSERT and of itself: as long   *)
(* as no book ever parted from it, neither its replay panics, nor what may *)
(* be stored next, which is that command, or of the rows that may yet land *)
(* one that is the last of all.                                            *)
Newest(w) == (\A i \in DOMAIN rows : rows[i].id <= w.id) /\ (\A v \in late : v.id <= w.id)
Story ==
    /\ \A c \in current : ~strayed => assets = After(Books(NewAssets, rows)[Len(rows)], c.row)
    /\ ~everStrayed =>
          /\ \A i \in DOMAIN rows : ~Panics(Books(NewAssets, rows)[i - 1], rows[i].cmd)
          /\ \A c \in current : ~Panics(Books(NewAssets, rows)[Len(rows)], c.row.cmd)
          /\ \A w \in late : Newest(w) => ~Panics(Books(NewAssets, rows)[Len(rows)], w.cmd)

(* How the phases of the process bound what there is to replay.            *)
Phases ==
    /\ process = "down" => assets = NewAssets /\ ~strayed
    /\ process = "boot" => running /\ current = {} /\ \A i \in DOMAIN chan : chan[i].tag = "Bootstrap"
    /\ process # "boot" => unfetched = <<>>
    /\ task = "gone" => chan = <<>>
    /\ process = "boot" /\ task = "gone" => everStrayed
    /\ strayed => everStrayed

(* The inductive invariant of the replay.                                  *)
BookInv == Phases /\ Story /\ (task # "gone" /\ ~strayed => \E k, n : Behind(k, n))

(* The sequences of the engine.                                            *)
LEMMA Lengths ==
  ASSUME Types
  PROVE  /\ Len(chan) \in Nat /\ DOMAIN chan = 1..Len(chan)
         /\ Len(rows) \in Nat /\ DOMAIN rows = 1..Len(rows)
         /\ Len(unfetched) \in Nat /\ DOMAIN unfetched = 1..Len(unfetched)
         /\ unfetched = <<>> <=> Len(unfetched) = 0
  BY LenProperties, EmptySeq DEF Types

(* Another command than Bootstrap at the head of the channel: everything   *)
(* has been replayed.                                                      *)
LEMMA CaughtUp ==
  ASSUME Types, Phases, chan # <<>>, Head(chan).tag # "Bootstrap" \/ ~running
  PROVE  /\ process # "boot"
         /\ \A k, n : Behind(k, n) => n = 0 /\ (Head(chan).tag # "Bootstrap" => k = Len(rows))
<1>1. 1 \in DOMAIN chan /\ Head(chan) = chan[1] BY Tailed DEF Types
<1>2. process # "boot" BY <1>1 DEF Phases
<1>3. ASSUME NEW k, NEW n, Behind(k, n) PROVE n = 0 /\ (Head(chan).tag # "Bootstrap" => k = Len(rows))
  <2>1. n = 0 BY <1>1, <1>3 DEF Behind
  <2> QED BY <1>2, <1>3, <2>1, Lengths DEF Behind, Phases
<1> QED BY <1>2, <1>3

(* Only the channel, the phase and the flag of the supervisor change.      *)
LEMMA StoryKept ==
  ASSUME Story, UNCHANGED <<assets, current, rows, late, strayed, everStrayed>>
  PROVE  Story'
<1>1. \A w : Newest(w)' <=> Newest(w) BY DEF Newest
<1> QED BY <1>1 DEF Story

(* The channel grows by a command that is not replayed.                    *)
LEMMA BookAppend ==
  ASSUME Types, Types', BookInv, NEW m \in Commands, m.tag # "Bootstrap", chan' = Append(chan, m),
         task # "gone", process \notin {"boot", "down"}, process' \notin {"boot", "down"},
         UNCHANGED <<task, running, assets, current, rows, unfetched, late, strayed, everStrayed>>
  PROVE  BookInv'
<1>1. Phases' BY DEF BookInv, Phases
<1>2. Story' BY StoryKept DEF BookInv
<1>3. /\ Len(chan) \in Nat /\ DOMAIN chan' = 1..(Len(chan) + 1) /\ DOMAIN chan = 1..Len(chan)
      /\ Len(chan') = Len(chan) + 1 /\ chan'[Len(chan) + 1] = m
      /\ \A i \in 1..Len(chan) : chan'[i] = chan[i]
  BY Appended DEF Types
<1>4. \A k, n : Behind(k, n) => Behind(k, n)' BY <1>3 DEF Behind
<1> QED BY <1>1, <1>2, <1>4 DEF BookInv

(* A command that is not replayed leaves the channel without effect.       *)
LEMMA BookIgnore ==
  ASSUME Types, Types', BookInv, Receiving, Head(chan).tag # "Bootstrap" \/ ~running, chan' = Tail(chan),
         UNCHANGED <<process, task, assets, current, rows, unfetched, late, strayed, everStrayed>>
  PROVE  BookInv'
<1>1. process # "boot" /\ \A k, n : Behind(k, n) => n = 0 BY CaughtUp DEF BookInv, Receiving
<1>2. /\ Len(chan) \in Nat /\ DOMAIN chan' = 1..(Len(chan) - 1) /\ DOMAIN chan = 1..Len(chan)
      /\ Len(chan') = Len(chan) - 1 /\ 1 \in DOMAIN chan
      /\ \A i \in 1..(Len(chan) - 1) : chan'[i] = chan[i + 1]
  BY Tailed DEF Types, Receiving
<1>3. ASSUME NEW k, NEW n, Behind(k, n) PROVE Behind(k, 0)'
  <2>1. n = 0 BY <1>1, <1>3
  <2>2. \A i \in DOMAIN chan' : chan'[i].tag # "Bootstrap" BY <1>2, <1>3, <2>1 DEF Behind
  <2> QED BY <1>2, <1>3, <2>1, <2>2 DEF Behind
<1>4. Phases' BY <1>1 DEF BookInv, Phases, Receiving
<1>5. Story' BY StoryKept DEF BookInv
<1> QED BY <1>3, <1>4, <1>5 DEF BookInv

(* The engine task ends.                                                   *)
LEMMA BookGone ==
  ASSUME Types, Types', BookInv, task' = "gone", chan' = <<>>, process = "boot" => everStrayed, task # "gone",
         UNCHANGED <<process, running, assets, current, rows, unfetched, late, strayed, everStrayed>>
  PROVE  BookInv'
<1>1. Story' BY StoryKept DEF BookInv
<1> QED BY <1>1 DEF BookInv, Phases

(* A command is executed when everything has been replayed.                *)
LEMMA BookTrade ==
  ASSUME Types, Types', BookInv, RecvTrade
  PROVE  BookInv'
<1> DEFINE c == [row |-> Head(chan).row, result |-> Execute(assets, Head(chan).row.cmd).result]
<1>1. current' = {c} /\ c.row = Head(chan).row BY DEF RecvTrade
<1> HIDE DEF c
<1>2. /\ chan # <<>> /\ chan' = Tail(chan) /\ Head(chan).tag = "Trade" /\ task = "recv" /\ task' = "insert"
      /\ assets' = After(assets, c.row) /\ ~Panics(assets, c.row.cmd)
      /\ UNCHANGED <<process, running, rows, unfetched, late, strayed, everStrayed>> /\ current = {}
  BY <1>1 DEF RecvTrade, Receiving, aftermath, After, Types
<1>3. /\ process # "boot"
      /\ \A k, n : Behind(k, n) => n = 0 /\ k = Len(rows)
  BY <1>2, CaughtUp DEF BookInv
<1>4. /\ Len(chan) \in Nat /\ DOMAIN chan' = 1..(Len(chan) - 1) /\ DOMAIN chan = 1..Len(chan)
      /\ Len(chan') = Len(chan) - 1 /\ 1 \in DOMAIN chan
      /\ \A i \in 1..(Len(chan) - 1) : chan'[i] = chan[i + 1]
  BY <1>2, Tailed DEF Types
<1>5. ASSUME NEW k, NEW n, Behind(k, n)
      PROVE  Behind(k, 0)' /\ assets = Books(NewAssets, rows)[Len(rows)]
  <2>1. n = 0 /\ k = Len(rows) BY <1>3, <1>5
  <2>2. \A i \in DOMAIN chan' : chan'[i].tag # "Bootstrap" BY <1>4, <1>5, <2>1 DEF Behind
  <2>3. Behind(k, 0)' BY <1>1, <1>2, <1>4, <1>5, <2>1, <2>2 DEF Behind
  <2> QED BY <1>2, <1>5, <2>1, <2>3 DEF Behind
<1>6. ~strayed => assets = Books(NewAssets, rows)[Len(rows)] BY <1>2, <1>5 DEF BookInv
<1>7. Story'
  <2>1. \A w : Newest(w)' <=> Newest(w) BY <1>2 DEF Newest
  <2>2. ~everStrayed => ~strayed BY DEF BookInv, Phases
  <2> QED BY <1>1, <1>2, <1>6, <2>1, <2>2 DEF BookInv, Story
<1>8. process # "down" BY <1>2 DEF Types
<1>9. Phases' BY <1>2, <1>3, <1>8 DEF BookInv, Phases
<1> QED BY <1>2, <1>5, <1>7, <1>9 DEF BookInv

(* A row is stored that does not panic after the log, and is the last of   *)
(* all: the log still tells what happened.                                 *)
LEMMA StoryStored ==
  ASSUME Types, Story, NEW row \in Rows, rows' = Append(rows, row), late' \subseteq late,
         current' = {}, UNCHANGED everStrayed,
         ~everStrayed => /\ ~Panics(Books(NewAssets, rows)[Len(rows)], row.cmd)
                         /\ \A w \in late' : w.id < row.id
  PROVE  /\ Story'
         /\ Len(rows) \in Nat /\ Len(rows') = Len(rows) + 1
         /\ Books(NewAssets, rows')[Len(rows')] = After(Books(NewAssets, rows)[Len(rows)], row)
<1>1. rows \in Seq(Rows) BY DEF Types
<1>2. /\ Len(rows) \in Nat /\ Len(rows') = Len(rows) + 1 /\ DOMAIN rows = 1..Len(rows)
      /\ DOMAIN rows' = 1..(Len(rows) + 1)
      /\ rows'[Len(rows) + 1] = row /\ \A i \in 1..Len(rows) : rows'[i] = rows[i]
  BY <1>1, Appended
<1>3. /\ \A i \in 0..Len(rows) : Books(NewAssets, rows')[i] = Books(NewAssets, rows)[i]
      /\ Books(NewAssets, rows')[Len(rows) + 1] = After(Books(NewAssets, rows)[Len(rows)], row)
  BY <1>1, BooksAppend
<1>4. ASSUME ~everStrayed, NEW i \in DOMAIN rows'
      PROVE  ~Panics(Books(NewAssets, rows')[i - 1], rows'[i].cmd)
  <2>1. CASE i \in DOMAIN rows
    <3>1. i - 1 \in 0..Len(rows) BY <1>2, <2>1
    <3> QED BY <1>2, <1>3, <1>4, <2>1, <3>1 DEF Story
  <2>2. CASE i = Len(rows) + 1
    <3>1. i - 1 = Len(rows) /\ i - 1 \in 0..Len(rows) BY <1>2, <2>2
    <3> QED BY <1>2, <1>3, <1>4, <2>2, <3>1
  <2> QED BY <1>2, <2>1, <2>2
<1>5. ASSUME ~everStrayed, NEW w \in late' PROVE ~Newest(w)'
  <2>1. w.id < row.id /\ w.id \in Nat /\ row.id \in Nat BY <1>5 DEF Types, Rows
  <2>2. Len(rows) + 1 \in DOMAIN rows' /\ rows'[Len(rows) + 1].id = row.id BY <1>2
  <2>3. ~(row.id <= w.id) BY <2>1
  <2> QED BY <2>2, <2>3 DEF Newest
<1>6. Story' BY <1>4, <1>5 DEF Story
<1> QED BY <1>2, <1>3, <1>6

(* The INSERT ends.                                                        *)
LEMMA BookInserted ==
  ASSUME Types, Types', InOrder, BookInv, Inserted \/ InsertFailed
  PROVE  BookInv'
<1>1. /\ task = "insert" /\ task' = "recv" /\ current' = {} /\ current # {}
      /\ UNCHANGED <<process, chan, running, assets, unfetched>>
  BY DEF Inserted, InsertFailed, NoCommand, Types
<1>2. process \notin {"boot", "down"} /\ unfetched = <<>>
  BY <1>1 DEF BookInv, Phases, Types
<1>3. ASSUME NEW c \in current, rows' = Append(rows, c.row), UNCHANGED <<late, strayed, everStrayed>>
      PROVE  BookInv'
  <2>1. c.row \in Rows BY DEF Types
  <2>2. /\ \A w \in late' : w.id < c.row.id
        /\ ~everStrayed => ~Panics(Books(NewAssets, rows)[Len(rows)], c.row.cmd)
        /\ ~strayed => assets = After(Books(NewAssets, rows)[Len(rows)], c.row)
    BY <1>3 DEF InOrder, BookInv, Story
  <2>3. /\ Story' /\ Len(rows) \in Nat /\ Len(rows') = Len(rows) + 1
        /\ Books(NewAssets, rows')[Len(rows')] = After(Books(NewAssets, rows)[Len(rows)], c.row)
    BY <1>1, <1>3, <2>1, <2>2, StoryStored DEF BookInv
  <2>4. ~strayed => assets = Books(NewAssets, rows')[Len(rows')] BY <2>2, <2>3
  <2>5. DOMAIN unfetched = {} /\ Len(unfetched) = 0 BY <1>2
  <2>6. ASSUME ~strayed, NEW k, NEW n, Behind(k, n) PROVE Behind(k + 1, 0)'
    <3>1. n = 0 /\ k = Len(rows) BY <1>1, <2>5, <2>6, Lengths DEF Behind
    <3> QED BY <1>1, <1>3, <2>3, <2>4, <2>5, <2>6, <3>1 DEF Behind
  <2>7. Phases' BY <1>1, <1>2, <1>3 DEF BookInv, Phases
  <2> QED BY <1>1, <1>3, <2>3, <2>6, <2>7 DEF BookInv
<1>4. ASSUME strayed', everStrayed' PROVE BookInv'
  <2>1. Story' BY <1>1, <1>4 DEF Story
  <2>2. Phases' BY <1>1, <1>2, <1>4 DEF BookInv, Phases
  <2> QED BY <1>4, <2>1, <2>2 DEF BookInv
<1> QED BY <1>3, <1>4 DEF Inserted, InsertFailed, aftermath

(* A row that nobody waits for is stored.  While the process is down, and  *)
(* when it is the last of all, the log still tells what happened.          *)
LEMMA BookLate ==
  ASSUME Types, Types', InOrder, BookInv, LateInsert
  PROVE  BookInv'
<1>1. PICK row \in late : /\ rows' = Append(rows, row) /\ late' = late \ {row}
                          /\ strayed' = (strayed \/ process # "down")
                          /\ everStrayed' = \/ everStrayed \/ process # "down"
                                            \/ \E other \in Range(rows) \union late : other.id > row.id
                          /\ UNCHANGED <<process, chan, task, running, assets, current, unfetched>>
  BY DEF LateInsert
<1>2. Phases' BY <1>1 DEF BookInv, Phases
<1>3. task # "gone" => strayed' BY <1>1 DEF Types
<1>4. CASE everStrayed'
  <2>1. current # {} => strayed' BY <1>3 DEF Types
  <2>2. Story' BY <1>1, <1>4, <2>1 DEF Story
  <2> QED BY <1>1, <1>2, <1>3, <2>2 DEF BookInv
<1>5. CASE ~everStrayed'
  <2>1. ~everStrayed /\ process = "down" /\ task = "gone" /\ current = {} BY <1>1, <1>5 DEF Types
  <2>2. ASSUME NEW other \in Range(rows) \union late PROVE other.id <= row.id
    <3>1. ~(other.id > row.id) BY <1>1, <1>5
    <3>2. row.id \in Nat /\ other.id \in Nat BY Numbers DEF Range
    <3> QED BY <3>1, <3>2
  <2>3. Newest(row) BY <2>2 DEF Newest, Range
  <2>4. ASSUME NEW w \in late' PROVE w.id < row.id
    <3>1. w.id <= row.id /\ w.id # row.id BY <1>1, <2>2 DEF InOrder
    <3>2. row.id \in Nat /\ w.id \in Nat BY <1>1, Numbers
    <3> QED BY <3>1, <3>2
  <2>5. row \in Rows /\ ~Panics(Books(NewAssets, rows)[Len(rows)], row.cmd)
    BY <2>1, <2>3 DEF BookInv, Story, Types
  <2>6. UNCHANGED everStrayed /\ current' = {} /\ late' \subseteq late BY <1>1, <1>5, <2>1 DEF Types
  <2>7. Story' BY <1>1, <2>4, <2>5, <2>6, StoryStored DEF BookInv
  <2> QED BY <1>1, <1>2, <2>1, <2>7 DEF BookInv
<1> QED BY <1>4, <1>5

(* A row is replayed.                                                      *)
LEMMA BookBootstrap ==
  ASSUME Types, Types', BookInv, Receiving, running, Head(chan).tag = "Bootstrap"
  PROVE  /\ ~everStrayed => ~Panics(assets, Head(chan).row.cmd)
         /\ RecvBootstrap => BookInv'
<1>1. task = "recv" /\ current = {} /\ chan # <<>> BY DEF Receiving, Types
<1>2. /\ Len(chan) \in Nat /\ DOMAIN Tail(chan) = 1..(Len(chan) - 1) /\ DOMAIN chan = 1..Len(chan)
      /\ Len(Tail(chan)) = Len(chan) - 1 /\ 1 \in DOMAIN chan /\ Head(chan) = chan[1]
      /\ \A i \in 1..(Len(chan) - 1) : Tail(chan)[i] = chan[i + 1]
  BY <1>1, Tailed DEF Types
<1>3. ASSUME NEW k, NEW n, Behind(k, n)
      PROVE  /\ n - 1 \in Nat /\ k + 1 \in 1..Len(rows) /\ Head(chan).row = rows[k + 1] /\ (k + 1) - 1 = k
             /\ Books(NewAssets, rows)[k + 1] = After(Books(NewAssets, rows)[k], rows[k + 1])
             /\ assets = Books(NewAssets, rows)[k]
  <2>1. n - 1 \in Nat /\ k + 1 \in 1..Len(rows) /\ Head(chan).row = rows[k + 1] /\ (k + 1) - 1 = k
    BY <1>2, <1>3, Lengths DEF Behind
  <2>2. Books(NewAssets, rows)[k + 1] = After(Books(NewAssets, rows)[k], rows[k + 1])
    BY <2>1, Lengths, BooksEquation
  <2> QED BY <1>1, <1>3, <2>1, <2>2 DEF Behind
<1>4. ASSUME ~everStrayed PROVE ~Panics(assets, Head(chan).row.cmd)
  <2>1. ~strayed /\ task # "gone" BY <1>1, <1>4 DEF BookInv, Phases
  <2>2. PICK k, n : Behind(k, n) BY <2>1 DEF BookInv
  <2>3. k + 1 \in DOMAIN rows /\ ~Panics(Books(NewAssets, rows)[(k + 1) - 1], rows[k + 1].cmd)
    BY <1>3, <1>4, <2>2, Lengths DEF BookInv, Story
  <2> QED BY <1>3, <2>2, <2>3
<1>5. ASSUME RecvBootstrap PROVE BookInv'
  <2>1. /\ chan' = Tail(chan) /\ assets' = After(assets, Head(chan).row)
        /\ UNCHANGED <<process, task, running, current, rows, unfetched, late, strayed, everStrayed>>
    BY <1>5 DEF RecvBootstrap, After, aftermath
  <2>2. ASSUME NEW k, NEW n, Behind(k, n) PROVE Behind(k + 1, n - 1)'
    <3>1. \A i \in DOMAIN chan' : chan'[i].tag = "Bootstrap" <=> i <= n - 1
      BY <1>2, <1>3, <2>1, <2>2, SMTT(30) DEF Behind
    <3>2. ASSUME NEW i \in 1..(n - 1) PROVE chan'[i].row = rows[(k + 1) + i]
      <4>0. k \in Nat /\ n \in Nat /\ n <= Len(chan) BY <2>2 DEF Behind
      <4>1. i \in 1..(Len(chan) - 1) /\ i + 1 \in 1..n /\ k + (i + 1) = (k + 1) + i
        BY <1>2, <4>0
      <4> QED BY <1>2, <2>1, <2>2, <4>1 DEF Behind
    <3>3. ASSUME NEW i \in DOMAIN unfetched PROVE unfetched[i] = rows[(k + 1) + (n - 1) + i]
      <4>1. (k + 1) + (n - 1) + i = k + n + i BY <2>2, Lengths DEF Behind
      <4> QED BY <2>2, <4>1 DEF Behind
    <3>4. /\ k + 1 \in Nat /\ n - 1 \in Nat /\ n - 1 <= Len(chan')
          /\ (k + 1) + (n - 1) + Len(unfetched) = Len(rows)
      <4>1. k \in Nat /\ n \in Nat /\ n <= Len(chan) /\ k + n + Len(unfetched) = Len(rows)
        BY <2>2 DEF Behind
      <4>2. Len(unfetched) \in Nat /\ Len(chan) \in Nat BY Lengths
      <4>3. Len(chan') = Len(chan) - 1 /\ n - 1 \in Nat BY <1>2, <1>3, <2>1, <2>2
      <4> QED BY <4>1, <4>2, <4>3
    <3>5. assets' = Books(NewAssets, rows)[k + 1] BY <1>3, <2>1, <2>2
    <3>6. ~running' \/ current' # {} => n - 1 = 0 BY <1>1, <2>1
    <3> QED BY <2>1, <3>1, <3>2, <3>3, <3>4, <3>5, <3>6 DEF Behind
  <2>3. Phases' BY <1>1, <1>2, <2>1 DEF BookInv, Phases, Types
  <2>4. Story'
    <3>1. \A w : Newest(w)' <=> Newest(w) BY <2>1 DEF Newest
    <3> QED BY <1>1, <2>1, <3>1 DEF BookInv, Story
  <2> QED BY <1>1, <2>1, <2>2, <2>3, <2>4 DEF BookInv
<1> QED BY <1>4, <1>5

(* The process dies: what was at its INSERT may yet be stored.             *)
LEMMA BookDie ==
  ASSUME Types, Types', InOrder, BookInv, Die
  PROVE  BookInv'
<1>1. /\ process' = "down" /\ chan' = <<>> /\ task' = "gone" /\ assets' = NewAssets /\ current' = {}
      /\ unfetched' = <<>> /\ late' = late \union {c.row : c \in current} /\ ~strayed'
      /\ UNCHANGED <<rows, everStrayed>>
  BY DEF Die, NoCommand
<1>2. ASSUME ~everStrayed, NEW w \in late', Newest(w)'
      PROVE  ~Panics(Books(NewAssets, rows)[Len(rows)], w.cmd)
  <2>1. CASE \E c \in current : w = c.row BY <1>2, <2>1 DEF BookInv, Story
  <2>2. CASE w \in late /\ current = {}
    <3>1. Newest(w) BY <1>1, <1>2, <2>2 DEF Newest
    <3> QED BY <1>2, <2>2, <3>1 DEF BookInv, Story
  <2>3. ASSUME w \in late, NEW c \in current PROVE FALSE
    <3>1. c.row.id <= w.id BY <1>1, <1>2 DEF Newest
    <3>2. w.id < c.row.id /\ w.id \in Nat /\ c.row.id \in Nat BY <2>3, Numbers DEF InOrder
    <3> QED BY <3>1, <3>2
  <2> QED BY <1>1, <2>1, <2>2, <2>3
<1>3. Story' BY <1>1, <1>2 DEF BookInv, Story
<1> QED BY <1>1, <1>3 DEF BookInv, Phases

(* A new process has the whole log before it.                              *)
LEMMA BookStart ==
  ASSUME Types, Types', BookInv, Start
  PROVE  BookInv'
<1>1. /\ process = "down" /\ process' = "boot" /\ task' = "recv" /\ running' /\ unfetched' = rows
      /\ UNCHANGED <<chan, assets, current, rows, late, strayed, everStrayed>>
  BY DEF Start, aftermath
<1>2. task = "gone" /\ chan = <<>> /\ current = {} /\ assets = NewAssets /\ ~strayed
  BY <1>1 DEF BookInv, Phases, Types
<1>3. Books(NewAssets, rows)[0] = NewAssets BY Lengths, BooksEquation
<1>4. Behind(0, 0)' BY <1>1, <1>2, <1>3, Lengths DEF Behind
<1>5. Phases' BY <1>1, <1>2 DEF Phases
<1>6. Story' BY <1>1, StoryKept DEF BookInv
<1> QED BY <1>4, <1>5, <1>6 DEF BookInv

(* The next row is fetched in the order of the log.                        *)
LEMMA BookFetchNext ==
  ASSUME Types, Types', BookInv, process = "boot", task # "gone", ~strayed, 1 \in DOMAIN unfetched,
         chan' = Append(chan, Bootstrap(unfetched[1])), unfetched' = RemoveAt(unfetched, 1),
         UNCHANGED <<process, task, running, assets, current, rows, strayed>>
  PROVE  \E k, n : Behind(k, n)'
<1>1. /\ process = "boot" /\ task # "gone" /\ 1 \in DOMAIN unfetched
      /\ chan' = Append(chan, Bootstrap(unfetched[1])) /\ unfetched' = RemoveAt(unfetched, 1)
      /\ UNCHANGED <<process, task, running, assets, current, rows>>
  OBVIOUS
<1> DEFINE m == Bootstrap(unfetched[1])
<1>2. m \in Commands /\ m.tag = "Bootstrap" /\ m.row = unfetched[1]
  <2>1. unfetched[1] \in Rows BY <1>1, ElementOfSeq, LenProperties DEF Types
  <2> QED BY <2>1 DEF Bootstrap, Commands
<1> HIDE DEF m
<1>3. /\ Len(chan) \in Nat /\ DOMAIN chan' = 1..(Len(chan) + 1) /\ DOMAIN chan = 1..Len(chan)
      /\ Len(chan') = Len(chan) + 1 /\ chan'[Len(chan) + 1] = m
      /\ \A i \in 1..Len(chan) : chan'[i] = chan[i]
  BY <1>1, <1>2, Appended DEF Types, m
<1>4. /\ Len(unfetched) \in Nat /\ Len(unfetched') = Len(unfetched) - 1
      /\ DOMAIN unfetched' = 1..(Len(unfetched) - 1)
      /\ \A j \in 1..(Len(unfetched) - 1) : unfetched'[j] = unfetched[j + 1]
  <2>1. \A j \in 1..(Len(unfetched) - 1) : unfetched'[j] = IF j < 1 THEN unfetched[j] ELSE unfetched[j + 1]
    BY <1>1, Removed, SMTT(30) DEF Types
  <2>2. Len(unfetched) \in Nat /\ Len(unfetched') = Len(unfetched) - 1
        /\ DOMAIN unfetched' = 1..(Len(unfetched) - 1)
    BY <1>1, Removed DEF Types
  <2> QED BY <2>1, <2>2
<1>5. PICK k, n : Behind(k, n) BY <1>1 DEF BookInv
<1>6. n = Len(chan) /\ running /\ current = {}
  <2>1. \A i \in DOMAIN chan : chan[i].tag = "Bootstrap" BY <1>1 DEF BookInv, Phases
  <2>2. n \in Nat /\ n <= Len(chan) BY <1>5 DEF Behind
  <2>3. ASSUME Len(chan) # 0 PROVE Len(chan) <= n
    <3>1. Len(chan) \in DOMAIN chan BY <1>3, <2>3
    <3> QED BY <1>5, <2>1, <3>1 DEF Behind
  <2>5. n = Len(chan)
    <3> DEFINE l == Len(chan)
    <3>1. l \in Nat /\ n \in Nat /\ n <= l /\ (l # 0 => l <= n) BY <1>3, <2>2, <2>3
    <3> HIDE DEF l
    <3>2. n = l BY <3>1
    <3> QED BY <3>2 DEF l
  <2>6. running /\ current = {} BY <1>1 DEF BookInv, Phases
  <2> QED BY <2>5, <2>6
<1>7. \A i \in 1..(n + 1) : chan'[i].row = rows[k + i]
  <2>1. ASSUME NEW i \in 1..n PROVE chan'[i].row = rows[k + i] BY <1>3, <1>5, <1>6 DEF Behind
  <2>2. unfetched[1] = rows[k + n + 1] BY <1>1, <1>5 DEF Behind
  <2>3. k + n + 1 = k + (n + 1) BY <1>5 DEF Behind
  <2> QED BY <1>2, <1>3, <1>6, <2>1, <2>2, <2>3
<1>8. ASSUME NEW i \in DOMAIN unfetched' PROVE unfetched'[i] = rows[k + (n + 1) + i]
  <2>1. i + 1 \in DOMAIN unfetched /\ i \in 1..(Len(unfetched) - 1) BY <1>4, Lengths
  <2>2. k + (n + 1) + i = k + n + (i + 1) BY <1>5, <2>1 DEF Behind
  <2> QED BY <1>4, <1>5, <2>1, <2>2 DEF Behind
<1>9. Behind(k, n + 1)'
  <2>1. k \in Nat /\ n + 1 \in Nat /\ n + 1 <= Len(chan') /\ k + (n + 1) + Len(unfetched') = Len(rows)
    <3>1. k \in Nat /\ n \in Nat /\ k + n + Len(unfetched) = Len(rows) BY <1>5 DEF Behind
    <3>2. Len(unfetched) \in Nat /\ Len(unfetched') = Len(unfetched) - 1 /\ Len(chan') = n + 1
      BY <1>3, <1>4, <1>6
    <3> QED BY <3>1, <3>2
  <2>2. ASSUME NEW i \in DOMAIN chan' PROVE chan'[i].tag = "Bootstrap" <=> i <= n + 1
    <3>1. n \in Nat /\ i \in 1..(n + 1) BY <1>3, <1>6
    <3>2. CASE i = n + 1 BY <1>2, <1>3, <1>6, <3>1, <3>2
    <3>3. CASE i # n + 1
      <4>1. i \in 1..n /\ i \in DOMAIN chan BY <1>3, <1>6, <3>1, <3>3
      <4>2. chan'[i] = chan[i] BY <1>3, <1>6, <4>1
      <4>3. chan[i].tag = "Bootstrap" <=> i <= n BY <1>5, <4>1 DEF Behind
      <4> QED BY <3>1, <4>1, <4>2, <4>3
    <3> QED BY <3>2, <3>3
  <2>3. assets = Books(NewAssets, rows)[k] BY <1>5, <1>6 DEF Behind
  <2> QED BY <1>1, <1>6, <1>7, <1>8, <2>1, <2>2, <2>3 DEF Behind
<1> QED BY <1>9

(* A row is fetched, in whatever order the SELECT yields them.             *)
LEMMA BookFetch ==
  ASSUME Types, Types', BookInv, FetchRow
  PROVE  BookInv'
<1>1. PICK i \in DOMAIN unfetched : /\ chan' = Append(chan, Bootstrap(unfetched[i]))
                                    /\ unfetched' = RemoveAt(unfetched, i)
                                    /\ strayed' = (strayed \/ i # 1)
                                    /\ everStrayed' = (everStrayed \/ i # 1)
  BY DEF FetchRow
<1>2. process = "boot" /\ task # "gone" /\ UNCHANGED <<process, task, running, assets, current, rows, late>>
  BY DEF FetchRow
<1>3. current = {} BY <1>2 DEF BookInv, Phases
<1>4. \A x \in DOMAIN chan' : chan'[x].tag = "Bootstrap"
  <2>1. unfetched[i] \in Rows BY ElementOfSeq, LenProperties DEF Types
  <2>2. Bootstrap(unfetched[i]) \in Commands /\ Bootstrap(unfetched[i]).tag = "Bootstrap"
    BY <2>1 DEF Bootstrap, Commands
  <2>3. \A x \in DOMAIN chan : chan[x].tag = "Bootstrap" BY <1>2 DEF BookInv, Phases
  <2> QED BY <1>1, <2>2, <2>3, Appended DEF Types
<1>5. Phases' BY <1>1, <1>2, <1>4 DEF BookInv, Phases
<1>6. Story'
  <2>1. \A w : Newest(w)' <=> Newest(w) BY <1>2 DEF Newest
  <2> QED BY <1>1, <1>2, <1>3, <2>1 DEF BookInv, Story
<1>7. ASSUME ~strayed' PROVE \E k, n : Behind(k, n)'
  BY <1>1, <1>2, <1>7, BookFetchNext DEF BookInv, Types
<1> QED BY <1>5, <1>6, <1>7 DEF BookInv

LEMMA BookNext ==
  ASSUME Types, Types', InOrder, BookInv, [Next]_vars
  PROVE  BookInv'
<1>1. ASSUME NEW cmd \in Cmds, Send(cmd) PROVE BookInv'
  <2>1. Len(sent) \in Nat BY LenProperties DEF Types
  <2>2. /\ Trade(Row(Len(sent) + 1, cmd)) \in Commands
        /\ Trade(Row(Len(sent) + 1, cmd)).tag # "Bootstrap"
    BY <2>1 DEF Trade, Row, Commands, Rows
  <2> QED BY <1>1, <2>2, BookAppend DEF Send, Up, aftermath
<1>2. ASSUME NEW order \in Menu, Send(Place(order)) PROVE BookInv'
  BY <1>1, <1>2 DEF Cmds
<1>3. ASSUME NEW target \in DOMAIN sent, Send(Cancel(target)) PROVE BookInv'
  <2>1. target \in Nat BY LenProperties DEF Types
  <2> QED BY <1>1, <1>3, <2>1 DEF Cmds
<1>4. CASE SendShutdown \/ \E tag \in Controls : SendControl(tag)
  <2>1. \A tag \in {"Suspend", "Resume", "Shutdown"} :
           Control(tag) \in Commands /\ Control(tag).tag # "Bootstrap"
    BY DEF Control, Commands
  <2> QED BY <1>4, <2>1, ControlsAssumption, BookAppend DEF SendShutdown, SendControl, aftermath
<1>5. CASE RecvSuspended BY <1>5, BookIgnore DEF RecvSuspended, aftermath
<1>6. CASE RecvSuspend \/ RecvResume BY <1>6, BookIgnore DEF RecvSuspend, RecvResume, aftermath
<1>7. CASE RecvShutdown \/ RecvTradePanics
  <2>1. Receiving /\ chan # <<>> /\ Head(chan).tag # "Bootstrap" /\ task # "gone" /\ task = "recv"
    BY <1>7 DEF RecvShutdown, RecvTradePanics, Receiving
  <2>2. process # "boot" BY <2>1, CaughtUp DEF BookInv
  <2> QED BY <1>7, <2>1, <2>2, BookGone DEF RecvShutdown, RecvTradePanics, PanicOn, aftermath
<1>8. CASE RecvBootstrapPanics
  <2>1. everStrayed BY <1>8, BookBootstrap DEF RecvBootstrapPanics, PanicOn
  <2> QED BY <1>8, <2>1, BookGone DEF RecvBootstrapPanics, PanicOn, Receiving, aftermath
<1>9. CASE RecvTrade BY <1>9, BookTrade
<1>10. CASE RecvBootstrap BY <1>10, BookBootstrap DEF RecvBootstrap
<1>11. CASE Inserted \/ InsertFailed BY <1>11, BookInserted
<1>12. CASE Die BY <1>12, BookDie
<1>13. CASE Start BY <1>13, BookStart
<1>14. CASE FetchRow BY <1>14, BookFetch
<1>15. CASE RequestShutdown \/ Serve \/ UNCHANGED vars
  <2>1. UNCHANGED <<chan, task, running, assets, current, rows, unfetched, late, strayed, everStrayed>>
        /\ \/ process' = process
           \/ process' \in {"closing", "serving"} /\ (process = "boot" => unfetched = <<>>)
    BY <1>15 DEF RequestShutdown, Serve, vars, aftermath
  <2>2. Phases' BY <2>1 DEF BookInv, Phases
  <2>3. Story' BY <2>1, StoryKept DEF BookInv
  <2>4. ASSUME NEW k, NEW n, Behind(k, n) PROVE Behind(k, n)' BY <2>1, <2>4 DEF Behind
  <2> QED BY <2>1, <2>2, <2>3, <2>4 DEF BookInv
<1>16. CASE LateInsert BY <1>16, BookLate
<1> QED
  BY <1>2, <1>3, <1>4, <1>5, <1>6, <1>7, <1>8, <1>9, <1>10, <1>11, <1>12, <1>13, <1>14, <1>15, <1>16
  DEF Next, Supervise, Boot, Crash, Exit

LEMMA BookInit == Init => BookInv
<1> SUFFICES ASSUME Init PROVE BookInv OBVIOUS
<1>1. Len(rows) = 0 /\ Len(chan) = 0 /\ Len(unfetched) = 0 /\ DOMAIN chan = {} /\ DOMAIN unfetched = {}
      /\ DOMAIN rows = {}
  BY DEF Init
<1>2. Books(NewAssets, rows)[0] = NewAssets BY <1>1, BooksEquation
<1>3. Behind(0, 0) BY <1>1, <1>2 DEF Behind, Init, NoCommand
<1>4. Phases /\ Story BY <1>1 DEF Phases, Story, Init, NoCommand
<1> QED BY <1>3, <1>4 DEF BookInv

(* What is still to be replayed is the rest of the log.                    *)
LEMMA RestOfLog ==
  ASSUME Types, NEW k, NEW n, Behind(k, n)
  PROVE  /\ Len(ToReplay) = n + Len(unfetched)
         /\ \A j \in 1..(n + Len(unfetched)) : ToReplay[j] = rows[k + j]
<1>1. n \in 0..Len(chan) /\ \A i \in DOMAIN chan : chan[i].tag = "Bootstrap" <=> i <= n
  BY Lengths DEF Behind
<1>2. ASSUME NEW p \in 0..Len(chan), \A i \in DOMAIN chan : chan[i].tag = "Bootstrap" <=> i <= p
      PROVE  p = n
  <2>1. CASE p < n
    <3>1. p + 1 \in DOMAIN chan BY <1>1, <2>1, Lengths
    <3>2. p + 1 <= n /\ ~(p + 1 <= p) BY <1>1, <2>1, Lengths
    <3> QED BY <1>1, <1>2, <3>1, <3>2
  <2>2. CASE n < p
    <3>1. n + 1 \in DOMAIN chan BY <1>1, <2>2, Lengths
    <3>2. n + 1 <= p /\ ~(n + 1 <= n) BY <1>1, <2>2, Lengths
    <3> QED BY <1>1, <1>2, <3>1, <3>2
  <2> QED BY <1>1, <2>1, <2>2, Lengths
<1>3. Queued = n BY <1>1, <1>2 DEF Queued
<1> DEFINE m == n + Len(unfetched)
<1>4. m \in Nat BY <1>1, Lengths
<1>5. ToReplay = [i \in 1..m |-> IF i <= n THEN chan[i].row ELSE unfetched[i - n]]
  BY <1>3 DEF ToReplay
<1>6. ASSUME NEW j \in 1..m PROVE ToReplay[j] = rows[k + j]
  <2>1. CASE j <= n
    <3>1. j \in 1..n BY <1>1, <2>1, Lengths
    <3> QED BY <1>5, <2>1, <3>1 DEF Behind
  <2>2. CASE ~(j <= n)
    <3>1. j - n \in DOMAIN unfetched /\ k + n + (j - n) = k + j BY <1>1, <2>2, Lengths DEF Behind
    <3> QED BY <1>5, <2>2, <3>1 DEF Behind
  <2> QED BY <2>1, <2>2
<1> HIDE DEF m
<1>7. Len(ToReplay) = m BY <1>4, <1>5
<1> QED BY <1>6, <1>7 DEF m

LEMMA BookIsReplay == Types /\ BookInv => BookIsReplayOfLog
<1> SUFFICES ASSUME Types, BookInv, task # "gone", ~strayed
             PROVE  Replay(assets, ToReplay) = Replay(NewAssets, rows \o InFlight)
  BY DEF BookIsReplayOfLog
<1>1. PICK k, n : Behind(k, n) BY DEF BookInv
<1>2. /\ k \in Nat /\ Len(ToReplay) \in Nat /\ k + Len(ToReplay) = Len(rows) /\ Len(rows) \in Nat
      /\ Len(ToReplay) = n + Len(unfetched)
      /\ \A j \in 1..Len(ToReplay) : ToReplay[j] = rows[k + j]
  <2>1. /\ Len(ToReplay) = n + Len(unfetched)
        /\ \A j \in 1..(n + Len(unfetched)) : ToReplay[j] = rows[k + j]
    BY <1>1, RestOfLog
  <2>2. /\ k \in Nat /\ n \in Nat /\ k + n + Len(unfetched) = Len(rows)
        /\ Len(rows) \in Nat /\ Len(unfetched) \in Nat
    BY <1>1, Lengths DEF Behind
  <2> QED BY <2>1, <2>2
<1>3. CASE current = {}
  <2>1. InFlight = <<>> BY <1>3 DEF InFlight, NoCommand
  <2>2. rows \o InFlight = rows BY <2>1, ConcatEmptySeq DEF Types
  <2>3. assets = Books(NewAssets, rows)[k] BY <1>1, <1>3 DEF Behind
  <2>4. Replay(Books(NewAssets, rows)[k], ToReplay) = Replay(NewAssets, rows) BY <1>2, ReplayRest
  <2> QED BY <2>2, <2>3, <2>4
<1>4. ASSUME NEW c \in current, current = {c} PROVE Replay(assets, ToReplay) = Replay(NewAssets, rows \o InFlight)
  <2>1. c.row \in Rows /\ rows \in Seq(Rows) BY DEF Types
  <2>2. InFlight = <<c.row>> BY <1>4 DEF InFlight, NoCommand
  <2>3. rows \o InFlight = Append(rows, c.row) BY <2>1, <2>2, AppendIsConcat
  <2>4. n = 0 /\ unfetched = <<>> BY <1>1, <1>4 DEF BookInv, Behind, Phases
  <2>5. Len(ToReplay) = 0 BY <1>2, <2>4
  <2>6. Books(assets, ToReplay)[Len(ToReplay)] = assets BY <1>2, <2>5, BooksEquation
  <2>7. assets = After(Books(NewAssets, rows)[Len(rows)], c.row) BY DEF BookInv, Story
  <2>8. Len(Append(rows, c.row)) = Len(rows) + 1 BY <2>1, Appended
  <2>9. Books(NewAssets, Append(rows, c.row))[Len(rows) + 1] = assets
    BY <2>1, <2>7, BooksAppend
  <2> QED BY <2>3, <2>6, <2>8, <2>9, ReplayIsBooks
<1> QED BY <1>3, <1>4 DEF Types

LEMMA AlwaysBookInv == Spec => [](Types /\ BookInv)
<1>1. Init => Types /\ InOrder /\ BookInv BY TypesInit, InOrderInit, BookInit
<1>2. Types /\ Types' /\ InOrder /\ BookInv /\ [Next]_vars => BookInv' BY BookNext
<1> QED BY <1>1, <1>2, AlwaysInOrder, PTL DEF Spec

(* The book in memory is the one a restart would rebuild from the log      *)
(* (init_from_db), after any number of crashes, failed INSERTs and         *)
(* restarts, in every life in which no INSERT was given up, no row given   *)
(* up earlier landed and the SELECT yielded the rows as they were stored.  *)
THEOREM BookIsReplayed == Spec => []BookIsReplayOfLog
  BY AlwaysBookInv, BookIsReplay, PTL

(* A start of the process runs into a panic of an engine with overflow     *)
(* checks only if the log once parted from a book: through a command that  *)
(* was executed and not logged, a row that landed too late, or a SELECT    *)
(* that yielded the rows out of order.                                     *)
THEOREM BootPanicsExplained == Spec => []BootPanicCause
<1>1. BookInv => BootPanicCause BY DEF BookInv, Phases, BootPanicCause
<1> QED BY <1>1, AlwaysBookInv, PTL
-----------------------------------------------------------------------------
(* What executing a command gives, and what it never does.                 *)
LEMMA Results ==
  ASSUME NEW a, NEW cmd
  PROVE  /\ Execute(a, cmd).result.tag \in {"Ok", "Err"}
         /\ Execute(a, cmd).result # Err("Database")
<1>1. CASE cmd.op = "cancel"
  <2>1. Execute(a, cmd).result \in {Err("OrderNotFound"), [tag |-> "Ok", order_index |-> {}]}
    BY <1>1 DEF Execute, do_cancel_order
  <2> QED BY <2>1 DEF Err
<1>2. CASE cmd.op # "cancel"
  <2> DEFINE refusal == Refusal(Outcome(a.book, cmd.order), cmd.order.time_in_force)
             given == do_place_order(a.book, a.memo_seq, cmd.order).result
  <2>1. Execute(a, cmd).result = given BY <1>2 DEF Execute
  <2>2. refusal \subseteq {"FillOrKillFailed", "InsufficientLiquidity"} BY DEF Refusal
  <2>3. CASE refusal = {}
    <3>1. \E x, q, rem : given = Ok(cmd.order, x, q, rem) BY <2>3 DEF do_place_order
    <3> QED BY <2>1, <3>1 DEF Ok, Err
  <2>4. CASE refusal # {}
    <3>1. given = Err(CHOOSE e \in refusal : TRUE) BY <2>4 DEF do_place_order
    <3>2. (CHOOSE e \in refusal : TRUE) \in {"FillOrKillFailed", "InsufficientLiquidity"}
      BY <2>2, <2>4
    <3> DEFINE e == CHOOSE e \in refusal : TRUE
    <3>3. e # "Database" BY <3>2
    <3> HIDE DEF e
    <3>4. Err(e).tag = "Err" /\ Err(e).error # Err("Database").error BY <3>3 DEF Err
    <3>5. given = Err(e) BY <3>1 DEF e
    <3> QED BY <2>1, <3>4, <3>5
  <2> QED BY <2>3, <2>4
<1> QED BY <1>1, <1>2

(* Who waits, with what the proof needs besides: an engine that is gone    *)
(* holds nothing, and what executing a command gives is an answer.         *)
Hands ==
    /\ \A id \in 1..Len(sent) : answers[id] = Waiting <=> InHand(id)
    /\ task = "gone" => chan = <<>>
    /\ \A c \in current : c.result.tag \in {"Ok", "Err"}

LEMMA InHandIs ==
  ASSUME NEW id
  PROVE  InHand(id) <=> \/ \E k : IsTrade(k) /\ chan[k].row.id = id
                        \/ \E c \in current : c.row.id = id
  BY DEF InHand, IsTrade

LEMMA InHandWillBe ==
  ASSUME NEW id
  PROVE  InHand(id)' <=> \/ \E k : IsTrade(k)' /\ chan'[k].row.id = id
                         \/ \E c \in current' : c.row.id = id
  BY DEF InHand, IsTrade

(* A step that answers nobody keeps every command in hand.                 *)
LEMMA HandsKept ==
  ASSUME Hands, UNCHANGED <<sent, answers>>, task' = "gone" => task = "gone" /\ chan' = chan,
         \A id \in 1..Len(sent) : InHand(id)' <=> InHand(id),
         \A c \in current' : c.result.tag \in {"Ok", "Err"}
  PROVE  Hands'
<1>1. \A id \in 1..Len(sent') : answers'[id] = Waiting' <=> InHand(id)' BY DEF Hands, Waiting
<1>2. task' = "gone" => chan' = <<>> BY DEF Hands
<1> QED BY <1>1, <1>2 DEF Hands

(* A command that is not a trade is sent or taken.                         *)
LEMMA HandsOther ==
  ASSUME Types, Hands, UNCHANGED <<sent, answers, current, task>>,
         \/ chan' = chan
         \/ task # "gone" /\ \E m \in Commands : m.tag # "Trade" /\ chan' = Append(chan, m)
         \/ task # "gone" /\ chan # <<>> /\ Head(chan).tag # "Trade" /\ chan' = Tail(chan)
  PROVE  Hands'
<1>1. CASE chan' = chan
  <2>1. \A id \in 1..Len(sent) : InHand(id)' <=> InHand(id) BY <1>1 DEF InHand
  <2> QED BY <1>1, <2>1, HandsKept DEF Hands
<1>2. ASSUME task # "gone", NEW m \in Commands, m.tag # "Trade", chan' = Append(chan, m) PROVE Hands'
  <2>1. \A k : IsTrade(k)' <=> IsTrade(k) BY <1>2, Appended DEF IsTrade, Types
  <2>2. \A k : IsTrade(k) => chan'[k] = chan[k] BY <1>2, Appended DEF IsTrade, Types
  <2>3. \A id \in 1..Len(sent) : InHand(id)' <=> InHand(id) BY <2>1, <2>2, InHandIs, InHandWillBe
  <2> QED BY <1>2, <2>3, HandsKept DEF Hands
<1>3. CASE task # "gone" /\ chan # <<>> /\ Head(chan).tag # "Trade" /\ chan' = Tail(chan)
  <2>1. /\ DOMAIN chan = 1..Len(chan) /\ Len(chan) \in Nat /\ DOMAIN chan' = 1..(Len(chan) - 1)
        /\ chan[1].tag # "Trade" /\ \A i \in 1..(Len(chan) - 1) : chan'[i] = chan[i + 1]
    BY <1>3, Tailed DEF Types
  <2>0. Len(chan) \in Nat BY <2>1
  <2>2. ASSUME NEW k, IsTrade(k)' PROVE IsTrade(k + 1) /\ chan'[k] = chan[k + 1]
    <3>1. k \in 1..(Len(chan) - 1) /\ chan'[k].tag = "Trade" BY <2>1, <2>2 DEF IsTrade
    <3>2. k + 1 \in 1..Len(chan) BY <2>0, <3>1
    <3> QED BY <2>1, <3>1, <3>2 DEF IsTrade
  <2>3. ASSUME NEW k, IsTrade(k) PROVE \E j : IsTrade(j)' /\ chan'[j] = chan[k]
    <3>1. k \in 1..Len(chan) /\ k # 1 /\ chan[k].tag = "Trade" BY <2>1, <2>3 DEF IsTrade
    <3>2. k - 1 \in 1..(Len(chan) - 1) /\ (k - 1) + 1 = k BY <2>0, <3>1
    <3>3. PICK j \in 1..(Len(chan) - 1) : j + 1 = k BY <3>2
    <3> QED BY <2>1, <3>1, <3>3 DEF IsTrade
  <2>4. \A id \in 1..Len(sent) : InHand(id)' <=> InHand(id) BY <2>2, <2>3, InHandIs, InHandWillBe
  <2> QED BY <1>3, <2>4, HandsKept DEF Hands
<1> QED BY <1>1, <1>2, <1>3

(* A command enters the channel, and its sender waits.                     *)
LEMMA HandsSend ==
  ASSUME Types, Types', InOrder, Hands, NEW cmd \in Cmds, Send(cmd)
  PROVE  Hands'
<1> DEFINE new == Trade(Row(Len(sent) + 1, cmd))
<1>1. Len(sent) \in Nat /\ Len(chan) \in Nat /\ DOMAIN chan = 1..Len(chan) BY Numbers
<1>2. new \in Commands /\ new.tag = "Trade" /\ new.row.id = Len(sent) + 1
  BY <1>1 DEF Trade, Row, Commands, Rows
<1> HIDE DEF new
<1>3. /\ chan' = Append(chan, new) /\ sent' = Append(sent, cmd) /\ answers' = Append(answers, Waiting)
      /\ UNCHANGED <<task, current>> /\ task # "gone"
  BY DEF Send, new
<1>4. Len(sent') = Len(sent) + 1 BY <1>3, Appended DEF Types
<1>5. /\ \A id \in 1..Len(sent) : answers'[id] = answers[id]
      /\ answers'[Len(sent) + 1] = Waiting
  <2> DEFINE A == {answers[id] : id \in 1..Len(sent)} \union {Waiting}
  <2>1. answers \in [1..Len(sent) -> A] BY DEF Types
  <2>2. answers \in Seq(A) BY <1>1, <2>1, SeqDef
  <2>3. Len(answers) = Len(sent) BY <1>1, <2>1, <2>2, LenProperties
  <2>4. Waiting \in A OBVIOUS
  <2> HIDE DEF A
  <2> QED BY <1>3, <2>2, <2>3, <2>4, Appended
<1>6. ASSUME NEW k PROVE IsTrade(k)' <=> IsTrade(k) \/ k = Len(chan) + 1
  BY <1>1, <1>2, <1>3, Appended DEF IsTrade, Types
<1>7. /\ \A k : IsTrade(k) => chan'[k] = chan[k]
      /\ chan'[Len(chan) + 1] = new
  BY <1>1, <1>2, <1>3, Appended DEF IsTrade, Types
<1>8. ASSUME NEW id \in 1..Len(sent) PROVE InHand(id)' <=> InHand(id)
  <2>1. id # Len(sent) + 1 BY <1>1
  <2> QED BY <1>2, <1>3, <1>6, <1>7, <2>1, InHandIs, InHandWillBe
<1>9. ASSUME NEW id, id = Len(sent) + 1 PROVE InHand(id)'
  <2>1. ASSUME NEW k, k = Len(chan) + 1 PROVE IsTrade(k)' /\ chan'[k].row.id = id
    BY <1>2, <1>6, <1>7, <1>9, <2>1
  <2>2. \E k : k = Len(chan) + 1 OBVIOUS
  <2>3. \E k : IsTrade(k)' /\ chan'[k].row.id = id BY <2>1, <2>2
  <2> QED BY <2>3, InHandWillBe
<1>10. \A id \in 1..Len(sent') : answers'[id] = Waiting' <=> InHand(id)'
  <2>1. \A id \in 1..Len(sent') : id \in 1..Len(sent) \/ id = Len(sent) + 1 BY <1>1, <1>4
  <2>2. Waiting' = Waiting BY DEF Waiting
  <2> QED BY <1>5, <1>8, <1>9, <2>1, <2>2 DEF Hands
<1> QED BY <1>3, <1>10 DEF Hands

(* The trade commands of the channel but the first, which is one.          *)
LEMMA BehindHead ==
  ASSUME Types, InOrder, chan # <<>>, Head(chan).tag = "Trade", chan' = Tail(chan)
  PROVE  /\ IsTrade(1) /\ chan[1] = Head(chan)
         /\ \A id : (\E k : IsTrade(k)' /\ chan'[k].row.id = id)
                      <=> id # Head(chan).row.id /\ \E k : IsTrade(k) /\ chan[k].row.id = id
<1>1. /\ DOMAIN chan = 1..Len(chan) /\ DOMAIN chan' = 1..(Len(chan) - 1) /\ 1 \in DOMAIN chan
      /\ chan[1] = Head(chan) /\ \A i \in 1..(Len(chan) - 1) : chan'[i] = chan[i + 1]
  BY Tailed DEF Types
<1>2. Len(chan) \in Nat BY Numbers
<1>3. IsTrade(1) BY <1>1 DEF IsTrade
<1>4. ASSUME NEW k, IsTrade(k)' PROVE \E j : IsTrade(j) /\ 1 < j /\ chan'[k] = chan[j]
  <2>1. k \in 1..(Len(chan) - 1) /\ chan'[k].tag = "Trade" BY <1>1, <1>4 DEF IsTrade
  <2>2. k + 1 \in 1..Len(chan) /\ 1 < k + 1 BY <1>2, <2>1
  <2> QED BY <1>1, <2>1, <2>2 DEF IsTrade
<1>5. ASSUME NEW k, IsTrade(k), k # 1 PROVE \E j : IsTrade(j)' /\ chan'[j] = chan[k]
  <2>1. k \in 1..Len(chan) /\ chan[k].tag = "Trade" BY <1>1, <1>5 DEF IsTrade
  <2>2. k - 1 \in 1..(Len(chan) - 1) /\ (k - 1) + 1 = k BY <1>2, <1>5, <2>1
  <2>3. PICK j \in 1..(Len(chan) - 1) : j + 1 = k BY <2>2
  <2> QED BY <1>1, <2>1, <2>3 DEF IsTrade
<1>6. ASSUME NEW j, IsTrade(j), 1 < j PROVE chan[j].row.id # Head(chan).row.id
  <2>1. chan[1].row.id < chan[j].row.id BY <1>3, <1>6 DEF InOrder
  <2>2. chan[1].row.id \in Nat /\ chan[j].row.id \in Nat BY <1>3, <1>6, Numbers
  <2> QED BY <1>1, <2>1, <2>2
<1>7. ASSUME NEW id, NEW k, IsTrade(k)', chan'[k].row.id = id
      PROVE  id # Head(chan).row.id /\ \E j : IsTrade(j) /\ chan[j].row.id = id
  <2>1. PICK j : IsTrade(j) /\ 1 < j /\ chan'[k] = chan[j] BY <1>4, <1>7
  <2> QED BY <1>6, <1>7, <2>1
<1>8. ASSUME NEW id, id # Head(chan).row.id, NEW k, IsTrade(k), chan[k].row.id = id
      PROVE  \E j : IsTrade(j)' /\ chan'[j].row.id = id
  <2>1. k # 1 BY <1>1, <1>8
  <2>2. PICK j : IsTrade(j)' /\ chan'[j] = chan[k] BY <1>5, <1>8, <2>1
  <2> QED BY <1>8, <2>2
<1> QED BY <1>1, <1>3, <1>7, <1>8

(* What the answers are after a queue was dropped.                         *)
LEMMA AfterDrop ==
  ASSUME Types, NEW queue, DropQueued(queue), NEW id \in 1..Len(sent)
  PROVE  answers'[id] = IF \E i \in DOMAIN queue : queue[i].tag = "Trade" /\ queue[i].row.id = id
                        THEN Dropped ELSE answers[id]
  BY DEF DropQueued, Types

(* A suspended engine takes a command and drops its sender.                *)
LEMMA HandsSuspended ==
  ASSUME Types, InOrder, Hands, RecvSuspended
  PROVE  Hands'
<1>1. /\ chan # <<>> /\ chan' = Tail(chan) /\ task = "recv" /\ DropQueued(<<Head(chan)>>)
      /\ UNCHANGED <<sent, task, current>>
  BY DEF RecvSuspended, Receiving
<1>2. ASSUME NEW id \in 1..Len(sent)
      PROVE  answers'[id] = IF Head(chan).tag = "Trade" /\ Head(chan).row.id = id
                            THEN Dropped ELSE answers[id]
  <2> DEFINE queue == <<Head(chan)>>
  <2>1. DOMAIN queue = {1} /\ queue[1] = Head(chan) OBVIOUS
  <2>2. DropQueued(queue) BY <1>1
  <2> HIDE DEF queue
  <2> QED BY <2>1, <2>2, AfterDrop
<1>3. CASE Head(chan).tag # "Trade"
  <2>1. answers' = answers
    <3>1. answers' = [id \in 1..Len(sent) |-> answers'[id]] BY <1>1, TypesDropped
    <3>2. answers = [id \in 1..Len(sent) |-> answers[id]] BY DEF Types
    <3> QED BY <1>2, <1>3, <3>1, <3>2
  <2> QED BY <1>1, <1>3, <2>1, HandsOther
<1>4. CASE Head(chan).tag = "Trade"
  <2>1. /\ IsTrade(1) /\ chan[1] = Head(chan)
        /\ \A id : (\E k : IsTrade(k)' /\ chan'[k].row.id = id)
                     <=> id # Head(chan).row.id /\ \E k : IsTrade(k) /\ chan[k].row.id = id
    BY <1>1, <1>4, BehindHead
  <2>2. current = {} BY <1>1 DEF Types
  <2>3. ASSUME NEW id \in 1..Len(sent) PROVE InHand(id)' <=> id # Head(chan).row.id /\ InHand(id)
    BY <1>1, <2>1, <2>2, InHandIs, InHandWillBe
  <2>4. Dropped # Waiting /\ Waiting' = Waiting BY DEF Dropped, Waiting
  <2>5. \A id \in 1..Len(sent') : answers'[id] = Waiting' <=> InHand(id)'
    BY <1>1, <1>2, <1>4, <2>3, <2>4 DEF Hands
  <2> QED BY <1>1, <2>5 DEF Hands
<1> QED BY <1>3, <1>4

(* The engine takes a command: it stays in hand.                           *)
LEMMA HandsTrade ==
  ASSUME Types, InOrder, Hands, RecvTrade
  PROVE  Hands'
<1> DEFINE c == [row |-> Head(chan).row, result |-> Execute(assets, Head(chan).row.cmd).result]
<1>1. current' = {c} /\ c.row = Head(chan).row /\ c.result.tag \in {"Ok", "Err"}
  BY Results DEF RecvTrade
<1> HIDE DEF c
<1>2. /\ chan # <<>> /\ chan' = Tail(chan) /\ Head(chan).tag = "Trade" /\ UNCHANGED <<sent, answers>>
      /\ task = "recv" /\ task' = "insert"
  BY DEF RecvTrade, Receiving
<1>3. current = {} BY <1>2 DEF Types
<1>4. /\ IsTrade(1) /\ chan[1] = Head(chan)
      /\ \A id : (\E k : IsTrade(k)' /\ chan'[k].row.id = id)
                   <=> id # Head(chan).row.id /\ \E k : IsTrade(k) /\ chan[k].row.id = id
  BY <1>2, BehindHead
<1>5. ASSUME NEW id \in 1..Len(sent) PROVE InHand(id)' <=> InHand(id)
  BY <1>1, <1>3, <1>4, InHandIs, InHandWillBe
<1> QED BY <1>1, <1>2, <1>5, HandsKept

(* The INSERT ends and the sender is answered.                             *)
LEMMA HandsInserted ==
  ASSUME Types, InOrder, Hands, Inserted \/ InsertFailed
  PROVE  Hands'
<1>1. PICK c \in current : answers' = [answers EXCEPT ![c.row.id] = c.result]
                            \/ answers' = [answers EXCEPT ![c.row.id] = Err("Database")]
  BY DEF Inserted, InsertFailed
<1>2. task' = "recv" /\ current' = {} /\ UNCHANGED <<chan, sent>>
  BY DEF Inserted, InsertFailed, NoCommand
<1>3. current = {c} BY DEF Types
<1>4. c.result # Waiting /\ Err("Database") # Waiting /\ Waiting' = Waiting
  BY DEF Hands, Waiting, Err
<1>5. ASSUME NEW id \in 1..Len(sent)
      PROVE  /\ id = c.row.id => answers'[id] # Waiting
             /\ id # c.row.id => answers'[id] = answers[id]
  BY <1>1, <1>4 DEF Types
<1>6. ASSUME NEW k, IsTrade(k) PROVE chan[k].row.id # c.row.id
  <2>1. c.row.id < chan[k].row.id /\ c.row.id \in Nat /\ chan[k].row.id \in Nat
    BY <1>6, Numbers DEF InOrder
  <2> QED BY <2>1
<1>7. \A k : IsTrade(k)' <=> IsTrade(k) BY <1>2 DEF IsTrade
<1>8. ASSUME NEW id \in 1..Len(sent) PROVE InHand(id)' <=> id # c.row.id /\ InHand(id)
  BY <1>2, <1>3, <1>6, <1>7, InHandIs, InHandWillBe
<1>9. \A id \in 1..Len(sent') : answers'[id] = Waiting' <=> InHand(id)'
  BY <1>2, <1>4, <1>5, <1>8 DEF Hands
<1> QED BY <1>2, <1>9 DEF Hands

(* The engine ends, or the process with it: nobody waits any more.         *)
LEMMA HandsEmpty ==
  ASSUME chan' = <<>>, current' = {}, UNCHANGED sent,
         \A id \in 1..Len(sent) : answers'[id] # Waiting
  PROVE  Hands'
<1>1. \A k : ~IsTrade(k)' BY DEF IsTrade
<1>2. \A id : ~InHand(id)' BY <1>1, InHandWillBe
<1>3. Waiting' = Waiting BY DEF Waiting
<1>4. \A id \in 1..Len(sent') : answers'[id] = Waiting' <=> InHand(id)' BY <1>2, <1>3
<1> QED BY <1>4 DEF Hands

LEMMA HandsGone ==
  ASSUME Types, Hands, RecvShutdown \/ RecvTradePanics \/ RecvBootstrapPanics
  PROVE  Hands'
<1>1. /\ chan # <<>> /\ chan' = <<>> /\ task = "recv" /\ UNCHANGED <<sent, current>>
  BY DEF RecvShutdown, RecvTradePanics, RecvBootstrapPanics, PanicOn, Receiving
<1>2. current = {} BY <1>1 DEF Types
<1>3. ASSUME NEW id \in 1..Len(sent), answers[id] = Waiting
      PROVE  \E k \in DOMAIN chan : chan[k].tag = "Trade" /\ chan[k].row.id = id
  BY <1>2, <1>3 DEF Hands, InHand
<1>4. ASSUME NEW id \in 1..Len(sent) PROVE answers'[id] # Waiting
  <2>1. Dropped # Waiting BY DEF Dropped, Waiting
  <2>2. CASE DropQueued(chan) BY <1>3, <2>1, <2>2, AfterDrop
  <2>3. CASE DropQueued(Tail(chan)) /\ Head(chan).tag = "Shutdown"
    <3>1. /\ DOMAIN chan = 1..Len(chan) /\ Len(chan) \in Nat /\ chan[1] = Head(chan)
          /\ DOMAIN Tail(chan) = 1..(Len(chan) - 1)
          /\ \A i \in 1..(Len(chan) - 1) : Tail(chan)[i] = chan[i + 1]
      BY <1>1, Tailed DEF Types
    <3>2. ASSUME NEW k \in DOMAIN chan, chan[k].tag = "Trade"
          PROVE  \E i \in DOMAIN Tail(chan) : Tail(chan)[i] = chan[k]
      <4>1. k \in 1..Len(chan) /\ k # 1 /\ Len(chan) \in Nat BY <2>3, <3>1, <3>2
      <4>2. k - 1 \in 1..(Len(chan) - 1) /\ (k - 1) + 1 = k BY <4>1
      <4> QED BY <3>1, <4>2
    <3> DEFINE queue == Tail(chan)
    <3>3. answers[id] = Waiting =>
              \E i \in DOMAIN queue : queue[i].tag = "Trade" /\ queue[i].row.id = id
      BY <1>3, <3>2
    <3>4. DropQueued(queue) BY <2>3
    <3> HIDE DEF queue
    <3> QED BY <2>1, <3>3, <3>4, AfterDrop
  <2> QED BY <2>2, <2>3 DEF RecvShutdown, RecvTradePanics, RecvBootstrapPanics, PanicOn
<1> QED BY <1>1, <1>2, <1>4, HandsEmpty

LEMMA HandsDie ==
  ASSUME Types, Die
  PROVE  Hands'
<1>1. Dropped # Waiting BY DEF Dropped, Waiting
<1>2. \A id \in 1..Len(sent) : answers'[id] # Waiting BY <1>1 DEF Die, Types
<1>3. chan' = <<>> /\ current' = {} /\ UNCHANGED sent BY DEF Die, NoCommand
<1> QED BY <1>2, <1>3, HandsEmpty

LEMMA HandsNext == Types /\ Types' /\ InOrder /\ Hands /\ [Next]_vars => Hands'
<1> SUFFICES ASSUME Types, Types', InOrder, Hands, [Next]_vars PROVE Hands' OBVIOUS
<1>1. ASSUME NEW order \in Menu, Send(Place(order)) PROVE Hands'
  BY <1>1, HandsSend DEF Cmds
<1>2. ASSUME NEW target \in DOMAIN sent, Send(Cancel(target)) PROVE Hands'
  <2>1. target \in Nat BY LenProperties DEF Types
  <2> QED BY <1>2, <2>1, HandsSend DEF Cmds
<1>3. ASSUME NEW tag \in {"Suspend", "Resume", "Shutdown"}, chan' = Append(chan, Control(tag)),
             task # "gone", UNCHANGED <<sent, answers, current, task>>
      PROVE  Hands'
  <2>1. Control(tag) \in Commands /\ Control(tag).tag # "Trade" BY DEF Control, Commands
  <2> QED BY <1>3, <2>1, HandsOther
<1>4. ASSUME NEW tag \in Controls, SendControl(tag) PROVE Hands'
  BY <1>3, <1>4, ControlsAssumption DEF SendControl
<1>5. CASE SendShutdown BY <1>3, <1>5 DEF SendShutdown
<1>6. CASE RecvSuspend \/ RecvResume \/ RecvBootstrap
  BY <1>6, HandsOther DEF RecvSuspend, RecvResume, RecvBootstrap, Receiving
<1>7. CASE RequestShutdown \/ Serve \/ LateInsert \/ UNCHANGED vars
  BY <1>7, HandsOther DEF RequestShutdown, Serve, LateInsert, vars
<1>8. CASE FetchRow
  <2>1. PICK i \in DOMAIN unfetched : chan' = Append(chan, Bootstrap(unfetched[i])) BY <1>8 DEF FetchRow
  <2>2. unfetched[i] \in Rows BY <2>1, ElementOfSeq, LenProperties DEF Types
  <2>3. Bootstrap(unfetched[i]) \in Commands /\ Bootstrap(unfetched[i]).tag # "Trade"
    BY <2>2 DEF Bootstrap, Commands
  <2> QED BY <1>8, <2>1, <2>3, HandsOther DEF FetchRow
<1>9. CASE Start
  <2>1. UNCHANGED <<chan, sent, answers, current>> /\ task' = "recv" BY <1>9 DEF Start
  <2>2. \A id \in 1..Len(sent) : InHand(id)' <=> InHand(id) BY <2>1 DEF InHand
  <2> QED BY <2>1, <2>2, HandsKept DEF Hands
<1>10. CASE Die BY <1>10, HandsDie
<1> QED
  BY <1>1, <1>2, <1>4, <1>5, <1>6, <1>7, <1>8, <1>9, <1>10, HandsSuspended, HandsTrade, HandsInserted,
     HandsGone
  DEF Next, Supervise, Boot, Crash, Exit

(* Nobody waits in vain: a sender waits exactly as long as a running       *)
(* engine has its command in the channel or at its INSERT, whatever panics,*)
(* shutdowns, failed INSERTs, crashes and restarts come in between         *)
(* (trading_engine_supervisor, the oneshots of te_response.rs).            *)
THEOREM NobodyWaitsInVain == Spec => []WaitsWhileInHand
<1>1. Init => Hands
  <2> SUFFICES ASSUME Init PROVE Hands OBVIOUS
  <2>1. Len(sent) = 0 BY EmptySeq DEF Init
  <2> QED BY <2>1 DEF Init, Hands, NoCommand
<1>2. Types /\ Hands => WaitsWhileInHand
  <2> SUFFICES ASSUME Types, Hands, NEW id \in DOMAIN answers
               PROVE  answers[id] = Waiting <=> task # "gone" /\ InHand(id)
    BY DEF WaitsWhileInHand
  <2>1. id \in 1..Len(sent) BY DEF Types
  <2>2. task = "gone" => ~InHand(id) BY DEF Hands, Types, InHand
  <2> QED BY <2>1, <2>2 DEF Hands
<1> QED BY <1>1, <1>2, AlwaysInOrder, HandsNext, PTL DEF Spec
-----------------------------------------------------------------------------
(* The engine's book, seen as the one of Matching between two orders: what *)
(* MatchingProofs shows of do_place_order on any book is used for Execute. *)
MP == INSTANCE MatchingProofs WITH
        book <- assets.book, book0 <- assets.book,
        memo_seq <- assets.memo_seq, memo_seq0 <- assets.memo_seq,
        pc <- "idle", order <- {}, todo <- {}, rem <- 0, outcome <- "None",
        maker_fills <- <<>>, next <- 1, reply <- {}, rems <- <<>>

(* Both place orders with the same function.                               *)
LEMMA SameTotals ==
  ASSUME NEW b, NEW S
  PROVE  MP!TotalQuantity(b, S) = TotalQuantity(b, S)
  BY DEF MP!TotalQuantity, TotalQuantity, MP!MapThenSumSet, MapThenSumSet,
         MP!MapThenFoldSet, MapThenFoldSet

LEMMA SamePlace ==
  ASSUME NEW b, NEW m, NEW o
  PROVE  MP!do_place_order(b, m, o).book = do_place_order(b, m, o).book
<1>1. MP!Eligible(b, o) = Eligible(b, o)
  BY DEF MP!Eligible, Eligible, MP!MakerSide, MakerSide, MP!MeetsPrice, MeetsPrice
<1>2. \A x, y : MP!Precedes(x, y) = Precedes(x, y) BY DEF MP!Precedes, Precedes
<1>3. \A S : MP!Min(S) = Min(S) BY DEF MP!Min, Min
<1>4. \A x : MP!Taken(b, o, x) = Taken(b, o, x) BY <1>1, <1>2, <1>3, SameTotals DEF MP!Taken, Taken
<1>5. MP!Filled(b, o) = Filled(b, o) BY <1>1, <1>3, SameTotals DEF MP!Filled, Filled
<1>6. MP!Outcome(b, o) = Outcome(b, o) BY <1>5 DEF MP!Outcome, Outcome
<1>7. \A x, y : MP!Refusal(x, y) = Refusal(x, y) BY DEF MP!Refusal, Refusal
<1>8. MP!Traded(b, o) = Traded(b, o) BY <1>4 DEF MP!Traded, Traded
<1>9. \A c : MP!ForgetEmpty(m, c) = ForgetEmpty(m, c)
  BY DEF MP!ForgetEmpty, ForgetEmpty, MP!OrderSide, OrderSide
<1>10. \A c, x, q : MP!WithOrder(c, x, q) = WithOrder(c, x, q) BY DEF MP!WithOrder, WithOrder
<1> DEFINE refusal == Refusal(Outcome(b, o), o.time_in_force)
           remaining == o.quantity - Filled(b, o)
           traded == Traded(b, o)
           oix == [side |-> o.side, price |-> o.price,
                   memo |-> ForgetEmpty(m, traded)[o.side][o.price]]
           rests == remaining > 0 /\ o.time_in_force # "ImmediateOrCancel"
           Mrefusal == MP!Refusal(MP!Outcome(b, o), o.time_in_force)
           Mremaining == o.quantity - MP!Filled(b, o)
           Mtraded == MP!Traded(b, o)
           Moix == [side |-> o.side, price |-> o.price,
                    memo |-> MP!ForgetEmpty(m, Mtraded)[o.side][o.price]]
           Mrests == Mremaining > 0 /\ o.time_in_force # "ImmediateOrCancel"
<1>11. do_place_order(b, m, o).book =
         IF refusal # {} THEN b ELSE IF rests THEN WithOrder(traded, oix, remaining) ELSE traded
  BY DEF do_place_order
<1>12. MP!do_place_order(b, m, o).book =
         IF Mrefusal # {} THEN b
         ELSE IF Mrests THEN MP!WithOrder(Mtraded, Moix, Mremaining) ELSE Mtraded
  BY DEF MP!do_place_order
<1>13. /\ Mrefusal = refusal /\ Mremaining = remaining /\ Mtraded = traded
       /\ Moix = oix /\ Mrests = rests
  BY <1>5, <1>6, <1>7, <1>8, <1>9
<1> HIDE DEF refusal, remaining, traded, oix, rests, Mrefusal, Mremaining, Mtraded, Moix, Mrests
<1> QED BY <1>10, <1>11, <1>12, <1>13

(* What the engine keeps of an asset: a book in which no bid meets an ask, *)
(* and for every level a memo_seq that still fits its u32.                 *)
SoundAssets(a) ==
    /\ a = [book |-> a.book, memo_seq |-> a.memo_seq, order_uuids |-> a.order_uuids]
    /\ DOMAIN a.book \subseteq OrderIndex /\ IsFiniteSet(DOMAIN a.book)
    /\ \A o \in DOMAIN a.book : a.book[o] \in Quantity
    /\ \A bid, ask \in DOMAIN a.book :
          bid.side = "Buy" /\ ask.side = "Sell" => bid.price < ask.price
    /\ a.memo_seq \in [OrderSide -> [Prices -> Memo]]

LEMMA SameSound ==
  ASSUME NEW b
  PROVE  MP!SoundBook(b) <=>
           /\ DOMAIN b \subseteq OrderIndex /\ IsFiniteSet(DOMAIN b)
           /\ \A o \in DOMAIN b : b[o] \in Quantity
           /\ \A bid, ask \in DOMAIN b :
                 bid.side = "Buy" /\ ask.side = "Sell" => bid.price < ask.price
<1>1. MP!OrderIndex = OrderIndex /\ MP!Quantity = Quantity
  BY DEF MP!OrderIndex, OrderIndex, MP!Quantity, Quantity, MP!Memo, Memo, MP!OrderSide, OrderSide
<1>2. IsFiniteSet(DOMAIN b) <=> MP!IsFiniteSet(DOMAIN b) BY DEF IsFiniteSet, MP!IsFiniteSet
<1> QED BY <1>1, <1>2 DEF MP!SoundBook, MP!Uncrossed

(* A command executed without a panic leaves sound assets sound.           *)
LEMMA SoundExecute ==
  ASSUME NEW a, SoundAssets(a), NEW cmd \in Cmds, ~Panics(a, cmd)
  PROVE  SoundAssets(Execute(a, cmd).assets)
<1> DEFINE e == Execute(a, cmd).assets
<1>1. e.memo_seq \in [OrderSide -> [Prices -> Memo]] BY DEF Panics
<1>2. CASE cmd.op = "cancel"
  <2>1. CASE cmd.target \notin DOMAIN a.order_uuids
    BY <1>2, <2>1 DEF Execute, do_cancel_order
  <2>2. CASE cmd.target \in DOMAIN a.order_uuids
    <3> DEFINE left == [o \in DOMAIN a.book \ {a.order_uuids[cmd.target]} |-> a.book[o]]
    <3>1. e = [a EXCEPT !.book = left, !.memo_seq = ForgetEmpty(@, left)]
      BY <1>2, <2>2 DEF Execute, do_cancel_order
    <3>2. e.book = left /\ e = [book |-> e.book, memo_seq |-> e.memo_seq, order_uuids |-> e.order_uuids]
      BY <3>1 DEF SoundAssets
    <3>3. DOMAIN left \subseteq DOMAIN a.book /\ \A o \in DOMAIN left : left[o] = a.book[o] OBVIOUS
    <3> HIDE DEF left, e
    <3>4. IsFiniteSet(DOMAIN left) BY <3>3, FS_Subset DEF SoundAssets
    <3>5. SoundAssets(e) BY <1>1, <3>2, <3>3, <3>4 DEF SoundAssets
    <3> QED BY <3>5 DEF e
  <2> QED BY <2>1, <2>2
<1>3. CASE cmd.op # "cancel"
  <2> DEFINE placed == do_place_order(a.book, a.memo_seq, cmd.order)
  <2>1. cmd.order \in PlaceOrder BY <1>3, MenuAssumption DEF Cmds, Place, Cancel
  <2>2. e = [a EXCEPT !.book = placed.book, !.memo_seq = placed.memo_seq] BY <1>3 DEF Execute
  <2>3. e.book = placed.book /\ e = [book |-> e.book, memo_seq |-> e.memo_seq, order_uuids |-> e.order_uuids]
    BY <2>2 DEF SoundAssets
  <2>4. MP!SoundBook(a.book) BY SameSound DEF SoundAssets
  <2>5. a.memo_seq \in [MP!OrderSide -> [Prices -> MP!Memo]] /\ cmd.order \in MP!PlaceOrder
    BY <2>1 DEF SoundAssets, MP!OrderSide, OrderSide, MP!Memo, Memo, MP!PlaceOrder, PlaceOrder,
                MP!OrderType, OrderType, MP!TimeInForce, TimeInForce
  <2>6. MP!SoundBook(MP!do_place_order(a.book, a.memo_seq, cmd.order).book)
    BY <2>4, <2>5, MP!PlaceKeepsSound, PricesAssumption, QuantitiesAssumption, MemoMaxAssumption
  <2>7. MP!SoundBook(e.book) BY <2>3, <2>6, SamePlace
  <2> HIDE DEF e, placed
  <2>8. SoundAssets(e) BY <1>1, <2>3, <2>7, SameSound DEF SoundAssets
  <2> QED BY <2>8 DEF e
<1> QED BY <1>2, <1>3

(* A fresh engine has an empty book.                                       *)
LEMMA SoundNew == SoundAssets(NewAssets)
<1>1. NewAssets.memo_seq \in [OrderSide -> [Prices -> Memo]]
  BY MemoMaxAssumption DEF NewAssets, EmptyMemoSeq, Memo
<1>2. DOMAIN NewAssets.book = {} BY DEF NewAssets, EmptyBook
<1>3. NewAssets = [book |-> NewAssets.book, memo_seq |-> NewAssets.memo_seq,
                   order_uuids |-> NewAssets.order_uuids]
  BY DEF NewAssets
<1> QED BY <1>1, <1>2, <1>3, FS_EmptySet DEF SoundAssets

LEMMA SoundNext == Types /\ SoundAssets(assets) /\ [Next]_vars => SoundAssets(assets')
<1> SUFFICES ASSUME Types, SoundAssets(assets), [Next]_vars PROVE SoundAssets(assets') OBVIOUS
<1>1. CASE RecvTrade \/ RecvBootstrap
  <2> DEFINE cmd == Head(chan).row.cmd
  <2>1. assets' = Execute(assets, cmd).assets /\ ~Panics(assets, cmd) /\ chan # <<>>
        /\ Head(chan).tag \in {"Trade", "Bootstrap"}
    BY <1>1 DEF RecvTrade, RecvBootstrap, Receiving
  <2>2. Head(chan) \in Commands BY <2>1, HeadTailProperties DEF Types
  <2>3. cmd \in Cmds BY <2>1, <2>2, CommandTypes DEF Rows
  <2> HIDE DEF cmd
  <2> QED BY <2>1, <2>3, SoundExecute
<1>2. CASE Die BY <1>2, SoundNew DEF Die
<1>3. CASE UNCHANGED assets BY <1>3
<1> QED
  BY <1>1, <1>2, <1>3
  DEF Next, Supervise, Boot, Crash, Exit, Send, SendControl, RequestShutdown, SendShutdown,
      RecvSuspended, RecvSuspend, RecvResume, RecvShutdown, RecvTradePanics, RecvBootstrapPanics,
      PanicOn, Inserted, InsertFailed, LateInsert, Start, FetchRow, Serve, vars

(* No bid meets an ask in the engine's book, whatever came before: failed  *)
(* INSERTs, panics, crashes, restarts, and the log replayed in whatever    *)
(* order the SELECT of init_from_db, which has no ORDER BY, yields it.     *)
THEOREM EngineNeverCrosses == Spec => []NeverCrossed
<1>1. Init => SoundAssets(assets) BY SoundNew DEF Init
<1>2. Types /\ SoundAssets(assets) /\ [Next]_vars => SoundAssets(assets)' BY SoundNext
<1>3. SoundAssets(assets) => NeverCrossed BY DEF SoundAssets, NeverCrossed
<1> QED BY <1>1, <1>2, <1>3, TradingEngineTypes, PTL DEF Spec
-----------------------------------------------------------------------------
(* Every command has one sender, and every sender one command.             *)
Tagged ==
    /\ sender \in Seq(Requests) /\ Len(sender) = Len(sent)
    /\ result \in Seq({"none", "Ok", "Err"}) /\ Len(result) = Len(sent)
    /\ \A i, j \in 1..Len(sent) : sender[i] = sender[j] => i = j

(* What exists of a request at each await of its handler: the reservation  *)
(* comes before the command, and neither without a process.                *)
Clients ==
    /\ pc \in [Requests -> F!Awaits \union {"idle", "done"}]
    /\ reserved \in [Requests -> BOOLEAN]
    /\ reverted = [r \in Requests |-> reverted[r]]
    /\ told = [r \in Requests |-> told[r]]
    /\ \A r \in Requests :
          /\ pc[r] \notin {"wait", "done"} => \A id \in 1..Len(sent) : sender[id] # r
          /\ pc[r] \in {"reread", "send", "revert", "wait"} => reserved[r]
          /\ ~Up => pc[r] \in {"idle", "done"}
    /\ \A id \in 1..Len(sent) : reserved[sender[id]]
    /\ ~Up => reverts = {}

(* The first k commands have been answered.  The others are at the INSERT  *)
(* or in the channel, which has room for those that come after each.       *)
Waits(k) ==
    /\ k \in 0..Len(sent)
    /\ \A id \in 1..Len(sent) : answers[id] = Waiting <=> k < id
    /\ \A id \in (k + 1)..Len(sent) :
          \/ \E c \in current : c.row.id = id
          \/ \E i \in DOMAIN chan : chan[i].tag = "Trade" /\ chan[i].row.id = id
    /\ \A c \in current : k < c.row.id
    /\ \A i \in DOMAIN chan : chan[i].tag = "Trade" =>
          /\ k < chan[i].row.id
          /\ Len(sent) - chan[i].row.id <= Len(chan) - i
    /\ \A i \in DOMAIN rows : rows[i].id \in 1..k
    /\ \A w \in late : w.id \in 1..k
    /\ \A id \in lost : id \in 1..k
    /\ ~Up => k = Len(sent)

(* What is remembered of the commands that were executed.                  *)
Executed ==
    /\ \A c \in current : /\ result[c.row.id] = c.result.tag
                          /\ c.result.tag \in {"Ok", "Err"} /\ c.result # Err("Database")
    /\ \A id \in lost : answers[id] = Err("Database") /\ (IsLogged(id) \/ IsLate(id))
    /\ task = "gone" => chan = <<>>
    /\ ~Up => lost = {}

EInv == Tagged /\ Clients /\ Executed /\ \E k \in 0..Len(sent) : Waits(k)

(* The engine of the composition is the engine of TradingEngine.           *)
LEMMA EngineNext == [ExchangeNext]_allVars => [Next]_vars
<1> SUFFICES ASSUME [ExchangeNext]_allVars PROVE [Next]_vars OBVIOUS
<1>1. CASE \E r \in Requests : HandlerStep(r) \/ HandlerGoesOn(r)
  BY <1>1 DEF HandlerStep, HandlerGoesOn
<1>2. ASSUME NEW r \in Requests, SendOrder(r) PROVE Next BY <1>2 DEF SendOrder, Next
<1>3. CASE EngineExecutes \/ EngineStep
  BY <1>3 DEF EngineExecutes, EngineStep, Next, Supervise
<1>4. CASE ProcessStep \/ ProcessEnds BY <1>4 DEF ProcessStep, ProcessEnds, Next, Boot
<1>5. CASE RowLands BY <1>5 DEF RowLands, Next
<1>6. CASE UNCHANGED allVars BY <1>6 DEF allVars
<1> QED BY <1>1, <1>2, <1>3, <1>4, <1>5, <1>6 DEF ExchangeNext

LEMMA EInvInit == ExchangeInit => EInv
<1> SUFFICES ASSUME ExchangeInit PROVE EInv OBVIOUS
<1>1. /\ Len(sent) = 0 /\ Len(sender) = 0 /\ sender = <<>> /\ result = <<>> /\ chan = <<>> /\ rows = <<>>
      /\ DOMAIN chan = {} /\ DOMAIN rows = {} /\ current = {} /\ lost = {} /\ late = {} /\ Up /\ task = "recv"
  BY DEF ExchangeInit, Init, NoCommand, Up
<1>2. Tagged BY <1>1, EmptySeq DEF Tagged
<1>3. Clients
  <2>1. /\ pc = [r \in Requests |-> "idle"] /\ reserved = [r \in Requests |-> FALSE]
        /\ reverted = [r \in Requests |-> 0] /\ told = [r \in Requests |-> "none"]
    BY DEF ExchangeInit, F!Init
  <2> QED BY <1>1, <2>1 DEF Clients
<1>4. Waits(0) /\ Executed BY <1>1 DEF Waits, Executed
<1> QED BY <1>1, <1>2, <1>3, <1>4 DEF EInv

(* The lengths a step starts from.                                         *)
LEMMA Sizes ==
  ASSUME Types
  PROVE  /\ Len(sent) \in Nat /\ DOMAIN answers = 1..Len(sent)
         /\ Len(chan) \in Nat /\ DOMAIN chan = 1..Len(chan)
         /\ Len(rows) \in Nat /\ DOMAIN rows = 1..Len(rows)
  BY LenProperties DEF Types

-----------------------------------------------------------------------------
(* A step of one handler or its revert task.                               *)
LEMMA ClientsHandler ==
  ASSUME Types, Tagged, Clients, NEW r \in Requests, HandlerStep(r) \/ HandlerGoesOn(r)
  PROVE  Clients'
<1>1. UNCHANGED <<process, sent, sender>>
  BY DEF HandlerStep, HandlerGoesOn, vars, tags
<1> DEFINE Own == /\ \A q \in Requests \ {r} : pc'[q] = pc[q] /\ reserved'[q] = reserved[q]
                  /\ pc' \in [Requests -> F!Awaits \union {"idle", "done"}]
                  /\ reserved' \in [Requests -> BOOLEAN]
                  /\ reverted' = [q \in Requests |-> reverted'[q]] /\ told' = [q \in Requests |-> told'[q]]
                  /\ reserved[r] => reserved'[r]
                  /\ pc'[r] \in {"reread", "send", "revert", "wait"} => reserved'[r]
                  /\ pc'[r] \notin {"wait", "done"} => pc[r] \notin {"wait", "done"}
                  /\ ~Up => pc'[r] \in {"idle", "done"} /\ reverts' = {}
<1>2. Own
  <2> USE DEF Clients, F!Awaits, F!money, F!late, F!End, F!InFlight
  <2>1. CASE HandlerStep(r)
    <3>1. ASSUME NEW a \in Quantities, F!Start(r, a) PROVE Own
      BY <3>1 DEF F!Start, EngineState
    <3>2. CASE F!ReserveFails(r) BY <3>2 DEF F!ReserveFails
    <3>3. CASE F!Timeout(r) BY <3>3 DEF F!Timeout
    <3>4. CASE F!RevertTask(r) BY <3>4 DEF F!RevertTask, F!revert
    <3>5. CASE F!ReserveLands(r) BY <3>5 DEF F!ReserveLands
    <3>6. CASE F!RevertLands(r) BY <3>6 DEF F!RevertLands
    <3> QED BY <2>1, <3>1, <3>2, <3>3, <3>4, <3>5, <3>6 DEF HandlerStep
  <2>2. CASE HandlerGoesOn(r)
    <3>1. CASE F!ReadBalance(r) BY <3>1 DEF F!ReadBalance
    <3>2. CASE F!InsertReserve(r) BY <3>2 DEF F!InsertReserve
    <3>3. CASE F!RereadBalance(r) BY <3>3 DEF F!RereadBalance
    <3>4. CASE F!SendErr(r) BY <3>4 DEF F!SendErr
    <3>5. CASE F!RevertInline(r) BY <3>5 DEF F!RevertInline, F!revert
    <3>6. CASE F!Respond(r) BY <3>6 DEF F!Respond
    <3> QED BY <2>2, <3>1, <3>2, <3>3, <3>4, <3>5, <3>6 DEF HandlerGoesOn
  <2> QED BY <2>1, <2>2
<1>3. ASSUME NEW q \in Requests
      PROVE  /\ reserved[q] => reserved'[q]
             /\ pc'[q] \notin {"wait", "done"} => pc[q] \notin {"wait", "done"}
             /\ pc'[q] \in {"reread", "send", "revert", "wait"} => reserved'[q]
             /\ ~Up => pc'[q] \in {"idle", "done"}
  BY <1>2 DEF Clients
<1>4. \A id \in 1..Len(sent) : sender[id] \in Requests BY Sizes, ElementOfSeq DEF Tagged
<1>5. Up' = Up BY <1>1 DEF Up
<1>6. \A id \in 1..Len(sent) : reserved'[sender[id]] BY <1>3, <1>4 DEF Clients
<1> QED BY <1>1, <1>2, <1>3, <1>5, <1>6 DEF Clients

(* The end of the process ends every handler.                              *)
LEMMA ClientsEnd ==
  ASSUME Types, Tagged, Clients, ProcessEnds
  PROVE  Clients'
<1>1. /\ UNCHANGED <<sent, sender>> /\ reverts' = {}
      /\ pc' = [r \in Requests |-> IF F!InFlight(r) THEN "done" ELSE pc[r]]
  BY DEF ProcessEnds, tags, Crash, Exit, Die
<1>3. reserved' \in [Requests -> BOOLEAN] /\ \A r \in Requests : reserved[r] => reserved'[r]
  BY DEF ProcessEnds, Clients
<1>4. pc' \in [Requests -> {"idle", "done"}] BY <1>1 DEF Clients, F!InFlight
<1>7. reverted' = [r \in Requests |-> reverted'[r]] /\ told' = [r \in Requests |-> told'[r]]
  BY DEF ProcessEnds, Clients
<1>5. \A r \in Requests : pc'[r] = "idle" => pc[r] = "idle" BY <1>1
<1>6. \A id \in 1..Len(sent) : sender[id] \in Requests BY Sizes, ElementOfSeq DEF Tagged
<1> QED BY <1>1, <1>3, <1>4, <1>5, <1>6, <1>7 DEF Clients

(* The other steps leave the handlers and their commands alone.            *)
LEMMA ClientsKept ==
  ASSUME Clients, UNCHANGED <<handlers, sent, sender>>, Up => Up'
  PROVE  Clients'
  BY DEF Clients, handlers

(* An order enters the channel.                                            *)
LEMMA SentFacts ==
  ASSUME Types, Tagged, NEW r \in Requests, SendOrder(r)
  PROVE  \E cmd \in Cmds :
            /\ Up /\ task # "gone" /\ Len(chan) < Capacity
            /\ Trade(Row(Len(sent) + 1, cmd)) \in Commands
            /\ chan' = Append(chan, Trade(Row(Len(sent) + 1, cmd)))
            /\ Len(sent) \in Nat /\ Len(sent') = Len(sent) + 1
            /\ sender' \in Seq(Requests) /\ Len(sender') = Len(sent')
            /\ sender'[Len(sent) + 1] = r /\ \A id \in 1..Len(sent) : sender'[id] = sender[id]
            /\ result' \in Seq({"none", "Ok", "Err"}) /\ Len(result') = Len(sent')
            /\ \A id \in 1..Len(sent) : result'[id] = result[id]
            /\ answers'[Len(sent) + 1] = Waiting /\ \A id \in 1..Len(sent) : answers'[id] = answers[id]
            /\ UNCHANGED <<process, task, current, rows, late, lost>>
<1>1. PICK order \in Menu : Send(Place(order)) BY DEF SendOrder
<1> DEFINE cmd == Place(order)
<1>2. cmd \in Cmds BY DEF Cmds
<1> HIDE DEF cmd
<1>3. Len(sent) \in Nat BY Sizes
<1>4. Trade(Row(Len(sent) + 1, cmd)) \in Commands BY <1>2, <1>3 DEF Trade, Row, Commands, Rows
<1>5. /\ Up /\ task # "gone" /\ Len(chan) < Capacity
      /\ chan' = Append(chan, Trade(Row(Len(sent) + 1, cmd)))
      /\ sent' = Append(sent, cmd) /\ answers' = Append(answers, Waiting)
      /\ UNCHANGED <<process, task, current, rows, late, lost>>
  BY <1>1 DEF Send, cmd, aftermath
<1>6. Len(sent') = Len(sent) + 1 BY <1>2, <1>5, Appended DEF Types
<1>7. sender' = Append(sender, r) /\ result' = Append(result, "none") BY DEF SendOrder
<1>8. /\ sender' \in Seq(Requests) /\ Len(sender') = Len(sent') /\ sender'[Len(sent) + 1] = r
      /\ \A id \in 1..Len(sent) : sender'[id] = sender[id]
  BY <1>6, <1>7, Appended DEF Tagged
<1>9. /\ result' \in Seq({"none", "Ok", "Err"}) /\ Len(result') = Len(sent')
      /\ \A id \in 1..Len(sent) : result'[id] = result[id]
  BY <1>6, <1>7, Appended DEF Tagged
<1>10. answers'[Len(sent) + 1] = Waiting /\ \A id \in 1..Len(sent) : answers'[id] = answers[id]
  <2> DEFINE A == {answers[id] : id \in 1..Len(sent)} \union {Waiting}
  <2>1. answers \in [1..Len(sent) -> A] /\ Waiting \in A BY DEF Types
  <2>2. answers \in Seq(A) BY <1>3, <2>1, SeqDef
  <2>3. Len(answers) = Len(sent) BY <1>3, <2>1, <2>2, LenProperties
  <2> HIDE DEF A
  <2> QED BY <1>5, <2>1, <2>2, <2>3, Appended
<1> QED BY <1>2, <1>3, <1>4, <1>5, <1>6, <1>8, <1>9, <1>10

LEMMA ClientsSend ==
  ASSUME Types, Tagged, Clients, NEW r \in Requests, SendOrder(r)
  PROVE  Tagged' /\ Clients'
<1>1. /\ Up /\ Len(sent) \in Nat /\ Len(sent') = Len(sent) + 1
      /\ sender' \in Seq(Requests) /\ Len(sender') = Len(sent')
      /\ sender'[Len(sent) + 1] = r /\ \A id \in 1..Len(sent) : sender'[id] = sender[id]
      /\ result' \in Seq({"none", "Ok", "Err"}) /\ Len(result') = Len(sent')
      /\ UNCHANGED process
  BY SentFacts
<1>2. /\ pc[r] = "send" /\ pc' = [pc EXCEPT ![r] = "wait"] /\ UNCHANGED <<reserved, reverted, told, reverts>>
  BY DEF SendOrder
<1>3. \A id \in 1..Len(sent) : sender[id] # r BY <1>2 DEF Clients
<1>4. \A id \in 1..Len(sent') : id \in 1..Len(sent) \/ id = Len(sent) + 1 BY <1>1
<1>5. \A i, j \in 1..Len(sent') : sender'[i] = sender'[j] => i = j
  BY <1>1, <1>3, <1>4 DEF Tagged
<1>6. Up' BY <1>1 DEF Up
<1>7. \A id \in 1..Len(sent') : reserved'[sender'[id]] BY <1>1, <1>2, <1>4 DEF Clients
<1>8. ASSUME NEW q \in Requests
      PROVE  /\ pc'[q] \notin {"wait", "done"} => \A id \in 1..Len(sent') : sender'[id] # q
             /\ pc'[q] \in {"reread", "send", "revert", "wait"} => reserved'[q]
  BY <1>1, <1>2, <1>4 DEF Clients
<1>9. pc' \in [Requests -> F!Awaits \union {"idle", "done"}] BY <1>2 DEF Clients, F!Awaits
<1> QED BY <1>1, <1>2, <1>5, <1>6, <1>7, <1>8, <1>9 DEF Tagged, Clients
-----------------------------------------------------------------------------
(* The numbers of the commands under way.                                  *)
LEMMA Ids ==
  ASSUME Types, InOrder
  PROVE  /\ \A c \in current : c.row.id \in Nat /\ c.row.id <= Len(sent)
         /\ \A i \in DOMAIN chan : chan[i].tag = "Trade" =>
               /\ chan[i].row.id \in Nat /\ chan[i].row.id <= Len(sent)
               /\ \A c \in current : c.row.id < chan[i].row.id
               /\ \A j \in DOMAIN chan : chan[j].tag = "Trade" /\ i < j => chan[i].row.id < chan[j].row.id
         /\ \A i \in DOMAIN rows : rows[i].id \in Nat
  BY Numbers DEF InOrder, IsTrade

LEMMA WaitsSend ==
  ASSUME Types, Types', InOrder, InOrder', Tagged, Executed, NEW k, Waits(k), NEW r \in Requests, SendOrder(r)
  PROVE  Waits(k)' /\ Executed'
<1>1. PICK cmd \in Cmds :
            /\ Up /\ task # "gone"
            /\ Trade(Row(Len(sent) + 1, cmd)) \in Commands
            /\ chan' = Append(chan, Trade(Row(Len(sent) + 1, cmd)))
            /\ Len(sent) \in Nat /\ Len(sent') = Len(sent) + 1
            /\ \A id \in 1..Len(sent) : result'[id] = result[id]
            /\ answers'[Len(sent) + 1] = Waiting /\ \A id \in 1..Len(sent) : answers'[id] = answers[id]
            /\ UNCHANGED <<process, task, current, rows, late, lost>>
  BY SentFacts
<1> DEFINE new == Trade(Row(Len(sent) + 1, cmd))
<1>2. new.tag = "Trade" /\ new.row.id = Len(sent) + 1 BY DEF Trade, Row
<1> HIDE DEF new
<1>3. /\ Len(chan) \in Nat /\ DOMAIN chan' = 1..(Len(chan) + 1) /\ DOMAIN chan = 1..Len(chan)
      /\ Len(chan') = Len(chan) + 1 /\ chan'[Len(chan) + 1] = new
      /\ \A i \in 1..Len(chan) : chan'[i] = chan[i]
  BY <1>1, Appended DEF Types, new
<1>4. k \in Nat /\ k <= Len(sent) /\ k \in 0..Len(sent') BY <1>1 DEF Waits
<1>5. \A id \in 1..Len(sent') : id \in 1..Len(sent) \/ id = Len(sent) + 1 BY <1>1
<1>6. \A id \in 1..Len(sent') : answers'[id] = Waiting <=> k < id BY <1>1, <1>4, <1>5 DEF Waits
<1>7. ASSUME NEW id \in (k + 1)..Len(sent')
      PROVE  \/ \E c \in current' : c.row.id = id
             \/ \E i \in DOMAIN chan' : chan'[i].tag = "Trade" /\ chan'[i].row.id = id
  <2>1. CASE id = Len(sent) + 1 BY <1>2, <1>3, <2>1
  <2>2. CASE id \in (k + 1)..Len(sent) BY <1>1, <1>3, <2>2 DEF Waits
  <2> QED BY <1>1, <1>4, <2>1, <2>2
<1>8. ASSUME NEW i \in DOMAIN chan', chan'[i].tag = "Trade"
      PROVE  k < chan'[i].row.id /\ Len(sent') - chan'[i].row.id <= Len(chan') - i
  <2>1. CASE i = Len(chan) + 1 BY <1>1, <1>2, <1>3, <1>4, <2>1
  <2>2. CASE i \in DOMAIN chan
    <3>1. chan'[i] = chan[i] /\ chan[i].row.id \in Nat /\ i \in Nat BY <1>3, <1>8, <2>2, Ids
    <3>2. k < chan[i].row.id /\ Len(sent) - chan[i].row.id <= Len(chan) - i BY <1>8, <2>2, <3>1 DEF Waits
    <3> QED BY <1>1, <1>3, <3>1, <3>2
  <2> QED BY <1>3, <2>1, <2>2
<1>9. Up' BY <1>1 DEF Up
<1>10. Waits(k)' BY <1>1, <1>4, <1>6, <1>7, <1>8, <1>9 DEF Waits
<1>11. \A id \in lost : id \in 1..Len(sent) BY <1>1 DEF Waits
<1>12. \A c \in current : c.row.id \in 1..Len(sent)
  BY <1>1, <1>4, Ids DEF Waits
<1>13. Executed' BY <1>1, <1>9, <1>11, <1>12 DEF Executed, IsLogged, IsLate
<1> QED BY <1>10, <1>13

(* The command at the head of the channel is executed.                     *)
LEMMA WaitsExecutes ==
  ASSUME Types, Types', InOrder, Tagged, Executed, NEW k, Waits(k), EngineExecutes
  PROVE  Tagged' /\ Waits(k)' /\ Executed'
<1> DEFINE row == Head(chan).row
           c == [row |-> row, result |-> Execute(assets, row.cmd).result]
<1>1. /\ task = "recv" /\ task' = "insert" /\ chan # <<>> /\ Head(chan).tag = "Trade" /\ chan' = Tail(chan)
      /\ current' = {c} /\ UNCHANGED <<process, rows, late, sent, answers, lost, sender>>
      /\ result' = [result EXCEPT ![c.row.id] = c.result.tag]
  BY DEF EngineExecutes, RecvTrade, Receiving, aftermath
<1>2. c.row = row /\ c.result = Execute(assets, row.cmd).result OBVIOUS
<1> HIDE DEF c
<1>3. c.result.tag \in {"Ok", "Err"} /\ c.result # Err("Database") BY <1>2, Results
<1>4. /\ Len(chan) \in Nat /\ DOMAIN chan' = 1..(Len(chan) - 1) /\ DOMAIN chan = 1..Len(chan)
      /\ Len(chan') = Len(chan) - 1 /\ 1 \in DOMAIN chan /\ Head(chan) = chan[1]
      /\ \A i \in 1..(Len(chan) - 1) : chan'[i] = chan[i + 1]
  BY <1>1, Tailed DEF Types
<1>5. /\ c.row.id = chan[1].row.id /\ c.row.id \in Nat /\ c.row.id <= Len(sent) /\ k < c.row.id
      /\ Len(sent) \in Nat /\ k \in Nat /\ current = {}
  <2>1. c.row.id = chan[1].row.id /\ chan[1].tag = "Trade" BY <1>1, <1>2, <1>4
  <2>2. chan[1].row.id \in Nat /\ chan[1].row.id <= Len(sent) BY <1>4, <2>1, Ids
  <2>3. k < chan[1].row.id /\ k \in Nat BY <1>4, <2>1, Sizes DEF Waits
  <2>4. Len(sent) \in Nat /\ current = {} BY <1>1, Sizes DEF Types
  <2> QED BY <2>1, <2>2, <2>3, <2>4
<1>6. c.row.id \in 1..Len(sent) BY <1>5
<1>7. /\ result' \in Seq({"none", "Ok", "Err"}) /\ Len(result') = Len(result)
      /\ result'[c.row.id] = c.result.tag
      /\ \A id \in 1..Len(sent) : id # c.row.id => result'[id] = result[id]
  BY <1>1, <1>3, <1>6, ExceptSeq DEF Tagged
<1>8. Tagged' BY <1>1, <1>7 DEF Tagged
<1>9. ASSUME NEW id \in (k + 1)..Len(sent)
      PROVE  \/ c.row.id = id
             \/ \E i \in DOMAIN chan' : chan'[i].tag = "Trade" /\ chan'[i].row.id = id
  <2>1. PICK i \in DOMAIN chan : chan[i].tag = "Trade" /\ chan[i].row.id = id BY <1>5 DEF Waits
  <2>2. CASE i = 1 BY <1>5, <2>1, <2>2
  <2>3. CASE i # 1
    <3>1. i - 1 \in DOMAIN chan' /\ i - 1 \in 1..(Len(chan) - 1) /\ (i - 1) + 1 = i BY <1>4, <2>3
    <3> QED BY <1>4, <2>1, <3>1
  <2> QED BY <2>2, <2>3
<1>10. ASSUME NEW i \in DOMAIN chan', chan'[i].tag = "Trade"
       PROVE  k < chan'[i].row.id /\ Len(sent) - chan'[i].row.id <= Len(chan') - i
  <2>1. i + 1 \in DOMAIN chan /\ chan'[i] = chan[i + 1] /\ i \in Nat BY <1>4, <1>10
  <2>2. /\ k < chan[i + 1].row.id /\ Len(sent) - chan[i + 1].row.id <= Len(chan) - (i + 1)
        /\ chan[i + 1].row.id \in Nat
    BY <1>10, <2>1, Ids DEF Waits
  <2> QED BY <1>4, <1>5, <2>1, <2>2
<1>11. Up' = Up BY <1>1 DEF Up
<1>12. Waits(k)' BY <1>1, <1>5, <1>9, <1>10, <1>11 DEF Waits
<1>13. Executed' BY <1>1, <1>3, <1>7, <1>11 DEF Executed, IsLogged, IsLate
<1> QED BY <1>8, <1>12, <1>13

(* The first command that waits is the one at its INSERT.                  *)
LEMMA FirstWaits ==
  ASSUME Types, InOrder, NEW k, Waits(k), NEW c \in current
  PROVE  c.row.id = k + 1 /\ k + 1 \in 1..Len(sent) /\ k \in Nat
<1>1. c.row.id \in Nat /\ c.row.id <= Len(sent) /\ k < c.row.id /\ k \in Nat /\ Len(sent) \in Nat
  BY Ids, Sizes DEF Waits
<1>2. k + 1 \in (k + 1)..Len(sent) BY <1>1
<1>3. \/ \E d \in current : d.row.id = k + 1
      \/ \E i \in DOMAIN chan : chan[i].tag = "Trade" /\ chan[i].row.id = k + 1
  BY <1>2 DEF Waits
<1>4. CASE \E d \in current : d.row.id = k + 1 BY <1>1, <1>4 DEF Types
<1>5. CASE \E i \in DOMAIN chan : chan[i].tag = "Trade" /\ chan[i].row.id = k + 1
  BY <1>1, <1>5, Ids
<1> QED BY <1>1, <1>3, <1>4, <1>5

(* The INSERT ends and the command is answered.                            *)
LEMMA WaitsInserted ==
  ASSUME Types, InOrder, Executed, NEW k, Waits(k), NEW c \in current, answers'[c.row.id] # Waiting,
         \A id \in 1..Len(sent) : id # c.row.id => answers'[id] = answers[id],
         \/ rows' = Append(rows, c.row) /\ UNCHANGED <<late, lost>>
         \/ /\ UNCHANGED rows /\ late' = late \union {c.row} /\ lost' = lost \union {c.row.id}
            /\ answers'[c.row.id] = Err("Database"),
         current' = {}, task' = "recv", UNCHANGED <<process, chan, sent, result>>
  PROVE  Waits(k + 1)' /\ Executed'
<1>1. c.row.id = k + 1 /\ k + 1 \in 1..Len(sent) /\ k \in Nat /\ Len(sent) \in Nat /\ DOMAIN answers = 1..Len(sent)
  BY FirstWaits, Sizes
<1>2. /\ answers'[k + 1] # Waiting
      /\ \A id \in 1..Len(sent) : id # k + 1 => answers'[id] = answers[id]
  BY <1>1
<1>3. \A id \in 1..Len(sent) : answers'[id] = Waiting <=> k + 1 < id
  <2>1. ASSUME NEW id \in 1..Len(sent), id # k + 1 PROVE k < id <=> k + 1 < id BY <1>1, <2>1
  <2> QED BY <1>1, <1>2, <2>1 DEF Waits
<1>4. ASSUME NEW id \in ((k + 1) + 1)..Len(sent)
      PROVE  \E i \in DOMAIN chan : chan[i].tag = "Trade" /\ chan[i].row.id = id
  <2>1. id \in (k + 1)..Len(sent) /\ id # k + 1 BY <1>1
  <2>2. \A d \in current : d.row.id # id BY <1>1, <2>1 DEF Types
  <2> QED BY <2>1, <2>2 DEF Waits
<1>5. ASSUME NEW i \in DOMAIN chan, chan[i].tag = "Trade" PROVE k + 1 < chan[i].row.id
  BY <1>1, <1>5, Ids
<1>6. \A i \in DOMAIN rows' : rows'[i].id \in 1..(k + 1)
  <2>1. \A i \in DOMAIN rows : rows[i].id \in 1..(k + 1) BY <1>1 DEF Waits
  <2>2. CASE UNCHANGED rows BY <1>1, <2>1, <2>2
  <2>3. CASE rows' = Append(rows, c.row)
    <3>1. /\ Len(rows) \in Nat /\ DOMAIN rows' = 1..(Len(rows) + 1) /\ DOMAIN rows = 1..Len(rows)
          /\ rows'[Len(rows) + 1] = c.row /\ \A i \in 1..Len(rows) : rows'[i] = rows[i]
      BY <2>3, Appended DEF Types
    <3>2. \A i \in DOMAIN rows' : i \in DOMAIN rows \/ i = Len(rows) + 1 BY <3>1
    <3> QED BY <1>1, <2>1, <3>1, <3>2
  <2> QED BY <2>2, <2>3
<1>12. \A w \in late' : w.id \in 1..(k + 1) BY <1>1 DEF Waits
<1>7. \A id \in lost' : id \in 1..(k + 1) /\ answers'[id] = Err("Database")
  <2>1. \A id \in lost : id \in 1..k /\ answers[id] = Err("Database") BY DEF Waits, Executed
  <2>2. \A id \in 1..k : id \in 1..(k + 1) /\ id # k + 1 /\ id \in 1..Len(sent) BY <1>1
  <2> QED BY <1>1, <1>2, <2>1, <2>2
<1>13. \A id \in lost' : IsLogged(id)' \/ IsLate(id)'
  <2>1. \A id \in lost : IsLogged(id) \/ IsLate(id) BY DEF Executed
  <2>2. \A id : IsLogged(id) => IsLogged(id)'
    <3>1. CASE UNCHANGED rows BY <3>1 DEF IsLogged
    <3>2. CASE rows' = Append(rows, c.row)
      <4>1. /\ Len(rows) \in Nat /\ DOMAIN rows' = 1..(Len(rows) + 1) /\ DOMAIN rows = 1..Len(rows)
            /\ \A i \in 1..Len(rows) : rows'[i] = rows[i]
        BY <3>2, Appended DEF Types
      <4>2. \A i \in DOMAIN rows : i \in DOMAIN rows' BY <4>1
      <4> QED BY <4>1, <4>2 DEF IsLogged
    <3> QED BY <3>1, <3>2
  <2>3. \A id : IsLate(id) => IsLate(id)' BY DEF IsLate
  <2>4. CASE UNCHANGED lost BY <2>1, <2>2, <2>3, <2>4
  <2>5. CASE lost' = lost \union {c.row.id} /\ late' = late \union {c.row}
    <3>1. ASSUME NEW id, id = c.row.id PROVE IsLate(id)' BY <2>5, <3>1 DEF IsLate
    <3> QED BY <2>1, <2>2, <2>3, <2>5, <3>1
  <2> QED BY <2>4, <2>5
<1>8. Up
  <2>1. SUFFICES ASSUME ~Up PROVE FALSE OBVIOUS
  <2>2. k = Len(sent) BY <2>1 DEF Waits
  <2> QED BY <1>1, <2>2
<1>9. Up' BY <1>8 DEF Up
<1>10. Waits(k + 1)'
  <2>1. k + 1 \in 0..Len(sent) BY <1>1
  <2>2. \A i \in DOMAIN chan : chan[i].tag = "Trade" => Len(sent) - chan[i].row.id <= Len(chan) - i
    BY DEF Waits
  <2> QED BY <1>3, <1>4, <1>5, <1>6, <1>7, <1>9, <1>12, <2>1, <2>2 DEF Waits
<1>11. Executed' BY <1>7, <1>9, <1>13 DEF Executed
<1> QED BY <1>10, <1>11

(* The task or the process ends: nothing waits any more.                   *)
LEMMA WaitsGone ==
  ASSUME Types, InOrder, Executed, NEW k, Waits(k), UNCHANGED <<rows, sent, result>>,
         chan' = <<>>, current' = {}, task' = "gone",
         \A id \in 1..Len(sent) : answers'[id] = IF answers[id] = Waiting THEN Dropped ELSE answers[id],
         \/ UNCHANGED <<late, lost, process>>
         \/ ~Up' /\ lost' = {} /\ late' = late \union {c.row : c \in current}
  PROVE  Waits(Len(sent))' /\ Executed'
<1>1. Len(sent) \in Nat /\ k \in Nat BY Sizes DEF Waits
<1>2. \A id \in 1..Len(sent) : answers'[id] # Waiting BY DEF Waiting, Dropped
<1>3. \A id \in lost' : id \in 1..Len(sent) /\ answers'[id] = Err("Database")
  <2>1. \A id \in lost : id \in 1..Len(sent) /\ answers[id] = Err("Database") BY <1>1 DEF Waits, Executed
  <2>2. Err("Database") # Waiting BY DEF Err, Waiting
  <2> QED BY <2>1, <2>2
<1>4. \A i \in DOMAIN rows : rows[i].id \in 1..Len(sent) BY <1>1 DEF Waits
<1>5. \A w \in late' : w.id \in 1..Len(sent)
  <2>1. \A w \in late : w.id \in 1..Len(sent) BY <1>1 DEF Waits
  <2>2. \A c \in current : c.row.id \in 1..Len(sent) BY FirstWaits
  <2> QED BY <2>1, <2>2
<1>6. \A id \in lost' : IsLogged(id)' \/ IsLate(id)' BY DEF Executed, IsLogged, IsLate
<1>7. ~Up' => lost' = {} BY DEF Up, Executed
<1>8. Waits(Len(sent))'
  <2>1. DOMAIN chan' = {} OBVIOUS
  <2>2. \A id \in 1..Len(sent) : ~(Len(sent) < id) BY <1>1
  <2>3. (Len(sent) + 1)..Len(sent) = {} /\ Len(sent) \in 0..Len(sent) BY <1>1
  <2> QED BY <1>2, <1>3, <1>4, <1>5, <2>1, <2>2, <2>3 DEF Waits
<1>9. Executed' BY <1>3, <1>6, <1>7 DEF Executed
<1> QED BY <1>8, <1>9

(* A row that nobody waits for is stored.                                  *)
LEMMA WaitsLate ==
  ASSUME Types, Executed, NEW k, Waits(k), LateInsert, UNCHANGED result
  PROVE  Waits(k)' /\ Executed'
<1>1. PICK row \in late : rows' = Append(rows, row) /\ late' = late \ {row} BY DEF LateInsert
<1>2. UNCHANGED <<process, chan, task, current, sent, answers, lost>> BY DEF LateInsert
<1>3. /\ Len(rows) \in Nat /\ DOMAIN rows' = 1..(Len(rows) + 1) /\ DOMAIN rows = 1..Len(rows)
      /\ rows'[Len(rows) + 1] = row /\ \A i \in 1..Len(rows) : rows'[i] = rows[i]
  BY <1>1, Appended DEF Types
<1>4. /\ \A i \in DOMAIN rows' : i \in DOMAIN rows \/ i = Len(rows) + 1
      /\ \A i \in DOMAIN rows : i \in DOMAIN rows'
      /\ Len(rows) + 1 \in DOMAIN rows'
  BY <1>3
<1>5. \A i \in DOMAIN rows' : rows'[i].id \in 1..k BY <1>1, <1>3, <1>4 DEF Waits
<1>6. \A id : IsLogged(id) \/ IsLate(id) => IsLogged(id)' \/ IsLate(id)'
  BY <1>1, <1>3, <1>4 DEF IsLogged, IsLate
<1>7. Up' = Up BY <1>2 DEF Up
<1>8. Waits(k)' BY <1>1, <1>2, <1>5, <1>7 DEF Waits
<1>9. Executed' BY <1>2, <1>6, <1>7 DEF Executed
<1> QED BY <1>8, <1>9

(* The channel changes by other commands than trades.                      *)
LEMMA WaitsQuiet ==
  ASSUME Executed, NEW k, Waits(k),
         UNCHANGED <<current, rows, late, sent, answers, lost, result>>, Up => Up', task' = "gone" => chan' = <<>>,
         \A i \in DOMAIN chan : chan[i].tag = "Trade" =>
            \E j \in DOMAIN chan' : chan'[j].tag = "Trade" /\ chan'[j].row.id = chan[i].row.id,
         \A j \in DOMAIN chan' : chan'[j].tag = "Trade" =>
            \E i \in DOMAIN chan : /\ chan[i].tag = "Trade" /\ chan'[j].row.id = chan[i].row.id
                                   /\ Len(chan) - i <= Len(chan') - j
                                   /\ Len(sent) - chan[i].row.id \in Int
                                   /\ Len(chan) - i \in Int /\ Len(chan') - j \in Int
  PROVE  Waits(k)' /\ Executed'
<1>1. Executed' BY DEF Executed, IsLogged, IsLate
<1>2. ASSUME NEW id \in (k + 1)..Len(sent)
      PROVE  \/ \E c \in current : c.row.id = id
             \/ \E i \in DOMAIN chan' : chan'[i].tag = "Trade" /\ chan'[i].row.id = id
  <2>1. \/ \E c \in current : c.row.id = id
        \/ \E i \in DOMAIN chan : chan[i].tag = "Trade" /\ chan[i].row.id = id
    BY DEF Waits
  <2> QED BY <2>1
<1>3. ASSUME NEW j \in DOMAIN chan', chan'[j].tag = "Trade"
      PROVE  k < chan'[j].row.id /\ Len(sent) - chan'[j].row.id <= Len(chan') - j
  <2>1. PICK i \in DOMAIN chan : /\ chan[i].tag = "Trade" /\ chan'[j].row.id = chan[i].row.id
                                 /\ Len(chan) - i <= Len(chan') - j
                                 /\ Len(sent) - chan[i].row.id \in Int
                                 /\ Len(chan) - i \in Int /\ Len(chan') - j \in Int
    BY <1>3
  <2>2. k < chan[i].row.id /\ Len(sent) - chan[i].row.id <= Len(chan) - i BY <2>1 DEF Waits
  <2>4. Len(sent) - chan[i].row.id <= Len(chan') - j
    <3> DEFINE x == Len(sent) - chan[i].row.id
               y == Len(chan) - i
               z == Len(chan') - j
    <3>1. x \in Int /\ y \in Int /\ z \in Int /\ x <= y /\ y <= z BY <2>1, <2>2
    <3> HIDE DEF x, y, z
    <3>2. x <= z BY <3>1
    <3> QED BY <3>2 DEF x, z
  <2> QED BY <2>1, <2>2, <2>4
<1>4. Waits(k)' BY <1>2, <1>3 DEF Waits
<1> QED BY <1>1, <1>4

LEMMA WaitsKept ==
  ASSUME Executed, NEW k, Waits(k), UNCHANGED <<current, chan, rows, late, sent, answers, lost, result>>,
         Up => Up', task' = "gone" => task = "gone"
  PROVE  Waits(k)' /\ Executed'
  BY DEF Waits, Executed, IsLogged, IsLate

LEMMA WaitsTail ==
  ASSUME Types, InOrder, Executed, NEW k, Waits(k), UNCHANGED <<current, rows, late, sent, answers, lost, result>>,
         Up => Up', task' # "gone", chan # <<>>, Head(chan).tag # "Trade", chan' = Tail(chan)
  PROVE  Waits(k)' /\ Executed'
<1>1. /\ Len(chan) \in Nat /\ DOMAIN chan' = 1..(Len(chan) - 1) /\ DOMAIN chan = 1..Len(chan)
      /\ Len(chan') = Len(chan) - 1 /\ 1 \in DOMAIN chan /\ Head(chan) = chan[1]
      /\ \A i \in 1..(Len(chan) - 1) : chan'[i] = chan[i + 1]
  BY Tailed DEF Types
<1>2. ASSUME NEW i \in DOMAIN chan, chan[i].tag = "Trade"
      PROVE  \E j \in DOMAIN chan' : chan'[j].tag = "Trade" /\ chan'[j].row.id = chan[i].row.id
  <2>1. i # 1 BY <1>1, <1>2
  <2>2. i - 1 \in DOMAIN chan' /\ i - 1 \in 1..(Len(chan) - 1) /\ (i - 1) + 1 = i BY <1>1, <2>1
  <2> QED BY <1>1, <1>2, <2>2
<1>3. ASSUME NEW j \in DOMAIN chan', chan'[j].tag = "Trade"
      PROVE  \E i \in DOMAIN chan : /\ chan[i].tag = "Trade" /\ chan'[j].row.id = chan[i].row.id
                                    /\ Len(chan) - i <= Len(chan') - j
                                    /\ Len(sent) - chan[i].row.id \in Int
                                    /\ Len(chan) - i \in Int /\ Len(chan') - j \in Int
  <2>1. j + 1 \in DOMAIN chan /\ chan'[j] = chan[j + 1] /\ j \in Nat BY <1>1, <1>3
  <2>2. chan[j + 1].row.id \in Nat /\ Len(sent) \in Nat BY <1>3, <2>1, Ids, Sizes
  <2>3. /\ Len(chan) - (j + 1) <= Len(chan') - j /\ Len(sent) - chan[j + 1].row.id \in Int
        /\ Len(chan) - (j + 1) \in Int /\ Len(chan') - j \in Int
    BY <1>1, <2>1, <2>2
  <2> QED BY <1>3, <2>1, <2>3
<1> QED BY <1>2, <1>3, WaitsQuiet

LEMMA WaitsAppend ==
  ASSUME Types, InOrder, Executed, NEW k, Waits(k), UNCHANGED <<current, rows, late, sent, answers, lost, result>>,
         Up => Up', task' # "gone", NEW m \in Commands, m.tag # "Trade", chan' = Append(chan, m)
  PROVE  Waits(k)' /\ Executed'
<1>1. /\ Len(chan) \in Nat /\ DOMAIN chan' = 1..(Len(chan) + 1) /\ DOMAIN chan = 1..Len(chan)
      /\ Len(chan') = Len(chan) + 1 /\ chan'[Len(chan) + 1] = m
      /\ \A i \in 1..Len(chan) : chan'[i] = chan[i]
  BY Appended DEF Types
<1>2. \A i \in DOMAIN chan : i \in DOMAIN chan' /\ chan'[i] = chan[i] BY <1>1
<1>3. ASSUME NEW j \in DOMAIN chan', chan'[j].tag = "Trade"
      PROVE  \E i \in DOMAIN chan : /\ chan[i].tag = "Trade" /\ chan'[j].row.id = chan[i].row.id
                                    /\ Len(chan) - i <= Len(chan') - j
                                    /\ Len(sent) - chan[i].row.id \in Int
                                    /\ Len(chan) - i \in Int /\ Len(chan') - j \in Int
  <2>1. j \in DOMAIN chan /\ chan'[j] = chan[j] /\ j \in Nat BY <1>1, <1>3
  <2>2. chan[j].row.id \in Nat /\ Len(sent) \in Nat BY <1>3, <2>1, Ids, Sizes
  <2>3. /\ Len(chan) - j <= Len(chan') - j /\ Len(sent) - chan[j].row.id \in Int
        /\ Len(chan) - j \in Int /\ Len(chan') - j \in Int
    BY <1>1, <2>1, <2>2
  <2> QED BY <1>3, <2>1, <2>3
<1>4. \A i \in DOMAIN chan : chan[i].tag = "Trade" =>
         \E j \in DOMAIN chan' : chan'[j].tag = "Trade" /\ chan'[j].row.id = chan[i].row.id
  BY <1>2
<1> QED BY <1>3, <1>4, WaitsQuiet

(* Dropping the queue of an engine that ends drops every command that      *)
(* waits.                                                                  *)
LEMMA AllDropped ==
  ASSUME Types, NEW k, Waits(k), current = {}, NEW queue, DropQueued(queue),
         \A i \in DOMAIN chan : chan[i].tag = "Trade" => \E j \in DOMAIN queue : queue[j] = chan[i],
         \A j \in DOMAIN queue : \E i \in DOMAIN chan : queue[j] = chan[i]
  PROVE  \A id \in 1..Len(sent) : answers'[id] = IF answers[id] = Waiting THEN Dropped ELSE answers[id]
<1> SUFFICES ASSUME NEW id \in 1..Len(sent)
             PROVE  answers'[id] = IF answers[id] = Waiting THEN Dropped ELSE answers[id]
  OBVIOUS
<1>1. k \in Nat /\ Len(sent) \in Nat /\ DOMAIN answers = 1..Len(sent) BY Sizes DEF Waits
<1>2. (answers[id] = Waiting) <=> k < id BY DEF Waits
<1>3. CASE k < id
  <2>1. id \in (k + 1)..Len(sent) BY <1>1, <1>3
  <2>2. PICK i \in DOMAIN chan : chan[i].tag = "Trade" /\ chan[i].row.id = id BY <2>1 DEF Waits
  <2>3. \E j \in DOMAIN queue : queue[j].tag = "Trade" /\ queue[j].row.id = id BY <2>2
  <2> QED BY <1>1, <1>2, <1>3, <2>3 DEF DropQueued
<1>4. CASE ~(k < id)
  <2>1. ~\E i \in DOMAIN chan : chan[i].tag = "Trade" /\ chan[i].row.id = id BY <1>4 DEF Waits
  <2>2. ~\E j \in DOMAIN queue : queue[j].tag = "Trade" /\ queue[j].row.id = id BY <2>1
  <2> QED BY <1>1, <1>2, <1>4, <2>2 DEF DropQueued
<1> QED BY <1>3, <1>4

(* The engine task ends, by Shutdown or by a panic.                        *)
Ends == RecvShutdown \/ RecvTradePanics \/ RecvBootstrapPanics

LEMMA EndFacts ==
  ASSUME Types, NEW k, Waits(k), Ends
  PROVE  /\ task = "recv" /\ task' = "gone" /\ chan' = <<>> /\ current = {}
         /\ UNCHANGED <<process, current, rows, late, sent, lost>>
         /\ \A id \in 1..Len(sent) : answers'[id] = IF answers[id] = Waiting THEN Dropped ELSE answers[id]
<1>1. /\ task = "recv" /\ task' = "gone" /\ chan' = <<>> /\ current = {} /\ chan # <<>>
      /\ UNCHANGED <<process, current, rows, late, sent, lost>>
  BY DEF Ends, RecvShutdown, RecvTradePanics, RecvBootstrapPanics, PanicOn, Receiving, aftermath, Types
<1>2. CASE RecvTradePanics \/ RecvBootstrapPanics
  <2>1. DropQueued(chan) BY <1>2 DEF RecvTradePanics, RecvBootstrapPanics, PanicOn
  <2> QED BY <1>1, <2>1, AllDropped
<1>3. CASE RecvShutdown
  <2>1. DropQueued(Tail(chan)) /\ Head(chan).tag = "Shutdown" BY <1>3 DEF RecvShutdown
  <2>2. /\ Len(chan) \in Nat /\ DOMAIN Tail(chan) = 1..(Len(chan) - 1) /\ DOMAIN chan = 1..Len(chan)
        /\ 1 \in DOMAIN chan /\ Head(chan) = chan[1]
        /\ \A i \in 1..(Len(chan) - 1) : Tail(chan)[i] = chan[i + 1]
    BY <1>1, Tailed DEF Types
  <2>3. ASSUME NEW i \in DOMAIN chan, chan[i].tag = "Trade"
        PROVE  \E j \in DOMAIN Tail(chan) : Tail(chan)[j] = chan[i]
    <3>1. i # 1 BY <2>1, <2>2, <2>3
    <3>2. i - 1 \in DOMAIN Tail(chan) /\ (i - 1) + 1 = i BY <2>2, <3>1
    <3> QED BY <2>2, <3>2
  <2>4. ASSUME NEW j \in DOMAIN Tail(chan) PROVE \E i \in DOMAIN chan : Tail(chan)[j] = chan[i]
    <3>1. j + 1 \in DOMAIN chan BY <2>2
    <3> QED BY <2>2, <3>1
  <2> QED BY <1>1, <2>1, <2>3, <2>4, AllDropped
<1> QED BY <1>2, <1>3 DEF Ends

LEMMA EInvNext ==
  ASSUME Types, Types', InOrder, InOrder', EInv, [ExchangeNext]_allVars
  PROVE  EInv'
<1>1. PICK k \in 0..Len(sent) : Waits(k) BY DEF EInv
<1> USE DEF EInv
<1>2. ASSUME NEW j, Waits(j)' PROVE \E i \in 0..Len(sent') : Waits(i)' BY <1>2 DEF Waits
<1>3. ASSUME UNCHANGED <<sent, tags>> PROVE Tagged' BY <1>3 DEF Tagged, tags
<1>4. ASSUME NEW r \in Requests, HandlerStep(r) \/ HandlerGoesOn(r) PROVE EInv'
  <2>1. UNCHANGED <<vars, tags>> BY <1>4 DEF HandlerStep, HandlerGoesOn
  <2>2. Clients' BY <1>4, ClientsHandler
  <2>3. Waits(k)' /\ Executed' BY <1>1, <2>1, WaitsKept DEF vars, tags, aftermath, Up
  <2> QED BY <1>2, <1>3, <2>1, <2>2, <2>3 DEF vars
<1>5. ASSUME NEW r \in Requests, SendOrder(r) PROVE EInv'
  BY <1>1, <1>2, <1>5, ClientsSend, WaitsSend
<1>6. CASE EngineExecutes
  <2>1. Clients'
    BY <1>6, ClientsKept DEF EngineExecutes, RecvTrade, Up
  <2> QED BY <1>1, <1>2, <1>6, <2>1, WaitsExecutes
<1>7. CASE EngineStep
  <2>1. UNCHANGED <<handlers, tags, process, sent>>
    BY <1>7 DEF EngineStep, RecvShutdown, RecvTradePanics, RecvBootstrap, RecvBootstrapPanics, PanicOn,
                Inserted, InsertFailed
  <2>2. Clients' /\ Tagged' BY <1>3, <2>1, ClientsKept DEF Up, tags
  <2>3. CASE Ends
    <3>1. Waits(Len(sent))' /\ Executed' BY <1>1, <2>1, <2>3, EndFacts, WaitsGone DEF tags
    <3> QED BY <1>2, <2>2, <3>1
  <2>4. CASE RecvBootstrap
    <3>1. Waits(k)' /\ Executed'
      BY <1>1, <2>1, <2>4, WaitsTail DEF RecvBootstrap, Receiving, aftermath, Up, tags
    <3> QED BY <1>2, <2>2, <3>1
  <2>5. CASE Inserted
    <3>1. PICK c \in current : /\ rows' = Append(rows, c.row)
                               /\ answers' = [answers EXCEPT ![c.row.id] = c.result]
      BY <2>5 DEF Inserted
    <3>2. c.result # Waiting BY DEF Executed, Waiting
    <3>3. c.row.id \in DOMAIN answers /\ DOMAIN answers = 1..Len(sent) BY <1>1, FirstWaits, Sizes
    <3>4. /\ answers'[c.row.id] = c.result
          /\ \A id \in 1..Len(sent) : id # c.row.id => answers'[id] = answers[id]
      BY <3>1, <3>3
    <3>5. current' = {} /\ task' = "recv" /\ UNCHANGED <<process, chan, sent, result>>
      BY <2>1, <2>5 DEF Inserted, NoCommand, tags
    <3>6. UNCHANGED <<late, lost>> BY <2>5 DEF Inserted, aftermath
    <3>7. Waits(k + 1)' /\ Executed' BY <1>1, <3>1, <3>2, <3>4, <3>5, <3>6, WaitsInserted
    <3> QED BY <1>2, <2>2, <3>7
  <2>6. CASE InsertFailed
    <3>1. PICK c \in current : /\ \/ rows' = Append(rows, c.row) /\ UNCHANGED <<late, lost>>
                                  \/ /\ UNCHANGED rows /\ late' = late \union {c.row}
                                     /\ lost' = lost \union {c.row.id}
                               /\ answers' = [answers EXCEPT ![c.row.id] = Err("Database")]
      BY <2>6 DEF InsertFailed, aftermath
    <3>2. Err("Database") # Waiting BY DEF Err, Waiting
    <3>3. c.row.id \in DOMAIN answers /\ DOMAIN answers = 1..Len(sent) BY <1>1, FirstWaits, Sizes
    <3>4. /\ answers'[c.row.id] = Err("Database")
          /\ \A id \in 1..Len(sent) : id # c.row.id => answers'[id] = answers[id]
      BY <3>1, <3>3
    <3>5. current' = {} /\ task' = "recv" /\ UNCHANGED <<process, chan, sent, result>>
      BY <2>1, <2>6 DEF InsertFailed, NoCommand, tags
    <3>7. Waits(k + 1)' /\ Executed' BY <1>1, <3>1, <3>2, <3>4, <3>5, WaitsInserted
    <3> QED BY <1>2, <2>2, <3>7
  <2> QED BY <1>7, <2>3, <2>4, <2>5, <2>6 DEF EngineStep, Ends
<1>8. CASE ProcessStep
  <2>1. UNCHANGED <<handlers, tags, current, rows, late, sent, answers, lost>> /\ (Up => Up')
        /\ (task' = "gone" => task = "gone")
    BY <1>8 DEF ProcessStep, RequestShutdown, SendShutdown, Start, FetchRow, Serve, aftermath, Up
  <2>2. Clients' /\ Tagged' BY <1>3, <2>1, ClientsKept DEF tags
  <2>3. CASE RequestShutdown \/ Start \/ Serve
    <3>1. UNCHANGED chan BY <2>3 DEF RequestShutdown, Start, Serve
    <3>2. Waits(k)' /\ Executed' BY <1>1, <2>1, <3>1, WaitsKept DEF tags
    <3> QED BY <1>2, <2>2, <3>2
  <2>4. ASSUME NEW m \in Commands, m.tag # "Trade", chan' = Append(chan, m), task' # "gone" PROVE EInv'
    <3>1. Waits(k)' /\ Executed' BY <1>1, <2>1, <2>4, WaitsAppend DEF tags
    <3> QED BY <1>2, <2>2, <3>1
  <2>5. CASE SendShutdown
    <3>1. Control("Shutdown") \in Commands /\ Control("Shutdown").tag # "Trade" BY DEF Control, Commands
    <3> QED BY <2>4, <2>5, <3>1 DEF SendShutdown
  <2>6. CASE FetchRow
    <3>1. PICK i \in DOMAIN unfetched : chan' = Append(chan, Bootstrap(unfetched[i]))
      BY <2>6 DEF FetchRow
    <3>2. unfetched[i] \in Rows BY ElementOfSeq, LenProperties DEF Types
    <3>3. Bootstrap(unfetched[i]) \in Commands /\ Bootstrap(unfetched[i]).tag # "Trade"
      BY <3>2 DEF Bootstrap, Commands
    <3> QED BY <2>4, <2>6, <3>1, <3>3 DEF FetchRow
  <2> QED BY <1>8, <2>3, <2>5, <2>6 DEF ProcessStep
<1>9. CASE ProcessEnds
  <2>1. /\ Die /\ UNCHANGED <<sent, tags>> BY <1>9 DEF ProcessEnds, Crash, Exit, Die
  <2>2. Clients' /\ Tagged' BY <1>3, <1>9, <2>1, ClientsEnd
  <2>3. \A id \in 1..Len(sent) : answers'[id] = IF answers[id] = Waiting THEN Dropped ELSE answers[id]
    BY <2>1, Sizes DEF Die
  <2>4. Waits(Len(sent))' /\ Executed'
    BY <1>1, <2>1, <2>3, WaitsGone DEF Die, NoCommand, Up, tags
  <2> QED BY <1>2, <2>2, <2>4
<1>11. CASE RowLands
  <2>1. LateInsert /\ UNCHANGED <<handlers, tags, process, sent>> BY <1>11 DEF RowLands, LateInsert
  <2>2. Clients' /\ Tagged' BY <1>3, <2>1, ClientsKept DEF Up, tags
  <2>3. Waits(k)' /\ Executed' BY <1>1, <2>1, WaitsLate DEF tags
  <2> QED BY <1>2, <2>2, <2>3
<1>10. CASE UNCHANGED allVars
  <2>1. UNCHANGED <<vars, handlers, tags>> BY <1>10 DEF allVars
  <2>2. Clients' /\ Tagged' BY <1>3, <2>1, ClientsKept DEF tags, vars, Up
  <2>3. Waits(k)' /\ Executed' BY <1>1, <2>1, WaitsKept DEF vars, tags, aftermath, Up
  <2> QED BY <1>2, <2>2, <2>3
<1> QED BY <1>4, <1>5, <1>6, <1>7, <1>8, <1>9, <1>10, <1>11 DEF ExchangeNext

(* What every state of the composition satisfies.                          *)
XInv == Types /\ InOrder /\ AnsweredIsLogged /\ EInv

(* Handlers and engine stay in step, whatever crashes, panics, timeouts    *)
(* and failed statements happen: each command is that of one request, and  *)
(* request, channel, log and answer agree on what has become of it.        *)
THEOREM ExchangeInvariant == ExchangeSpec => []XInv
<1>1. ExchangeInit => XInv
  <2>1. Init => AnsweredIsLogged BY DEF Init, AnsweredIsLogged
  <2> QED BY <2>1, InOrderInit, TypesInit, EInvInit DEF ExchangeInit, XInv
<1>2. XInv /\ [ExchangeNext]_allVars => XInv'
  BY EngineNext, TypesNext, InOrderNext, AnsweredNext, EInvNext DEF XInv
<1> QED BY <1>1, <1>2, PTL DEF ExchangeSpec

(* What is promised of the engine alone holds with the handlers around it: *)
(* every behaviour of the order path is one of TradingEngine.  The answers *)
(* handlers wait for come or are given up, what they were told is in the   *)
(* log, no restart crosses the book, and the book is the replay of the log *)
(* in every life in which nothing has parted them.                         *)
THEOREM ExchangeKeepsEngine ==
  /\ ExchangeSpec => Spec
  /\ ExchangeSpec => [](/\ AnsweredIsLogged /\ WaitsWhileInHand /\ NeverCrossed
                        /\ BookIsReplayOfLog /\ BootPanicCause)
<1>1. ExchangeSpec => Spec
  <2>1. ExchangeInit => Init BY DEF ExchangeInit
  <2> QED BY <2>1, EngineNext, PTL DEF ExchangeSpec, Spec
<1>2. Spec => [](/\ AnsweredIsLogged /\ WaitsWhileInHand /\ NeverCrossed
                 /\ BookIsReplayOfLog /\ BootPanicCause)
  BY ResultsAreLogged, NobodyWaitsInVain, EngineNeverCrosses, BookIsReplayed, BootPanicsExplained, PTL
<1> QED BY <1>1, <1>2, PTL

(* The two tables agree across every crash: an order in the event log,     *)
(* which every later life of the process replays, has its reserve row in   *)
(* the journal (place_order awaits the reservation before it sends).       *)
THEOREM LoggedOrdersAreReserved == ExchangeSpec => []LoggedOrderIsReserved
<1>1. XInv => LoggedOrderIsReserved
  <2> SUFFICES ASSUME XInv, NEW i \in DOMAIN rows PROVE reserved[sender[rows[i].id]]
    BY DEF LoggedOrderIsReserved
  <2>1. PICK k \in 0..Len(sent) : Waits(k) BY DEF XInv, EInv
  <2>2. rows[i].id \in 1..Len(sent) BY <2>1, Sizes DEF Waits, XInv
  <2> QED BY <2>2 DEF XInv, EInv, Clients
<1> QED BY <1>1, ExchangeInvariant, PTL
-----------------------------------------------------------------------------
(* As many commands are answered as there are before the first that waits. *)
LEMMA CountAnswered ==
  ASSUME NEW n \in Nat, NEW replies, DOMAIN replies = 1..n, NEW k \in 0..n,
         \A id \in 1..n : replies[id] = Waiting <=> k < id
  PROVE  Cardinality({id \in DOMAIN replies : replies[id] # Waiting}) = k
<1>1. {id \in DOMAIN replies : replies[id] # Waiting} = 1..k OBVIOUS
<1>2. Cardinality(1..k) = IF 1 > k THEN 0 ELSE k - 1 + 1 BY FS_Interval
<1>3. k \in Nat /\ (IF 1 > k THEN 0 ELSE k - 1 + 1) = k OBVIOUS
<1> QED BY <1>1, <1>2, <1>3

(* The command of a request, before and after a step that sends none.      *)
LEMMA View ==
  ASSUME Types, Tagged, UNCHANGED <<sent, sender>>, NEW r \in Requests
  PROVE  \/ /\ \A id \in 1..Len(sent) : sender[id] # r
            /\ OrderOf(r) = "none" /\ AnswerOf(r) = "none" /\ OrderOf(r)' = "none" /\ AnswerOf(r)' = "none"
         \/ \E id \in 1..Len(sent) :
               /\ sender[id] = r
               /\ OrderOf(r) = Fate(id) /\ AnswerOf(r) = Reply(id)
               /\ OrderOf(r)' = Fate(id)' /\ AnswerOf(r)' = Reply(id)'
<1>1. DOMAIN sender = 1..Len(sent) BY LenProperties DEF Tagged
<1>2. CmdOf(r)' = CmdOf(r) BY DEF CmdOf
<1>3. CASE CmdOf(r) = {}
  <2>1. \A id \in 1..Len(sent) : sender[id] # r BY <1>1, <1>3 DEF CmdOf
  <2> QED BY <1>2, <1>3, <2>1 DEF OrderOf, AnswerOf
<1>4. CASE CmdOf(r) # {}
  <2> DEFINE id == CHOOSE id \in CmdOf(r) : TRUE
  <2>1. id \in CmdOf(r) BY <1>4
  <2>2. id \in 1..Len(sent) /\ sender[id] = r BY <1>1, <2>1 DEF CmdOf
  <2>3. OrderOf(r) = Fate(id) /\ AnswerOf(r) = Reply(id) BY <1>4 DEF OrderOf, AnswerOf
  <2>4. OrderOf(r)' = Fate(id)' /\ AnswerOf(r)' = Reply(id)' BY <1>2, <1>4 DEF OrderOf, AnswerOf
  <2>5. id' = id BY <1>2
  <2> HIDE DEF id
  <2>6. PICK i \in 1..Len(sent) : i = id BY <2>2
  <2>7. OrderOf(r)' = Fate(i)' /\ AnswerOf(r)' = Reply(i)' BY <2>4, <2>5, <2>6 DEF Fate, Reply, IsLogged, IsLate
  <2> QED BY <2>2, <2>3, <2>6, <2>7
<1> QED BY <1>3, <1>4

(* A step no client sees.                                                  *)
LEMMA Unseen ==
  ASSUME Types, Tagged, UNCHANGED <<handlers, sent, sender, answers>>, EngineState' = EngineState,
         \A id \in 1..Len(sent) : Fate(id)' = Fate(id)
  PROVE  UNCHANGED F!vars
<1>1. Pending' = Pending BY DEF Pending, Done
<1>2. ASSUME NEW r \in Requests PROVE OrderOf(r)' = OrderOf(r) /\ AnswerOf(r)' = AnswerOf(r)
  <2>1. \A id \in 1..Len(sent) : Reply(id)' = Reply(id) BY DEF Reply
  <2> QED BY <2>1, View
<1> QED BY <1>1, <1>2 DEF F!vars, handlers

LEMMA RefineHandler ==
  ASSUME NEW r \in Requests, HandlerStep(r) \/ HandlerGoesOn(r)
  PROVE  F!Next
  BY DEF HandlerStep, HandlerGoesOn, F!Next

(* The commands a client waits for, and the room they leave.               *)
LEMMA PendingIs ==
  ASSUME Types, NEW k, Waits(k)
  PROVE  Done = k /\ Pending = [i \in 1..(Len(sent) - k) |-> sender[k + i]]
<1>1. Len(sent) \in Nat /\ DOMAIN answers = 1..Len(sent) BY Sizes
<1>2. Done = k BY <1>1, CountAnswered DEF Waits, Done
<1> QED BY <1>2 DEF Pending

LEMMA PendingWillBe ==
  ASSUME Types', NEW k, Waits(k)'
  PROVE  Pending' = [i \in 1..(Len(sent') - k) |-> sender'[k + i]]
<1>1. Len(sent') \in Nat /\ DOMAIN answers' = 1..Len(sent') BY LenProperties DEF Types
<1>2. Done' = k BY <1>1, CountAnswered DEF Waits, Done
<1> QED BY <1>2 DEF Pending

LEMMA Room ==
  ASSUME Types, InOrder, NEW k, Waits(k)
  PROVE  Len(sent) - k <= Len(chan) + 1
<1>1. Len(sent) \in Nat /\ Len(chan) \in Nat /\ k \in Nat /\ k <= Len(sent) BY Sizes DEF Waits
<1>2. ASSUME NEW id \in (k + 1)..(k + 2), NEW i \in DOMAIN chan, chan[i].tag = "Trade", chan[i].row.id = id
      PROVE  Len(sent) - k <= Len(chan) + 1
  <2>1. Len(sent) - id <= Len(chan) - i /\ i \in Nat /\ i >= 1 BY <1>2, Sizes DEF Waits
  <2> QED BY <1>1, <2>1
<1>3. CASE Len(sent) <= k + 1 BY <1>1, <1>3
<1>4. CASE Len(sent) > k + 1
  <2>1. k + 1 \in (k + 1)..Len(sent) /\ k + 2 \in (k + 1)..Len(sent) BY <1>1, <1>4
  <2>2. CASE \E i \in DOMAIN chan : chan[i].tag = "Trade" /\ chan[i].row.id \in {k + 1, k + 2}
    <3>1. k + 1 \in (k + 1)..(k + 2) /\ k + 2 \in (k + 1)..(k + 2) BY <1>1
    <3> QED BY <1>2, <2>2, <3>1
  <2>3. CASE ~\E i \in DOMAIN chan : chan[i].tag = "Trade" /\ chan[i].row.id \in {k + 1, k + 2}
    <3>1. (\E c \in current : c.row.id = k + 1) /\ (\E c \in current : c.row.id = k + 2)
      BY <2>1, <2>3 DEF Waits
    <3>2. k + 1 = k + 2 BY <3>1 DEF Types
    <3> QED BY <1>1, <3>2
  <2> QED BY <2>2, <2>3
<1> QED BY <1>1, <1>3, <1>4

(* A client's order enters the channel.                                    *)
LEMMA RefineSend ==
  ASSUME Types, Types', InOrder, InOrder', Tagged, Tagged', Clients, Executed, NEW k, Waits(k),
         NEW r \in Requests, SendOrder(r)
  PROVE  F!Next
<1>1. /\ Up /\ task # "gone" /\ Len(chan) < Capacity
      /\ Len(sent) \in Nat /\ Len(sent') = Len(sent) + 1
      /\ sender'[Len(sent) + 1] = r /\ \A id \in 1..Len(sent) : sender'[id] = sender[id]
      /\ \A id \in 1..Len(sent) : result'[id] = result[id]
      /\ answers'[Len(sent) + 1] = Waiting /\ \A id \in 1..Len(sent) : answers'[id] = answers[id]
      /\ UNCHANGED <<process, task, current, rows, late, lost>>
  BY SentFacts
<1>2. Waits(k)' BY WaitsSend
<1>3. k \in Nat /\ k <= Len(sent) BY <1>1 DEF Waits
<1>4. Len(Pending) <= Capacity
  <2>1. Len(sent) - k \in Nat /\ Len(Pending) = Len(sent) - k BY <1>1, <1>3, PendingIs
  <2> QED BY <1>1, <1>3, <2>1, Room, Sizes, CapacityAssumption
<1>5. Pending' = Append(Pending, r)
  <2>1. sender \in Seq(Requests) /\ sender' \in Seq(Requests) /\ Len(sender) = Len(sent) BY DEF Tagged
  <2> DEFINE m == Len(sent) - k
  <2>2. m \in Nat /\ Len(sent') - k = m + 1 /\ k + (m + 1) = Len(sent) + 1 BY <1>1, <1>3
  <2>3. Pending = [i \in 1..m |-> sender[k + i]] BY PendingIs
  <2>4. Pending' = [i \in 1..(m + 1) |-> sender'[k + i]] BY <1>2, <2>2, PendingWillBe
  <2>5. \A i \in 1..m : k + i \in 1..Len(sent) BY <1>1, <1>3
  <2>6. \A i \in 1..m : sender'[k + i] = sender[k + i] BY <1>1, <2>5
  <2> HIDE DEF m
  <2>7. Len(Pending) = m BY <2>2, <2>3
  <2>8. Append(Pending, r) = [i \in 1..(m + 1) |-> IF i = m + 1 THEN r ELSE Pending[i]]
    BY <2>2, <2>3, <2>7
  <2>9. \A i \in 1..(m + 1) : sender'[k + i] = IF i = m + 1 THEN r ELSE Pending[i]
    BY <1>1, <2>2, <2>3, <2>6
  <2> QED BY <2>4, <2>8, <2>9
<1>6. DOMAIN sender = 1..Len(sent) /\ DOMAIN sender' = 1..(Len(sent) + 1)
  BY <1>1, LenProperties DEF Tagged
<1>7. pc[r] = "send" /\ \A id \in 1..Len(sent) : sender[id] # r BY DEF SendOrder, Clients
<1>8. CmdOf(r) = {} /\ CmdOf(r)' = {Len(sent) + 1}
  BY <1>1, <1>6, <1>7 DEF CmdOf
<1>9. OrderOf(r)' = "queued" /\ AnswerOf(r)' = "none" /\ AnswerOf(r) = "none"
  <2>1. (CHOOSE id \in CmdOf(r)' : TRUE) = Len(sent) + 1 BY <1>8
  <2> QED BY <1>1, <1>8, <2>1 DEF OrderOf, AnswerOf, Fate, Reply
<1>10. ASSUME NEW q \in Requests, q # r PROVE OrderOf(q)' = OrderOf(q) /\ AnswerOf(q)' = AnswerOf(q)
  <2>1. CmdOf(q)' = CmdOf(q) BY <1>1, <1>6, <1>10 DEF CmdOf
  <2>2. CASE CmdOf(q) = {} BY <2>1, <2>2 DEF OrderOf, AnswerOf
  <2>3. CASE CmdOf(q) # {}
    <3>1. PICK id : id = CHOOSE i \in CmdOf(q) : TRUE OBVIOUS
    <3>2. id \in 1..Len(sent) BY <1>6, <2>3, <3>1 DEF CmdOf
    <3>3. Fate(id)' = Fate(id) /\ Reply(id)' = Reply(id) BY <1>1, <3>2 DEF Fate, Reply, IsLogged, IsLate
    <3>4. OrderOf(q) = Fate(id) /\ AnswerOf(q) = Reply(id) BY <2>3, <3>1 DEF OrderOf, AnswerOf
    <3>5. OrderOf(q)' = Fate(id)' /\ AnswerOf(q)' = Reply(id)'
      BY <2>1, <2>3, <3>1 DEF OrderOf, AnswerOf, Fate, Reply, IsLogged, IsLate
    <3> QED BY <3>3, <3>4, <3>5
  <2> QED BY <2>2, <2>3
<1>11. EngineState = "up" /\ EngineState' = "up" BY <1>1 DEF EngineState, Up
<1>12. [q \in Requests |-> OrderOf(q)]' = [[q \in Requests |-> OrderOf(q)] EXCEPT ![r] = "queued"]
  BY <1>9, <1>10
<1>13. [q \in Requests |-> AnswerOf(q)]' = [q \in Requests |-> AnswerOf(q)]
  BY <1>9, <1>10
<1>14. F!SendOk(r)
  BY <1>4, <1>5, <1>7, <1>11, <1>12, <1>13 DEF F!SendOk, SendOrder, F!money, F!late
<1> QED BY <1>14 DEF F!Next

(* A command is executed: its sender sees nothing before the INSERT ends.  *)
LEMMA RefineExecutes ==
  ASSUME Types, Types', InOrder, Tagged, Executed, NEW k, Waits(k), EngineExecutes
  PROVE  UNCHANGED F!vars
<1>1. PICK c \in current' : result' = [result EXCEPT ![c.row.id] = c.result.tag] BY DEF EngineExecutes
<1>2. /\ UNCHANGED <<process, rows, late, sent, answers, lost, handlers, sender>>
      /\ task # "gone" /\ task' # "gone"
  BY DEF EngineExecutes, RecvTrade, Receiving, aftermath
<1>3. Waits(k)' BY WaitsExecutes
<1>4. k < c.row.id BY <1>3 DEF Waits
<1>5. ASSUME NEW id \in 1..Len(sent) PROVE Fate(id)' = Fate(id)
  <2>1. CASE id = c.row.id
    <3>1. answers[id] = Waiting BY <1>4, <2>1 DEF Waits
    <3> QED BY <1>2, <3>1 DEF Fate
  <2>2. CASE id # c.row.id
    <3>1. DOMAIN result = 1..Len(sent) BY LenProperties DEF Tagged
    <3>2. result'[id] = result[id] BY <1>1, <2>2, <3>1
    <3> QED BY <1>2, <3>2 DEF Fate, IsLogged, IsLate
  <2> QED BY <2>1, <2>2
<1>6. EngineState' = EngineState BY <1>2 DEF EngineState, Up
<1> QED BY <1>2, <1>5, <1>6, Unseen

(* The INSERT ends: the first command that waits is answered, and the      *)
(* others see nothing.                                                     *)
LEMMA AnsweredFirst ==
  ASSUME Types, Types', InOrder, Tagged, Executed, NEW k, Waits(k), NEW c \in current,
         answers'[c.row.id] # Waiting,
         \A id \in 1..Len(sent) : id # c.row.id => answers'[id] = answers[id],
         \/ rows' = Append(rows, c.row) /\ UNCHANGED <<late, lost>>
         \/ /\ UNCHANGED rows /\ late' = late \union {c.row} /\ lost' = lost \union {c.row.id}
            /\ answers'[c.row.id] = Err("Database"),
         current' = {}, task' = "recv", UNCHANGED <<process, chan, sent, result, sender>>
  PROVE  \E h \in Requests :
            /\ Pending # <<>> /\ h = Head(Pending) /\ Pending' = Tail(Pending)
            /\ EngineState = "up" /\ EngineState' = "up"
            /\ OrderOf(h)' = (IF c.result.tag = "Ok" THEN "live" ELSE "refused")
            /\ AnswerOf(h)' = (IF answers'[c.row.id] = Err("Database") THEN "Database" ELSE answers'[c.row.id].tag)
            /\ \A q \in Requests \ {h} : OrderOf(q)' = OrderOf(q) /\ AnswerOf(q)' = AnswerOf(q)
<1>1. c.row.id = k + 1 /\ k + 1 \in 1..Len(sent) /\ k \in Nat /\ Len(sent) \in Nat BY FirstWaits, Sizes
<1>2. Waits(k + 1)' BY WaitsInserted
<1> DEFINE m == Len(sent) - k
<1>3. m \in Nat /\ m >= 1 /\ Len(sent) - (k + 1) = m - 1 /\ m - 1 \in Nat BY <1>1
<1>4. Pending = [i \in 1..m |-> sender[k + i]] BY PendingIs
<1>5. Pending' = [i \in 1..(m - 1) |-> sender[(k + 1) + i]] BY <1>2, <1>3, PendingWillBe
<1>6. \A i \in 1..(m - 1) : (k + 1) + i = k + (i + 1) BY <1>1, <1>3
<1> HIDE DEF m
<1>7. PICK h \in Requests : h = sender[k + 1]
  <2>1. sender[k + 1] \in Requests BY <1>1, ElementOfSeq DEF Tagged
  <2> QED BY <2>1
<1>8. Len(Pending) = m /\ Pending # <<>> /\ Head(Pending) = h BY <1>3, <1>4, <1>7
<1>9. Tail(Pending) = [i \in 1..(m - 1) |-> Pending[i + 1]] BY <1>3, <1>4, <1>8
<1>10. \A i \in 1..(m - 1) : Pending[i + 1] = sender[(k + 1) + i]
  <2>1. \A i \in 1..(m - 1) : i + 1 \in 1..m BY <1>3
  <2> QED BY <1>4, <1>6, <2>1
<1>11. Pending' = Tail(Pending) BY <1>5, <1>9, <1>10
<1>12. EngineState = "up" /\ EngineState' = "up"
  <2>1. Up
    <3>1. SUFFICES ASSUME ~Up PROVE FALSE OBVIOUS
    <3>2. k = Len(sent) BY <3>1 DEF Waits
    <3> QED BY <1>1, <3>2
  <2>2. task # "gone" BY DEF Types
  <2> QED BY <2>1, <2>2 DEF EngineState, Up
<1>13. ASSUME NEW id \in 1..Len(sent), id # k + 1 PROVE Fate(id)' = Fate(id) /\ Reply(id)' = Reply(id)
  <2>1. IsLogged(id)' <=> IsLogged(id)
    <3>1. CASE UNCHANGED rows BY <3>1 DEF IsLogged
    <3>2. CASE rows' = Append(rows, c.row)
      <4>1. /\ Len(rows) \in Nat /\ DOMAIN rows' = 1..(Len(rows) + 1) /\ DOMAIN rows = 1..Len(rows)
            /\ rows'[Len(rows) + 1] = c.row /\ \A i \in 1..Len(rows) : rows'[i] = rows[i]
        BY <3>2, Appended DEF Types
      <4>2. \A i \in DOMAIN rows' : i \in DOMAIN rows \/ i = Len(rows) + 1 BY <4>1
      <4>3. \A i \in DOMAIN rows : i \in DOMAIN rows' BY <4>1
      <4> QED BY <1>1, <1>13, <4>1, <4>2, <4>3 DEF IsLogged
    <3> QED BY <3>1, <3>2
  <2>2. id \in lost' <=> id \in lost BY <1>1, <1>13
  <2>3. answers'[id] = answers[id] BY <1>1, <1>13
  <2>4. IsLate(id)' <=> IsLate(id) BY <1>1, <1>13 DEF IsLate
  <2> QED BY <2>1, <2>2, <2>3, <2>4 DEF Fate, Reply
<1>14. /\ Fate(k + 1)' = (IF c.result.tag = "Ok" THEN "live" ELSE "refused")
       /\ Reply(k + 1)' = (IF answers'[k + 1] = Err("Database") THEN "Database" ELSE answers'[k + 1].tag)
  <2>1. IsLogged(k + 1)' \/ k + 1 \in lost'
    <3>1. CASE rows' = Append(rows, c.row)
      <4>1. /\ Len(rows) \in Nat /\ DOMAIN rows' = 1..(Len(rows) + 1) /\ rows'[Len(rows) + 1] = c.row
        BY <3>1, Appended DEF Types
      <4> QED BY <1>1, <4>1 DEF IsLogged
    <3>2. CASE lost' = lost \union {c.row.id} BY <1>1, <3>2
    <3> QED BY <3>1, <3>2
  <2>2. answers'[k + 1] # Waiting /\ result'[k + 1] = c.result.tag BY <1>1 DEF Executed
  <2> QED BY <2>1, <2>2 DEF Fate, Reply
<1>15. OrderOf(h)' = Fate(k + 1)' /\ AnswerOf(h)' = Reply(k + 1)'
  <2>1. PICK id \in 1..Len(sent) : sender[id] = h /\ OrderOf(h)' = Fate(id)' /\ AnswerOf(h)' = Reply(id)'
    BY <1>1, <1>7, View
  <2>2. id = k + 1 BY <1>1, <1>7, <2>1 DEF Tagged
  <2> QED BY <2>1, <2>2 DEF Fate, Reply, IsLogged, IsLate
<1>16. ASSUME NEW q \in Requests \ {h} PROVE OrderOf(q)' = OrderOf(q) /\ AnswerOf(q)' = AnswerOf(q)
  <2>1. \A id \in 1..Len(sent) : sender[id] = q => id # k + 1 BY <1>7, <1>16
  <2> QED BY <1>13, <2>1, View
<1> QED BY <1>1, <1>7, <1>8, <1>11, <1>12, <1>14, <1>15, <1>16

LEMMA RefineInserted ==
  ASSUME Types, Types', InOrder, Tagged, Executed, NEW k, Waits(k), UNCHANGED <<handlers, tags>>,
         Inserted \/ (DbFails /\ InsertFailed)
  PROVE  F!Next
<1> DEFINE Order == [r \in Requests |-> OrderOf(r)]
           Resp == [r \in Requests |-> AnswerOf(r)]
<1>1. current' = {} /\ task' = "recv" /\ UNCHANGED <<process, chan, sent, result, sender, handlers>>
  BY DEF Inserted, InsertFailed, NoCommand, tags
<1>2. ASSUME NEW h \in Requests, Pending # <<>>, h = Head(Pending), Pending' = Tail(Pending),
             EngineState = "up", EngineState' = "up",
             NEW fate, NEW reply, OrderOf(h)' = fate, AnswerOf(h)' = reply,
             \A q \in Requests \ {h} : OrderOf(q)' = OrderOf(q) /\ AnswerOf(q)' = AnswerOf(q),
             \/ fate = "live" /\ reply = "Ok"
             \/ fate = "refused" /\ reply = "Err"
             \/ DbFails /\ fate \in {"live", "refused"} /\ reply = "Database"
      PROVE  F!Next
  <2>1. Order' = [Order EXCEPT ![h] = fate] BY <1>2
  <2>2. Resp' = [Resp EXCEPT ![h] = reply] BY <1>2
  <2>3. F!EngineTakes
    <3>1. UNCHANGED <<pc, amount, seen, F!money, told, reverts, failed, overlapped, F!late>>
      BY <1>1 DEF handlers, F!money, F!late
    <3> HIDE DEF Order, Resp
    <3> QED BY <1>2, <2>1, <2>2, <3>1 DEF F!EngineTakes, Order, Resp
  <2> QED BY <2>3 DEF F!Next
<1>3. ASSUME NEW c \in current, NEW a, a # Waiting, answers' = [answers EXCEPT ![c.row.id] = a],
             \/ rows' = Append(rows, c.row) /\ UNCHANGED <<late, lost>>
             \/ /\ UNCHANGED rows /\ late' = late \union {c.row} /\ lost' = lost \union {c.row.id}
                /\ a = Err("Database"),
             \/ a = c.result
             \/ a = Err("Database") /\ DbFails
      PROVE  F!Next
  <2>1. c.row.id \in DOMAIN answers /\ DOMAIN answers = 1..Len(sent) BY FirstWaits, Sizes
  <2>2. /\ answers'[c.row.id] = a
        /\ \A id \in 1..Len(sent) : id # c.row.id => answers'[id] = answers[id]
    BY <1>3, <2>1
  <2>3. PICK h \in Requests :
            /\ Pending # <<>> /\ h = Head(Pending) /\ Pending' = Tail(Pending)
            /\ EngineState = "up" /\ EngineState' = "up"
            /\ OrderOf(h)' = (IF c.result.tag = "Ok" THEN "live" ELSE "refused")
            /\ AnswerOf(h)' = (IF answers'[c.row.id] = Err("Database") THEN "Database" ELSE answers'[c.row.id].tag)
            /\ \A q \in Requests \ {h} : OrderOf(q)' = OrderOf(q) /\ AnswerOf(q)' = AnswerOf(q)
    BY <1>1, <1>3, <2>2, AnsweredFirst
  <2>4. c.result.tag \in {"Ok", "Err"} /\ c.result # Err("Database") BY DEF Executed
  <2> DEFINE fate == IF c.result.tag = "Ok" THEN "live" ELSE "refused"
             reply == IF a = Err("Database") THEN "Database" ELSE a.tag
  <2>5. \/ fate = "live" /\ reply = "Ok"
        \/ fate = "refused" /\ reply = "Err"
        \/ DbFails /\ fate \in {"live", "refused"} /\ reply = "Database"
    BY <1>3, <2>4
  <2>6. OrderOf(h)' = fate /\ AnswerOf(h)' = reply BY <2>2, <2>3
  <2> HIDE DEF fate, reply
  <2> QED BY <1>2, <2>3, <2>5, <2>6
<1>4. CASE Inserted
  <2>1. PICK c \in current : rows' = Append(rows, c.row) /\ answers' = [answers EXCEPT ![c.row.id] = c.result]
    BY <1>4 DEF Inserted
  <2>2. c.result # Waiting /\ UNCHANGED <<late, lost>> BY <1>4 DEF Executed, Waiting, Inserted, aftermath
  <2> QED BY <1>3, <2>1, <2>2
<1>5. CASE DbFails /\ InsertFailed
  <2>1. PICK c \in current : /\ \/ rows' = Append(rows, c.row) /\ UNCHANGED <<late, lost>>
                                \/ /\ UNCHANGED rows /\ late' = late \union {c.row}
                                   /\ lost' = lost \union {c.row.id}
                             /\ answers' = [answers EXCEPT ![c.row.id] = Err("Database")]
    BY <1>5 DEF InsertFailed, aftermath
  <2>2. Err("Database") # Waiting BY DEF Err, Waiting
  <2> QED BY <1>3, <1>5, <2>1, <2>2
<1> QED BY <1>4, <1>5

(* Nothing waits: the answers stay what they are.                          *)
LEMMA NoneWaits ==
  ASSUME Types, Types', InOrder, Waits(Len(sent)), UNCHANGED sent,
         \A id \in 1..Len(sent) : answers'[id] = IF answers[id] = Waiting THEN Dropped ELSE answers[id]
  PROVE  UNCHANGED answers /\ current = {}
<1>1. Len(sent) \in Nat BY Sizes
<1>2. \A id \in 1..Len(sent) : answers'[id] = answers[id] BY <1>1 DEF Waits
<1>3. answers = [id \in 1..Len(sent) |-> answers[id]] /\ answers' = [id \in 1..Len(sent) |-> answers'[id]]
  BY DEF Types
<1>4. current = {} BY <1>1, Ids DEF Waits
<1> QED BY <1>2, <1>3, <1>4

(* The engine task ends.                                                   *)
LEMMA RefineEnds ==
  ASSUME Types, Types', InOrder, Tagged, Clients, Executed, NEW k, Waits(k), UNCHANGED <<handlers, tags>>, Ends
  PROVE  F!Next \/ UNCHANGED F!vars
<1>1. /\ task = "recv" /\ task' = "gone" /\ chan' = <<>> /\ current = {}
      /\ UNCHANGED <<process, current, rows, late, sent, lost, sender, result>>
      /\ \A id \in 1..Len(sent) : answers'[id] = IF answers[id] = Waiting THEN Dropped ELSE answers[id]
  BY EndFacts DEF tags
<1>2. Up' = Up /\ Len(sent) \in Nat /\ k \in Nat BY <1>1, Sizes DEF Up, Waits
<1>3. CASE ~Up
  <2>1. EngineState' = EngineState BY <1>2, <1>3 DEF EngineState
  <2>2. UNCHANGED answers BY <1>1, <1>3, NoneWaits DEF Waits
  <2>3. \A id \in 1..Len(sent) : Fate(id)' = Fate(id) BY <1>1, <2>2 DEF Fate, IsLogged, IsLate
  <2> QED BY <1>1, <2>1, <2>2, <2>3, Unseen
<1>4. CASE Up
  <2>1. EngineState = "up" /\ EngineState' = "gone" BY <1>1, <1>2, <1>4 DEF EngineState
  <2>2. Waits(Len(sent))' BY <1>1, WaitsGone
  <2>3. Pending' = <<>>
    <3>1. Pending' = [i \in 1..(Len(sent') - Len(sent)) |-> sender'[Len(sent) + i]]
      BY <1>1, <2>2, PendingWillBe
    <3>2. Len(sent') - Len(sent) = 0 BY <1>1, <1>2
    <3> QED BY <3>1, <3>2
  <2>4. ASSUME NEW id \in 1..Len(sent)
        PROVE  /\ Fate(id)' = IF Fate(id) = "queued" THEN "none" ELSE Fate(id)
               /\ Reply(id)' = IF Fate(id) = "queued" THEN "Dropped" ELSE Reply(id)
    <3>1. CASE answers[id] = Waiting
      <4>1. k < id BY <3>1 DEF Waits
      <4>2. ~IsLogged(id) /\ ~IsLate(id) /\ id \notin lost BY <1>2, <4>1 DEF Waits, IsLogged, IsLate
      <4>3. ~IsLogged(id)' /\ ~IsLate(id)' /\ id \notin lost' BY <1>1, <4>2 DEF IsLogged, IsLate
      <4>4. answers'[id] = Dropped /\ Dropped # Waiting /\ Dropped # Err("Database") /\ Dropped.tag = "Dropped"
        BY <1>1, <3>1 DEF Dropped, Waiting, Err
      <4> QED BY <3>1, <4>3, <4>4 DEF Fate, Reply
    <3>2. CASE answers[id] # Waiting
      <4>1. answers'[id] = answers[id] BY <1>1, <3>2
      <4>2. Fate(id) # "queued" BY <3>2 DEF Fate
      <4>3. Fate(id)' = Fate(id) /\ Reply(id)' = Reply(id) BY <1>1, <4>1 DEF Fate, Reply, IsLogged, IsLate
      <4> QED BY <4>2, <4>3
    <3> QED BY <3>1, <3>2
  <2>5. ASSUME NEW r \in Requests
        PROVE  /\ OrderOf(r)' = IF OrderOf(r) = "queued" THEN "none" ELSE OrderOf(r)
               /\ AnswerOf(r)' = IF OrderOf(r) = "queued" THEN "Dropped" ELSE AnswerOf(r)
    BY <1>1, <2>4, View
  <2>6. F!EngineStops
    BY <1>1, <2>1, <2>3, <2>5 DEF F!EngineStops, F!money, F!late, handlers
  <2> QED BY <2>6 DEF F!Next
<1> QED BY <1>3, <1>4

(* The process boots, serves and begins to shut down.                      *)
LEMMA RefineProcess ==
  ASSUME Types, Tagged, ProcessStep \/ (RecvBootstrap /\ UNCHANGED <<handlers, tags>>)
  PROVE  F!Next \/ UNCHANGED F!vars
<1>1. UNCHANGED <<handlers, sender, result, rows, late, sent, answers, lost>>
  BY DEF ProcessStep, RecvBootstrap, RequestShutdown, SendShutdown, Start, FetchRow, Serve, aftermath, tags
<1>2. \A id \in 1..Len(sent) : Fate(id)' = Fate(id) BY <1>1 DEF Fate, IsLogged, IsLate
<1>3. CASE EngineState' = EngineState BY <1>1, <1>2, <1>3, Unseen
<1>4. CASE Serve
  <2>1. EngineState = "down" /\ EngineState' \in {"up", "gone"} BY <1>4 DEF Serve, EngineState, Up
  <2>2. Pending' = Pending BY <1>1 DEF Pending, Done
  <2>3. ASSUME NEW r \in Requests PROVE OrderOf(r)' = OrderOf(r) /\ AnswerOf(r)' = AnswerOf(r)
    <3>1. \A id \in 1..Len(sent) : Reply(id)' = Reply(id) BY <1>1 DEF Reply
    <3> QED BY <1>1, <1>2, <3>1, View
  <2>4. F!Restart BY <1>1, <2>1, <2>2, <2>3 DEF F!Restart, F!money, F!late, handlers
  <2> QED BY <2>4 DEF F!Next
<1>5. CASE RequestShutdown \/ SendShutdown \/ Start \/ FetchRow \/ RecvBootstrap
  <2>1. EngineState' = EngineState
    BY <1>5 DEF RequestShutdown, SendShutdown, Start, FetchRow, RecvBootstrap, Receiving, EngineState, Up
  <2> QED BY <1>3, <2>1
<1> QED BY <1>4, <1>5 DEF ProcessStep

(* The process ends under its clients: the row of the command at its       *)
(* INSERT may land later, as may those of the commands executed and not    *)
(* logged.                                                                 *)
LEMMA Forgotten ==
  ASSUME Types, InOrder, Tagged, Executed, NEW k, Waits(k), Die, UNCHANGED tags
  PROVE  \E fate \in {"none", "late"} :
            /\ \A id \in 1..Len(sent) : answers[id] = Waiting =>
                  /\ Fate(id)' = (IF id = k + 1 THEN fate ELSE "none")
                  /\ Reply(id)' = "Dropped"
            /\ \A id \in 1..Len(sent) : answers[id] # Waiting =>
                  /\ Fate(id)' = (IF id \in lost /\ ~IsLogged(id) THEN "late" ELSE Fate(id))
                  /\ Reply(id)' = Reply(id)
<1>1. /\ UNCHANGED <<rows, sent, sender, result>> /\ lost' = {}
      /\ late' = late \union {c.row : c \in current}
  BY DEF Die, tags
<1>2. /\ Len(sent) \in Nat /\ k \in Nat
      /\ \A id \in 1..Len(sent) : answers'[id] = IF answers[id] = Waiting THEN Dropped ELSE answers[id]
  BY Sizes DEF Die, Waits
<1>3. Dropped # Waiting /\ Dropped # Err("Database") /\ Dropped.tag = "Dropped"
  BY DEF Dropped, Waiting, Err
<1>4. ASSUME NEW id \in 1..Len(sent)
      PROVE  /\ answers[id] = Waiting => Reply(id)' = "Dropped"
             /\ answers[id] # Waiting => Reply(id)' = Reply(id)
             /\ Fate(id)' = IF IsLogged(id)' THEN (IF result[id] = "Ok" THEN "live" ELSE "refused")
                            ELSE IF IsLate(id)' THEN "late" ELSE "none"
  BY <1>1, <1>2, <1>3 DEF Reply, Fate
<1>5. \A id : IsLogged(id)' <=> IsLogged(id) BY <1>1 DEF IsLogged
<1>6. ASSUME NEW id \in 1..Len(sent) PROVE IsLate(id)' <=> IsLate(id) \/ (id = k + 1 /\ current # {})
  <2>1. \A c \in current : c.row.id = k + 1 BY FirstWaits
  <2> QED BY <1>1, <2>1 DEF IsLate
<1>7. ASSUME NEW id \in 1..Len(sent), answers[id] = Waiting PROVE ~IsLogged(id) /\ ~IsLate(id)
  <2>1. k < id BY <1>7 DEF Waits
  <2> QED BY <1>2, <2>1 DEF Waits, IsLogged, IsLate
<1>8. ASSUME NEW id \in 1..Len(sent), answers[id] # Waiting
      PROVE  Fate(id)' = (IF id \in lost /\ ~IsLogged(id) THEN "late" ELSE Fate(id))
  <2>1. id # k + 1 BY <1>2, <1>8 DEF Waits
  <2>2. IsLate(id)' <=> IsLate(id) BY <1>6, <2>1
  <2>3. id \in lost /\ ~IsLogged(id) => IsLate(id) BY DEF Executed
  <2> QED BY <1>4, <1>5, <1>8, <2>2, <2>3 DEF Fate
<1> DEFINE fate == IF current = {} THEN "none" ELSE "late"
<1>9. ASSUME NEW id \in 1..Len(sent), answers[id] = Waiting
      PROVE  Fate(id)' = IF id = k + 1 THEN fate ELSE "none"
  BY <1>4, <1>5, <1>6, <1>7, <1>9
<1>10. fate \in {"none", "late"} OBVIOUS
<1> HIDE DEF fate
<1> QED BY <1>4, <1>8, <1>9, <1>10

LEMMA RefineEndOfProcess ==
  ASSUME Types, Types', InOrder, Tagged, Clients, Executed, NEW k, Waits(k), ProcessEnds
  PROVE  F!Next \/ UNCHANGED F!vars
<1>1. Die /\ UNCHANGED tags /\ UNCHANGED <<sent, sender>> BY DEF ProcessEnds, Crash, Exit, Die, tags
<1>2. EngineState' = "down" BY <1>1 DEF Die, EngineState, Up
<1>3. /\ Len(sent) \in Nat /\ k \in Nat /\ k <= Len(sent)
      /\ \A id \in 1..Len(sent) : answers'[id] = IF answers[id] = Waiting THEN Dropped ELSE answers[id]
  BY <1>1, Sizes DEF Die, Waits
<1>4. CASE ~Up
  <2>1. EngineState = "down" BY <1>4 DEF EngineState
  <2>2. UNCHANGED answers /\ current = {} BY <1>1, <1>3, <1>4, NoneWaits DEF Waits
  <2>3. UNCHANGED <<rows, late>> /\ lost = {} /\ lost' = {} BY <1>1, <1>4, <2>2 DEF Die, Executed
  <2>4. \A id \in 1..Len(sent) : Fate(id)' = Fate(id) BY <1>1, <2>2, <2>3 DEF Fate, IsLogged, IsLate, tags
  <2>5. UNCHANGED handlers
    <3>1. reverts = {} /\ \A r \in Requests : pc[r] \in {"idle", "done"} /\ ~F!InFlight(r)
      BY <1>4 DEF Clients, F!InFlight, F!Awaits
    <3>2. /\ {r \in Requests : pc[r] = "insert"} = {} /\ {r \in Requests : pc[r] = "revert"} = {}
          /\ {r \in Requests : pc[r] = "wait"} = {}
      BY <3>1
    <3>3. UNCHANGED <<pc, told>> BY <3>1 DEF ProcessEnds, Clients
    <3>4. UNCHANGED <<failed, reverts, lateReserve, lateRevert>> BY <3>1, <3>2 DEF ProcessEnds
    <3> QED BY <3>3, <3>4 DEF ProcessEnds, handlers
  <2> QED BY <1>1, <1>2, <2>1, <2>2, <2>4, <2>5, Unseen
<1>5. CASE Up
  <2>1. EngineState # "down" BY <1>5 DEF EngineState
  <2>2. Waits(Len(sent))' BY <1>1, <1>3, WaitsGone DEF Die, NoCommand, Up, tags
  <2>3. Pending' = <<>>
    <3>1. Pending' = [i \in 1..(Len(sent') - Len(sent)) |-> sender'[Len(sent) + i]]
      BY <1>1, <2>2, PendingWillBe
    <3>2. Len(sent') - Len(sent) = 0 BY <1>1, <1>3
    <3> QED BY <3>1, <3>2
  <2>4. PICK fate \in {"none", "late"} :
            /\ \A id \in 1..Len(sent) : answers[id] = Waiting =>
                  /\ Fate(id)' = (IF id = k + 1 THEN fate ELSE "none")
                  /\ Reply(id)' = "Dropped"
            /\ \A id \in 1..Len(sent) : answers[id] # Waiting =>
                  /\ Fate(id)' = (IF id \in lost /\ ~IsLogged(id) THEN "late" ELSE Fate(id))
                  /\ Reply(id)' = Reply(id)
    BY <1>1, Forgotten
  <2> DEFINE unlogged == {r \in Requests : \E id \in lost : id \in 1..Len(sent) /\ sender[id] = r /\ ~IsLogged(id)}
  <2>5. unlogged \in SUBSET {r \in Requests : AnswerOf(r) = "Database"}
    <3> SUFFICES ASSUME NEW r \in Requests, NEW id \in lost, id \in 1..Len(sent), sender[id] = r
                 PROVE  AnswerOf(r) = "Database"
      OBVIOUS
    <3>1. PICK i \in 1..Len(sent) : sender[i] = r /\ AnswerOf(r) = Reply(i) BY <1>1, View
    <3>2. i = id BY <3>1 DEF Tagged
    <3>3. answers[id] = Err("Database") /\ Err("Database") # Waiting BY DEF Executed, Err, Waiting
    <3> QED BY <3>1, <3>2, <3>3 DEF Reply
  <2>6. ASSUME NEW r \in Requests
        PROVE  /\ OrderOf(r)' = IF OrderOf(r) = "queued" THEN (IF r = Pending[1] THEN fate ELSE "none")
                                ELSE IF r \in unlogged THEN "late" ELSE OrderOf(r)
               /\ AnswerOf(r)' = IF OrderOf(r) = "queued" THEN "Dropped" ELSE AnswerOf(r)
    <3>1. CASE \A id \in 1..Len(sent) : sender[id] # r
      <4>1. OrderOf(r) = "none" /\ AnswerOf(r) = "none" /\ OrderOf(r)' = "none" /\ AnswerOf(r)' = "none"
        BY <1>1, <3>1, View
      <4>2. r \notin unlogged BY <3>1
      <4> QED BY <4>1, <4>2
    <3>2. ASSUME NEW id \in 1..Len(sent), sender[id] = r, OrderOf(r) = Fate(id), AnswerOf(r) = Reply(id),
                 OrderOf(r)' = Fate(id)', AnswerOf(r)' = Reply(id)'
          PROVE  <2>6!2
      <4>1. CASE answers[id] = Waiting
        <5>1. k < id /\ OrderOf(r) = "queued" BY <3>2, <4>1 DEF Waits, Fate
        <5>2. 1 \in 1..(Len(sent) - k) /\ k + 1 \in 1..Len(sent) BY <1>3, <5>1
        <5>3. Pending[1] = sender[k + 1] BY <5>2, PendingIs
        <5>4. r = Pending[1] <=> id = k + 1 BY <3>2, <5>2, <5>3 DEF Tagged
        <5> QED BY <2>4, <3>2, <4>1, <5>1, <5>4
      <4>2. CASE answers[id] # Waiting
        <5>1. OrderOf(r) # "queued" BY <3>2, <4>2 DEF Fate
        <5>2. r \in unlogged <=> id \in lost /\ ~IsLogged(id) BY <3>2 DEF Tagged
        <5> QED BY <2>4, <3>2, <4>2, <5>1, <5>2
      <4> QED BY <4>1, <4>2
    <3> QED BY <1>1, <3>1, <3>2, View
  <2> HIDE DEF unlogged
  <2>7. [r \in Requests |-> OrderOf(r)]' = [r \in Requests |->
            IF [q \in Requests |-> OrderOf(q)][r] = "queued" THEN (IF r = Pending[1] THEN fate ELSE "none")
            ELSE IF r \in unlogged THEN "late" ELSE [q \in Requests |-> OrderOf(q)][r]]
    BY <2>6
  <2>8. [r \in Requests |-> AnswerOf(r)]' = [r \in Requests |->
            IF [q \in Requests |-> OrderOf(q)][r] = "queued" THEN "Dropped" ELSE [q \in Requests |-> AnswerOf(q)][r]]
    BY <2>6
  <2>9. unlogged \in SUBSET {r \in Requests : [q \in Requests |-> AnswerOf(q)][r] = "Database"} BY <2>5
  <2>10. F!ProcessDies
    BY <1>2, <2>1, <2>3, <2>7, <2>8, <2>9 DEF F!ProcessDies, ProcessEnds, F!money
  <2> QED BY <2>10 DEF F!Next
<1> QED BY <1>4, <1>5

(* A row that nobody waits for is stored.  A client sees it unless the     *)
(* engine that executed the command still runs.                            *)
LEMMA RefineRowLands ==
  ASSUME Types, Types', InOrder, Tagged, Executed, NEW k, Waits(k), RowLands
  PROVE  F!Next \/ UNCHANGED F!vars
<1>1. /\ UNCHANGED <<handlers, sender, result, process, task, sent, answers, lost>>
  BY DEF RowLands, LateInsert, tags
<1>2. PICK row \in late : rows' = Append(rows, row) /\ late' = late \ {row} BY DEF RowLands, LateInsert
<1>3. PICK n : n = row.id OBVIOUS
<1>4. n \in 1..Len(sent) /\ n \in 1..k BY <1>2, <1>3, Sizes DEF Waits
<1>5. answers[n] # Waiting BY <1>4 DEF Waits
<1>6. /\ Len(rows) \in Nat /\ DOMAIN rows' = 1..(Len(rows) + 1) /\ DOMAIN rows = 1..Len(rows)
      /\ rows'[Len(rows) + 1] = row /\ \A i \in 1..Len(rows) : rows'[i] = rows[i]
  BY <1>2, Appended DEF Types
<1>7. /\ \A i \in DOMAIN rows' : i \in DOMAIN rows \/ i = Len(rows) + 1
      /\ \A i \in DOMAIN rows : i \in DOMAIN rows'
      /\ Len(rows) + 1 \in DOMAIN rows'
  BY <1>6
<1>8. \A id : IsLogged(id)' <=> IsLogged(id) \/ id = n BY <1>3, <1>6, <1>7 DEF IsLogged
<1>9. ~IsLogged(n) /\ IsLate(n) BY <1>2, <1>3 DEF IsLogged, IsLate, InOrder
<1>10. \A id : IsLate(id)' <=> IsLate(id) /\ id # n BY <1>2, <1>3 DEF IsLate, InOrder
<1>11. ASSUME NEW id \in 1..Len(sent), id # n PROVE Fate(id)' = Fate(id)
  BY <1>1, <1>8, <1>10, <1>11 DEF Fate
<1>12. EngineState' = EngineState BY <1>1 DEF EngineState, Up
<1> DEFINE fate == IF result[n] = "Ok" THEN "live" ELSE "refused"
<1>13. ASSUME NEW id, id = n PROVE Fate(id)' = fate BY <1>1, <1>5, <1>8, <1>13 DEF Fate
<1>14. CASE n \in lost
  <2>1. Fate(n) = fate BY <1>5, <1>14 DEF Fate
  <2>2. \A id \in 1..Len(sent) : Fate(id)' = Fate(id) BY <1>11, <1>13, <2>1
  <2> QED BY <1>1, <1>12, <2>2, Unseen
<1>15. CASE n \notin lost
  <2>1. Fate(n) = "late" BY <1>5, <1>9, <1>15 DEF Fate
  <2>2. PICK h \in Requests : h = sender[n] BY <1>4, ElementOfSeq DEF Tagged
  <2>3. Pending' = Pending BY <1>1 DEF Pending, Done
  <2>4. \A id \in 1..Len(sent) : Reply(id)' = Reply(id) BY <1>1 DEF Reply
  <2>5. OrderOf(h) = "late" /\ OrderOf(h)' = fate /\ AnswerOf(h)' = AnswerOf(h)
    <3>1. PICK id \in 1..Len(sent) :
             /\ sender[id] = h /\ OrderOf(h) = Fate(id) /\ AnswerOf(h) = Reply(id)
             /\ OrderOf(h)' = Fate(id)' /\ AnswerOf(h)' = Reply(id)'
      BY <1>1, <1>4, <2>2, View
    <3>2. id = n BY <1>4, <2>2, <3>1 DEF Tagged
    <3> QED BY <1>13, <2>1, <2>4, <3>1, <3>2
  <2>6. ASSUME NEW q \in Requests, q # h PROVE OrderOf(q)' = OrderOf(q) /\ AnswerOf(q)' = AnswerOf(q)
    <3>1. \A id \in 1..Len(sent) : sender[id] = q => id # n BY <2>2, <2>6
    <3> QED BY <1>1, <1>11, <2>4, <3>1, View
  <2>7. fate \in {"live", "refused"} OBVIOUS
  <2> HIDE DEF fate
  <2>8. [q \in Requests |-> OrderOf(q)]' = [[q \in Requests |-> OrderOf(q)] EXCEPT ![h] = fate]
    BY <2>5, <2>6
  <2>9. [q \in Requests |-> AnswerOf(q)]' = [q \in Requests |-> AnswerOf(q)] BY <2>5, <2>6
  <2>10. F!LogLands(h)
    BY <1>1, <1>12, <2>3, <2>5, <2>7, <2>8, <2>9 DEF F!LogLands, F!money, F!late, handlers
  <2> QED BY <2>10 DEF F!Next
<1> QED BY <1>14, <1>15

(* Every step of the composition is a step of Funds, or one that Funds     *)
(* does not see.                                                           *)
LEMMA RefineNext ==
  ASSUME XInv, XInv', [ExchangeNext]_allVars
  PROVE  [F!Next]_(F!vars)
<1> USE DEF XInv, EInv
<1>1. PICK k \in 0..Len(sent) : Waits(k) OBVIOUS
<1>2. CASE \E r \in Requests : HandlerStep(r) \/ HandlerGoesOn(r) BY <1>2, RefineHandler
<1>3. CASE \E r \in Requests : SendOrder(r) BY <1>1, <1>3, RefineSend
<1>4. CASE EngineExecutes BY <1>1, <1>4, RefineExecutes
<1>5. CASE EngineStep
  <2>1. UNCHANGED <<handlers, tags>> BY <1>5 DEF EngineStep
  <2>2. CASE Inserted \/ (DbFails /\ InsertFailed) BY <1>1, <2>1, <2>2, RefineInserted
  <2>3. CASE Ends BY <1>1, <2>1, <2>3, RefineEnds
  <2>4. CASE RecvBootstrap BY <2>1, <2>4, RefineProcess
  <2> QED BY <1>5, <2>2, <2>3, <2>4 DEF EngineStep, Ends
<1>6. CASE ProcessStep BY <1>6, RefineProcess
<1>7. CASE ProcessEnds BY <1>1, <1>7, RefineEndOfProcess
<1>9. CASE RowLands BY <1>1, <1>9, RefineRowLands
<1>8. CASE UNCHANGED allVars
  <2>1. UNCHANGED <<vars, handlers, sender, result>> BY <1>8 DEF allVars, tags
  <2>2. UNCHANGED <<process, task, rows, late, sent, answers, lost>> BY <2>1 DEF vars, aftermath
  <2>3. EngineState' = EngineState BY <2>2 DEF EngineState, Up
  <2>4. \A id \in 1..Len(sent) : Fate(id)' = Fate(id) BY <2>1, <2>2 DEF Fate, IsLogged, IsLate
  <2> QED BY <2>1, <2>2, <2>3, <2>4, Unseen
<1> QED BY <1>2, <1>3, <1>4, <1>5, <1>6, <1>7, <1>8, <1>9 DEF ExchangeNext

(* Handlers, channel, engine, event log and restarts together behave as    *)
(* Funds says, for any number of clients, orders, crashes and failures.    *)
THEOREM ExchangeImplementsFunds == ExchangeSpec => ImplementsFunds
<1>1. ExchangeInit => F!Init BY DEF ExchangeInit
<1>2. XInv /\ XInv' /\ [ExchangeNext]_allVars => [F!Next]_(F!vars) BY RefineNext
<1> QED BY <1>1, <1>2, ExchangeInvariant, PTL DEF ExchangeSpec, ImplementsFunds, F!Spec
-----------------------------------------------------------------------------
(* The theorems about Funds, read in the state of the composition.         *)
FP == INSTANCE FundsProofs WITH
        Amounts <- Quantities,
        queue <- Pending,
        engine <- EngineState,
        order <- [r \in Requests |-> OrderOf(r)],
        resp <- [r \in Requests |-> AnswerOf(r)]

(* F and FP are the same instance of Funds under two names.                *)
LEMMA SameBalance == \A user : F!calculate_balance(user) = FP!calculate_balance(user)
  BY DEF F!calculate_balance, FP!calculate_balance, F!MapThenSumSet, FP!MapThenSumSet,
         F!MapThenFoldSet, FP!MapThenFoldSet

LEMMA SameFunds == F!Spec => FP!Spec
<1> USE DEF F!money, FP!money, F!late, FP!late, F!market, FP!market, F!InFlight, FP!InFlight, F!Awaits, FP!Awaits,
            F!End, FP!End, F!revert, FP!revert
<1>1. F!Init => FP!Init BY DEF F!Init, FP!Init
<1>2. ASSUME NEW r \in Requests, NEW a \in Quantities, F!Start(r, a) PROVE FP!Start(r, a)
  BY <1>2 DEF F!Start, FP!Start
<1>3. ASSUME NEW r \in Requests, F!ReadBalance(r) PROVE FP!ReadBalance(r)
  BY <1>3, SameBalance DEF F!ReadBalance, FP!ReadBalance, F!AsU64, FP!AsU64
<1>4. ASSUME NEW r \in Requests, F!RereadBalance(r) PROVE FP!RereadBalance(r)
  BY <1>4, SameBalance DEF F!RereadBalance, FP!RereadBalance, F!AsU64, FP!AsU64
<1>5. ASSUME NEW r \in Requests, F!InsertReserve(r) \/ F!ReserveFails(r)
      PROVE  FP!InsertReserve(r) \/ FP!ReserveFails(r)
  BY <1>5 DEF F!InsertReserve, FP!InsertReserve, F!ReserveFails, FP!ReserveFails
<1>6. ASSUME NEW r \in Requests, F!SendOk(r) \/ F!SendErr(r) \/ F!RevertInline(r)
      PROVE  FP!SendOk(r) \/ FP!SendErr(r) \/ FP!RevertInline(r)
  BY <1>6 DEF F!SendOk, FP!SendOk, F!SendErr, FP!SendErr, F!RevertInline, FP!RevertInline
<1>7. ASSUME NEW r \in Requests, F!Respond(r) \/ F!RevertTask(r) \/ F!Timeout(r)
      PROVE  FP!Respond(r) \/ FP!RevertTask(r) \/ FP!Timeout(r)
  BY <1>7 DEF F!Respond, FP!Respond, F!RevertTask, FP!RevertTask, F!Timeout, FP!Timeout
<1>8. ASSUME F!EngineTakes \/ F!EngineStops \/ F!ProcessDies \/ F!Restart
      PROVE  FP!EngineTakes \/ FP!EngineStops \/ FP!ProcessDies \/ FP!Restart
  BY <1>8 DEF F!EngineTakes, FP!EngineTakes, F!EngineStops, FP!EngineStops,
              F!ProcessDies, FP!ProcessDies, F!Restart, FP!Restart
<1>11. ASSUME NEW r \in Requests, F!ReserveLands(r) \/ F!RevertLands(r) \/ F!LogLands(r)
      PROVE  FP!ReserveLands(r) \/ FP!RevertLands(r) \/ FP!LogLands(r)
  BY <1>11 DEF F!ReserveLands, FP!ReserveLands, F!RevertLands, FP!RevertLands, F!LogLands, FP!LogLands
<1>9. ASSUME F!Next PROVE FP!Next
  BY <1>2, <1>3, <1>4, <1>5, <1>6, <1>7, <1>8, <1>9, <1>11 DEF F!Next, FP!Next
<1>10. [F!Next]_(F!vars) => [FP!Next]_(FP!vars) BY <1>9 DEF F!vars, FP!vars
<1> QED BY <1>1, <1>10, PTL DEF F!Spec, FP!Spec

(* What is promised about money holds of the handlers, the engine and the  *)
(* log together: a reservation is put back at most once, a confirmed order *)
(* is in the book and paid for, and a live order without funds or funds    *)
(* without an order have one of the causes named.                          *)
THEOREM ExchangeKeepsFunds ==
  ExchangeSpec => [](/\ F!RevertedAtMostOnce /\ F!OkIsFunded
                     /\ F!UnfundedOrderCause /\ F!StrandedFundsCause)
<1>1. /\ FP!Spec => []FP!RevertedAtMostOnce
      /\ FP!Spec => []FP!OkIsFunded
      /\ FP!Spec => []FP!UnfundedOrderCause
      /\ FP!Spec => []FP!StrandedFundsCause
  BY FP!RevertsOnce, FP!ConfirmedOrderIsFunded, FP!UnfundedOrdersExplained,
     FP!StrandedFundsExplained, OwnerAssumption, DepositedAssumption, U64Assumption,
     CapacityAssumption, QuantitiesAssumption
<1>2. /\ FP!RevertedAtMostOnce => F!RevertedAtMostOnce
      /\ FP!OkIsFunded => F!OkIsFunded
      /\ FP!UnfundedOrderCause => F!UnfundedOrderCause
      /\ FP!StrandedFundsCause => F!StrandedFundsCause
  BY DEF FP!RevertedAtMostOnce, F!RevertedAtMostOnce, FP!OkIsFunded, F!OkIsFunded,
         FP!UnfundedOrderCause, F!UnfundedOrderCause, FP!StrandedFundsCause, F!StrandedFundsCause
<1> QED BY <1>1, <1>2, SameFunds, ExchangeImplementsFunds, PTL DEF ImplementsFunds

(* Nor is an account overdrawn unless its user started a request while     *)
(* another was in flight or had its reserve INSERT under way: the balance  *)
(* check holds with the real engine answering, ending and restarting, for  *)
(* any finite number of requests.                                          *)
THEOREM ExchangeOverdraftsExplained ==
  ASSUME IsFiniteSet(Requests)
  PROVE  ExchangeSpec => []F!OverdraftCause
<1>0. FP!IsFiniteSet(Requests) BY DEF IsFiniteSet, FP!IsFiniteSet
<1>1. FP!Spec => []FP!OverdraftCause
  BY <1>0, FP!OverdraftsExplained, OwnerAssumption, DepositedAssumption, U64Assumption,
     CapacityAssumption, QuantitiesAssumption
<1>2. FP!OverdraftCause => F!OverdraftCause
  BY DEF FP!OverdraftCause, F!OverdraftCause, FP!calculate_balance, F!calculate_balance,
         FP!MapThenSumSet, F!MapThenSumSet, FP!MapThenFoldSet, F!MapThenFoldSet
<1> QED BY <1>1, <1>2, SameFunds, ExchangeImplementsFunds, PTL DEF ImplementsFunds
=============================================================================
