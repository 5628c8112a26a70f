-------------------------- MODULE AddressesProofs --------------------------
(***************************************************************************)
(* The three safety properties of the address table, for any sets of       *)
(* users, requests and address texts and any menu of requests.             *)
(*                                                                         *)
(* None is inductive: a page shows what the table holds, and the table     *)
(* holds what a handler decided some statements ago.  AInv therefore says  *)
(* where the text of every row comes from (Sound), what a handler between  *)
(* its list and its write still knows to be true (Asked, Alone), and that  *)
(* two create_deposit of a user in flight at once are on record (Overlap): *)
(* without it a stale list could not be excused when the second row comes. *)
(***************************************************************************)
EXTENDS Addresses, TLAPS

(* What every variable holds.                                              *)
Types ==
    /\ pc \in [Requests -> Awaits \union {"idle", "done"}]
    /\ params = [r \in Requests |-> params[r]]
    /\ text = [r \in Requests |-> text[r]]
    /\ told = [r \in Requests |-> told[r]]
    /\ shown = [r \in Requests |-> shown[r]]

(* bitcoind credits this address to this user.                             *)
Credited(user, addr) == addr \in DOMAIN wallet /\ wallet[addr] = user

(* The two ways a user comes by a second deposit address.                  *)
Excused(user) ==
    \/ user \in overlapped
    \/ \E r \in Requests : /\ params[r].op = "create_deposit"
                           /\ params[r].user = user
                           /\ params[r].asset # Currency(params[r].asset)

(* The user has had this text as a withdrawal address.                     *)
Withdrawn(user, addr) ==
    \E q \in Requests : /\ params[q].op = "create_withdrawal"
                        /\ params[q].user = user
                        /\ params[q].text = addr
                        /\ told[q] \in {"Ok", "Error"}

Depositing(r) == params[r].op = "create_deposit" /\ InFlight(r)

(* A request is at an await of its own handler; one that stores a deposit  *)
(* address got it from bitcoind under the label of its user.               *)
Asked(r) ==
    /\ pc[r] = "idle" => params[r].op = "none" /\ shown[r] = {}
    /\ told[r] # "none" => pc[r] = "done"
    /\ pc[r] = "address" => params[r].op = "create_deposit" /\ Currency(params[r].asset) = "BTC"
    /\ pc[r] = "insert" => \/ params[r].op = "create_withdrawal" /\ text[r] = params[r].text
                           \/ /\ params[r].op = "create_deposit" /\ Currency(params[r].asset) = "BTC"
                              /\ Credited(params[r].user, text[r])
    /\ pc[r] = "list" /\ params[r].op # "create_deposit" => text[r] = params[r].text
    /\ pc[r] = "delete" => params[r].op = "delete_withdrawal" /\ Withdrawn(params[r].user, params[r].text)

(* No row is in the way of the deposit address a handler is about to get.  *)
Alone(r) ==
    pc[r] \in {"address", "insert"} /\ params[r].op = "create_deposit" =>
        \/ Excused(params[r].user)
        \/ \A row \in rows : row.kind = "deposit" /\ row.user = params[r].user => row.currency # "BTC"

(* Two create_deposit of a user in flight at once are on record.           *)
Overlap(r, q) ==
    Depositing(r) /\ Depositing(q) /\ params[r].user = params[q].user => params[r].user \in overlapped

(* Where the text of a row comes from.                                     *)
Sound(row) ==
    /\ row.kind = "deposit" => Credited(row.user, row.text)
    /\ row.kind = "withdrawal" => Withdrawn(row.user, row.text)

(* The row of a successful create_deposit.                                 *)
Stored(r) ==
    params[r].op = "create_deposit" /\ told[r] = "Ok" =>
        NewRow(r) \in rows \/ Withdrawn(params[r].user, text[r])

Shown(r) ==
    \A row \in shown[r] : row.kind = "deposit" => Credited(params[r].user, row.text)

(* The inductive invariant.                                                *)
AInv ==
    /\ Types
    /\ \A r \in Requests : Asked(r) /\ Alone(r) /\ Stored(r) /\ Shown(r)
    /\ \A r \in Requests : \A q \in Requests \ {r} : Overlap(r, q)
    /\ \A row \in rows : Sound(row)
    /\ \A a, b \in rows :
          /\ a.kind = "deposit" /\ b.kind = "deposit"
          /\ a.user = b.user /\ a.currency = b.currency
          /\ a # b
          => Excused(a.user)

(* The invariant holds before the first request.                           *)
LEMMA AInvInit == Init => AInv
  BY DEF Init, AInv, Types, Asked, Alone, Stored, Shown, Overlap, Depositing, InFlight, Awaits, NoRequest

(* What a step of request r does to the rest: other requests are left      *)
(* alone, the wallet and the history only grow, the one row that may be    *)
(* new is the one r was about to insert, and a row that goes was the       *)
(* user's withdrawal address.                                              *)
Frame(r) ==
    /\ \A q \in Requests \ {r} :
          /\ pc'[q] = pc[q] /\ params'[q] = params[q] /\ text'[q] = text[q]
          /\ told'[q] = told[q] /\ shown'[q] = shown[q]
    /\ pc[r] # "idle" => params'[r] = params[r]
    /\ \A a \in DOMAIN wallet : a \in DOMAIN wallet' /\ wallet'[a] = wallet[a]
    /\ overlapped \subseteq overlapped'
    /\ \A row \in rows' \ rows :
          /\ pc[r] = "insert" /\ row = NewRow(r)
          /\ told'[r] \in {"Ok", "Error"}
    /\ \A row \in rows \ rows' : Withdrawn(row.user, row.text)

(* What is left to show of such a step.                                    *)
Own(r) ==
    /\ Asked(r)' /\ Alone(r)' /\ Stored(r)' /\ Shown(r)'
    /\ Depositing(r)' =>
          \/ Depositing(r)
          \/ \A q \in Requests \ {r} :
                Depositing(q) /\ params[q].user = params'[r].user => params'[r].user \in overlapped'

(* What is on record stays on record.                                      *)
LEMMA Monotone ==
  ASSUME AInv, NEW r \in Requests, pc[r] # "done", Frame(r)
  PROVE  /\ \A user, addr : Credited(user, addr) => Credited(user, addr)'
         /\ \A user : Excused(user) => Excused(user)'
         /\ \A user, addr : Withdrawn(user, addr) => Withdrawn(user, addr)'
<1>1. ASSUME NEW user, NEW addr, Credited(user, addr) PROVE Credited(user, addr)'
  BY <1>1 DEF Credited, Frame
<1>2. told[r] = "none" /\ (params[r].op # "none" => params'[r] = params[r])
  BY DEF AInv, Types, Asked, Frame
<1>3. ASSUME NEW user, Excused(user) PROVE Excused(user)'
  <2>1. CASE user \in overlapped BY <2>1 DEF Excused, Frame
  <2>2. ASSUME NEW q \in Requests, params[q].op = "create_deposit", params[q].user = user,
               params[q].asset # Currency(params[q].asset)
        PROVE  Excused(user)'
    <3>1. params'[q] = params[q] BY <1>2, <2>2 DEF Frame
    <3> QED BY <2>2, <3>1 DEF Excused, Currency
  <2> QED BY <1>3, <2>1, <2>2 DEF Excused
<1>4. ASSUME NEW user, NEW addr, Withdrawn(user, addr) PROVE Withdrawn(user, addr)'
  <2>1. PICK q \in Requests : /\ params[q].op = "create_withdrawal"
                              /\ params[q].user = user
                              /\ params[q].text = addr
                              /\ told[q] \in {"Ok", "Error"}
    BY <1>4 DEF Withdrawn
  <2>2. q # r BY <1>2, <2>1
  <2> QED BY <2>1, <2>2 DEF Withdrawn, Frame
<1> QED BY <1>1, <1>3, <1>4

(* A step of r that leaves the others alone and is right about r keeps the *)
(* invariant.                                                              *)
LEMMA AInvStep ==
  ASSUME AInv, NEW r \in Requests, pc[r] # "done", Types', Frame(r), Own(r)
  PROVE  AInv'
<1>1. /\ \A user, addr : Credited(user, addr) => Credited(user, addr)'
      /\ \A user : Excused(user) => Excused(user)'
      /\ \A user, addr : Withdrawn(user, addr) => Withdrawn(user, addr)'
  BY Monotone
<1>2. ASSUME NEW row \in rows', row \notin rows
      PROVE  /\ pc[r] = "insert" /\ row = NewRow(r) /\ params'[r] = params[r]
             /\ told'[r] \in {"Ok", "Error"}
             /\ row.user = params[r].user /\ row.text = text[r] /\ row.kind = Kind(r)
             /\ row.currency = Currency(params[r].asset)
  BY <1>2 DEF Frame, NewRow
<1>3. ASSUME NEW q \in Requests, q # r
      PROVE  /\ UNCHANGED <<pc[q], params[q], text[q], told[q], shown[q]>>
             /\ Asked(q) /\ Alone(q) /\ Stored(q) /\ Shown(q)
  BY <1>3 DEF Frame, AInv
<1>4. ASSUME NEW q \in Requests, q # r PROVE Asked(q)'
  BY <1>1, <1>3, <1>4 DEF Asked
<1>5. ASSUME NEW q \in Requests, q # r PROVE Shown(q)'
  BY <1>1, <1>3, <1>5 DEF Shown
<1>6. ASSUME NEW q \in Requests, q # r PROVE Stored(q)'
  <2> DEFINE user == params[q].user
             new == NewRow(q)
  <2>1. new' = new BY <1>3, <1>6 DEF NewRow, Kind
  <2>2. new.user = user /\ new.text = text[q] BY DEF NewRow
  <2>3. new \in rows /\ new \notin rows' => Withdrawn(new.user, new.text) BY DEF Frame
  <2>4. user' = user /\ text'[q] = text[q] BY <1>3, <1>6
  <2>5. Withdrawn(user, text[q]) => Withdrawn(user, text[q])'
    <3> HIDE DEF user
    <3> QED BY <1>1, <2>4 DEF Withdrawn
  <2> HIDE DEF new
  <2> QED BY <1>3, <1>6, <2>1, <2>2, <2>3, <2>5 DEF Stored, new
<1>7. ASSUME NEW q \in Requests, q # r PROVE Alone(q)'
  <2>1. SUFFICES ASSUME pc[q] \in {"address", "insert"}, params[q].op = "create_deposit",
                        ~Excused(params[q].user)'
                 PROVE  \A row \in rows' : row.kind = "deposit" /\ row.user = params[q].user
                                              => row.currency # "BTC"
    BY <1>3, <1>7 DEF Alone
  <2>2. ~Excused(params[q].user) BY <1>1, <1>3, <1>7, <2>1 DEF Excused
  <2>3. ASSUME NEW row \in rows', row.kind = "deposit", row.user = params[q].user, row \notin rows
        PROVE  FALSE
    <3>1. Depositing(r) /\ params[r].user = params[q].user
      BY <1>2, <2>3 DEF Depositing, InFlight, Awaits, Kind
    <3>2. Depositing(q) BY <2>1 DEF Depositing, InFlight, Awaits
    <3>3. params[q].user \in overlapped BY <1>7, <3>1, <3>2 DEF AInv, Overlap
    <3> QED BY <2>2, <3>3 DEF Excused
  <2> QED BY <1>3, <1>7, <2>1, <2>2, <2>3 DEF Alone
<1>8. ASSUME NEW p \in Requests, NEW q \in Requests, p # q PROVE Overlap(p, q)'
  <2>1. CASE p # r /\ q # r
    BY <1>3, <1>8, <2>1 DEF AInv, Overlap, Depositing, InFlight, Frame
  <2>2. ASSUME NEW s \in Requests, s # r, Depositing(r)', Depositing(s)', params'[r].user = params'[s].user
        PROVE  params'[r].user \in overlapped'
    <3>1. Depositing(s) /\ params'[s] = params[s]
      BY <1>3, <2>2 DEF Depositing, InFlight
    <3>2. CASE Depositing(r)
      <4>1. params'[r] = params[r] BY <3>2 DEF Depositing, InFlight, Awaits, Frame
      <4> QED BY <2>2, <3>1, <3>2, <4>1 DEF AInv, Overlap, Frame
    <3>3. CASE ~Depositing(r) BY <2>2, <3>1, <3>3 DEF Own
    <3> QED BY <3>2, <3>3
  <2> QED BY <1>8, <2>1, <2>2 DEF Overlap
<1>9. ASSUME NEW row \in rows' PROVE Sound(row)'
  <2>1. CASE row \in rows BY <1>1, <2>1 DEF AInv, Sound
  <2>2. CASE row \notin rows
    <3>1. row.kind = "deposit" => Credited(row.user, row.text)
      BY <1>2, <2>2 DEF AInv, Asked, Kind
    <3>2. row.kind = "withdrawal" => Withdrawn(row.user, row.text)'
      <4>1. row.kind = "withdrawal" => params[r].op = "create_withdrawal" /\ text[r] = params[r].text
        BY <1>2, <2>2 DEF AInv, Asked, Kind
      <4> QED BY <1>2, <2>2, <4>1 DEF Withdrawn
    <3> QED BY <1>1, <3>1, <3>2 DEF Sound
  <2> QED BY <2>1, <2>2
<1>10. ASSUME NEW a \in rows', NEW b \in rows', a.kind = "deposit", b.kind = "deposit",
              a.user = b.user, a.currency = b.currency, a # b
       PROVE  Excused(a.user)'
  <2>1. CASE a \in rows /\ b \in rows BY <1>1, <1>10, <2>1 DEF AInv
  <2>2. CASE a \notin rows /\ b \notin rows BY <1>2, <1>10, <2>2
  <2>3. ASSUME NEW c \in rows, NEW d \in rows', d \notin rows, c.kind = "deposit", d.kind = "deposit",
               c.user = d.user, c.currency = d.currency
        PROVE  Excused(c.user)
    <3>1. pc[r] = "insert" /\ params[r].op = "create_deposit" /\ d.user = params[r].user /\ d.currency = "BTC"
      BY <1>2, <2>3 DEF AInv, Asked, Kind
    <3> QED BY <2>3, <3>1 DEF AInv, Alone
  <2> QED BY <1>1, <1>10, <2>1, <2>2, <2>3
<1> QED BY <1>4, <1>5, <1>6, <1>7, <1>8, <1>9, <1>10 DEF AInv, Own

(* A step that writes neither rows nor wallet and moves r alone.           *)
Moved(r, where, what) ==
    /\ pc' = [pc EXCEPT ![r] = where] /\ told' = [told EXCEPT ![r] = what]
    /\ UNCHANGED <<rows, wallet, params, text, overlapped>>

(* Such a step keeps the invariant if r is right about where it goes.      *)
LEMMA AInvMoved ==
  ASSUME AInv, NEW r \in Requests, InFlight(r), NEW where \in Awaits \union {"done"}, NEW what,
         Moved(r, where, what), shown' = [shown EXCEPT ![r] = shown'[r]],
         what # "none" => where = "done",
         what = "Ok" => params[r].op # "create_deposit",
         Asked(r)', Alone(r)', Shown(r)'
  PROVE  AInv'
<1>1. pc[r] # "done" /\ pc[r] # "idle" BY DEF InFlight, Awaits
<1>2. Types' BY DEF AInv, Types, Moved
<1>3. Frame(r) BY DEF AInv, Types, Frame, Moved
<1>4. Stored(r)' BY DEF AInv, Types, Stored, Moved
<1>5. Depositing(r)' => Depositing(r) BY DEF Depositing, Moved
<1> QED BY <1>1, <1>2, <1>3, <1>4, <1>5, AInvStep DEF Own

(* A request arrives.                                                      *)
LEMMA AInvReceive ==
  ASSUME AInv, NEW r \in Requests, NEW p \in Menu, Receive(r, p)
  PROVE  AInv'
<1>1. pc[r] = "idle" /\ told[r] = "none" /\ shown[r] = {}
  BY DEF Receive, AInv, Types, Asked
<1>2. params'[r] = p /\ text'[r] = p.text /\ pc'[r] \in {"list", "done"} /\ told'[r] # "Ok"
      /\ UNCHANGED <<rows, wallet, shown>> /\ (told'[r] # "none" => pc'[r] = "done")
  BY <1>1 DEF Receive, AInv, Types, Await, End
<1>3. Types' BY DEF Receive, AInv, Types, Await, End, Awaits
<1>4. Frame(r) BY <1>1 DEF Receive, AInv, Types, Await, End, Frame
<1>5. Asked(r)' /\ Alone(r)' /\ Stored(r)' /\ Shown(r)'
  BY <1>1, <1>2 DEF Asked, Alone, Stored, Shown
<1>6. ASSUME Depositing(r)', NEW q \in Requests \ {r}, Depositing(q), params[q].user = p.user
      PROVE  p.user \in overlapped'
  <2>1. p.op = "create_deposit" BY <1>2, <1>6 DEF Depositing
  <2> QED BY <1>6, <2>1 DEF Receive, Depositing
<1> QED BY <1>1, <1>2, <1>3, <1>4, <1>5, <1>6, AInvStep DEF Own

(* The pages: what they show are rows of the table.                        *)
LEMMA AInvShow ==
  ASSUME AInv, NEW r \in Requests, ShowList(r) \/ ShowHome(r)
  PROVE  AInv'
<1>1. pc[r] = "list" /\ params[r].op # "create_deposit" /\ Moved(r, "done", "Ok")
      /\ shown' = [shown EXCEPT ![r] = shown'[r]]
  BY DEF AInv, Types, ShowList, ShowHome, End, Moved
<1>2. \A row \in shown'[r] : row \in rows /\ row.user = params[r].user
  BY DEF AInv, Types, ShowList, ShowHome, list_addrs
<1>3. Shown(r)'
  BY <1>1, <1>2 DEF AInv, Sound, Shown, Credited, Moved
<1>4. Asked(r)' /\ Alone(r)'
  BY <1>1 DEF AInv, Types, Asked, Alone, Moved
<1> QED BY <1>1, <1>3, <1>4, AInvMoved DEF InFlight, Awaits

(* The writers' lists: none refuses or lets through the wrong request.     *)
LEMMA AInvList ==
  ASSUME AInv, NEW r \in Requests, ListForDeposit(r) \/ ListForWithdrawal(r) \/ ListForDelete(r)
  PROVE  AInv'
<1>1. pc[r] = "list" /\ told[r] = "none" /\ UNCHANGED <<rows, wallet, params, text, shown, overlapped>>
  BY DEF AInv, Types, Asked, ListForDeposit, ListForWithdrawal, ListForDelete
<1>2. Shown(r)' BY <1>1 DEF AInv, Shown, Credited
<1>3. ASSUME NEW what, what \notin {"none", "Ok"}, End(r, what) PROVE AInv'
  <2>1. Moved(r, "done", what) BY <1>1, <1>3 DEF End, Moved
  <2>2. Asked(r)' /\ Alone(r)'
    BY <1>1, <2>1 DEF AInv, Types, Asked, Alone, Moved
  <2>3. shown' = [shown EXCEPT ![r] = shown'[r]] BY <1>1 DEF AInv, Types
  <2> QED BY <1>1, <1>2, <1>3, <2>1, <2>2, <2>3, AInvMoved DEF InFlight, Awaits
<1>4. ASSUME NEW where \in Awaits, Await(r, where), Asked(r)', Alone(r)' PROVE AInv'
  <2>1. Moved(r, where, "none") BY <1>1, <1>4 DEF AInv, Types, Await, Moved
  <2>2. shown' = [shown EXCEPT ![r] = shown'[r]] BY <1>1 DEF AInv, Types
  <2> QED BY <1>1, <1>2, <1>4, <2>1, <2>2, AInvMoved DEF InFlight, Awaits
<1>5. CASE ListForDeposit(r)
  <2>1. CASE Await(r, "address") /\ Listed(r) = {} /\ Currency(params[r].asset) = "BTC"
    <3>1. Asked(r)'
      BY <1>1, <1>5, <2>1 DEF AInv, Types, Asked, Await, ListForDeposit
    <3>2. params[r].asset = Currency(params[r].asset) =>
             \A row \in rows : row.kind = "deposit" /\ row.user = params[r].user => row.currency # "BTC"
      BY <1>5, <2>1 DEF Listed, list_addrs, Kind, ListForDeposit
    <3>3. params[r].asset # Currency(params[r].asset) => Excused(params[r].user)'
      BY <1>1, <1>5 DEF Excused, ListForDeposit
    <3>4. Alone(r)' BY <1>1, <3>2, <3>3 DEF Alone
    <3> QED BY <1>4, <2>1, <3>1, <3>4 DEF Awaits
  <2>2. CASE End(r, "AlreadyExists") \/ End(r, "Panic") BY <1>3, <2>2
  <2> QED BY <1>5, <2>1, <2>2 DEF ListForDeposit
<1>6. CASE ListForWithdrawal(r)
  <2>1. CASE Await(r, "insert")
    <3>1. Asked(r)' /\ Alone(r)'
      BY <1>1, <1>6, <2>1 DEF AInv, Types, Asked, Alone, Await, ListForWithdrawal
    <3> QED BY <1>4, <2>1, <3>1 DEF Awaits
  <2>2. CASE End(r, "AlreadyExists") BY <1>3, <2>2
  <2> QED BY <1>6, <2>1, <2>2 DEF ListForWithdrawal
<1>7. CASE ListForDelete(r)
  <2>1. CASE Await(r, "delete") /\ \E row \in Listed(r) : row.text = params[r].text
    <3>1. Withdrawn(params[r].user, params[r].text)
      BY <1>7, <2>1 DEF Listed, list_addrs, Kind, ListForDelete, AInv, Sound
    <3>2. Withdrawn(params[r].user, params[r].text)'
      BY <1>1, <2>1, <3>1 DEF Withdrawn, Await
    <3>3. Asked(r)' /\ Alone(r)'
      BY <1>1, <1>7, <2>1, <3>2 DEF AInv, Types, Asked, Alone, Await, ListForDelete
    <3> QED BY <1>4, <2>1, <3>3 DEF Awaits
  <2>2. CASE End(r, "AddressNotFound") BY <1>3, <2>2
  <2> QED BY <1>7, <2>1, <2>2 DEF ListForDelete
<1> QED BY <1>5, <1>6, <1>7

(* bitcoind's answer, its address new to the wallet.                       *)
LEMMA AInvAddress ==
  ASSUME AInv, NEW r \in Requests, get_new_address(r)
  PROVE  AInv'
<1>1. PICK addr \in Addrs : Issue(r, addr) /\ text' = [text EXCEPT ![r] = addr]
  BY DEF get_new_address
<1>2. pc[r] = "address" /\ told[r] = "none" /\ UNCHANGED <<rows, params, shown, overlapped, told>>
      /\ pc' = [pc EXCEPT ![r] = "insert"]
  BY DEF get_new_address, Await, AInv, Types, Asked
<1>3. Types' BY <1>1, <1>2 DEF AInv, Types, Awaits
<1>4. Frame(r) BY <1>1, <1>2 DEF AInv, Types, Frame, Issue, Label
<1>5. Asked(r)'
  BY <1>1, <1>2 DEF AInv, Types, Asked, Issue, Label, Credited
<1>6. Alone(r)' BY <1>2, <1>4, Monotone DEF AInv, Types, Alone, Excused
<1>7. Stored(r)' BY <1>2 DEF Stored
<1>8. Shown(r)' BY <1>2, <1>4, Monotone DEF AInv, Shown, Credited
<1>9. Depositing(r)' => Depositing(r)
  BY <1>2 DEF Depositing, InFlight, Awaits
<1> QED BY <1>2, <1>3, <1>4, <1>5, <1>6, <1>7, <1>8, <1>9, AInvStep DEF Own

(* Every way a handler ends after its last statement, whether it hears of  *)
(* the effect or not.                                                      *)
LEMMA AInvEnd ==
  ASSUME AInv, NEW r \in Requests, NEW what \in {"Ok", "Duplicate", "Error"}, InFlight(r),
         End(r, what), UNCHANGED <<params, text, shown, overlapped>>,
         \/ UNCHANGED <<rows, wallet>> /\ (what = "Ok" => params[r].op # "create_deposit")
         \/ what # "Ok" /\ UNCHANGED rows /\ \E addr \in Addrs : Issue(r, addr)
         \/ /\ pc[r] = "insert" /\ what # "Duplicate"
            /\ rows' = rows \union {NewRow(r)} /\ UNCHANGED wallet
         \/ pc[r] = "delete" /\ rows' = rows \ Deleted(r) /\ UNCHANGED wallet
  PROVE  AInv'
<1>1. pc[r] \notin {"idle", "done"} /\ pc'[r] = "done" /\ told'[r] = what
  BY DEF InFlight, Awaits, AInv, Types, End
<1>2. Types' BY DEF AInv, Types, End
<1>3. Frame(r)
  <2>1. \A q \in Requests \ {r} :
          /\ pc'[q] = pc[q] /\ params'[q] = params[q] /\ text'[q] = text[q]
          /\ told'[q] = told[q] /\ shown'[q] = shown[q]
    BY DEF AInv, Types, End
  <2>2. \A a \in DOMAIN wallet : a \in DOMAIN wallet' /\ wallet'[a] = wallet[a]
    BY DEF Issue, Label
  <2>3. ASSUME NEW row \in rows', row \notin rows
        PROVE  pc[r] = "insert" /\ row = NewRow(r) /\ what \in {"Ok", "Error"}
    BY <2>3
  <2>4. ASSUME NEW row \in rows, row \notin rows' PROVE Withdrawn(row.user, row.text)
    BY <2>4 DEF Deleted, AInv, Asked
  <2> QED BY <1>1, <2>1, <2>2, <2>3, <2>4 DEF Frame
<1>4. Asked(r)' /\ Alone(r)'
  BY <1>1, <1>2 DEF Asked, Alone
<1>5. Shown(r)' BY <1>1, <1>3, Monotone DEF AInv, Shown, Credited
<1>6. Stored(r)'
  <2>1. SUFFICES ASSUME params[r].op = "create_deposit", what = "Ok" PROVE NewRow(r)' \in rows'
    BY <1>1 DEF Stored
  <2>2. pc[r] # "delete" BY <2>1 DEF AInv, Asked
  <2> QED BY <2>1, <2>2 DEF NewRow, Kind
<1>7. ~Depositing(r)' BY <1>1 DEF Depositing, InFlight, Awaits
<1> QED BY <1>1, <1>2, <1>3, <1>4, <1>5, <1>6, <1>7, AInvStep DEF Own

(* Every behaviour of the addresses satisfies the invariant.               *)
THEOREM AddressesInvariant == Spec => []AInv
<1>1. Init => AInv BY AInvInit
<1>2. AInv /\ [Next]_vars => AInv'
  <2> SUFFICES ASSUME AInv, [Next]_vars PROVE AInv' OBVIOUS
  <2>1. CASE UNCHANGED vars
    <3>1. Types' /\ UNCHANGED <<rows, wallet, pc, params, text, told, shown, overlapped>>
      BY <2>1 DEF vars, AInv, Types
    <3>2. ASSUME NEW r \in Requests PROVE Asked(r)' /\ Alone(r)' /\ Stored(r)' /\ Shown(r)'
      BY <3>1 DEF AInv, Asked, Alone, Stored, Shown, Credited, Withdrawn, Excused, NewRow, Kind
    <3>3. ASSUME NEW r \in Requests, NEW q \in Requests \ {r} PROVE Overlap(r, q)'
      BY <3>1 DEF AInv, Overlap, Depositing, InFlight
    <3>4. ASSUME NEW row \in rows' PROVE Sound(row)'
      BY <3>1 DEF AInv, Sound, Credited, Withdrawn
    <3>5. ASSUME NEW user, Excused(user) PROVE Excused(user)'
      BY <3>1, <3>5 DEF Excused
    <3> QED BY <3>1, <3>2, <3>3, <3>4, <3>5 DEF AInv
  <2>2. ASSUME NEW r \in Requests, NEW p \in Menu, Receive(r, p) PROVE AInv'
    BY <2>2, AInvReceive
  <2>3. ASSUME NEW r \in Requests, ListForDeposit(r) \/ ListForWithdrawal(r) \/ ListForDelete(r)
        PROVE  AInv'
    BY <2>3, AInvList
  <2>4. ASSUME NEW r \in Requests, ShowList(r) \/ ShowHome(r) PROVE AInv'
    BY <2>4, AInvShow
  <2>5. ASSUME NEW r \in Requests, get_new_address(r) PROVE AInv'
    BY <2>5, AInvAddress
  <2>6. ASSUME NEW r \in Requests, Insert(r) \/ InsertConflict(r) \/ Delete(r) PROVE AInv'
    BY <2>6, AInvEnd DEF Insert, InsertConflict, Delete, InFlight, Awaits
  <2>7. ASSUME NEW r \in Requests, Interrupt(r) PROVE AInv'
    BY <2>7, AInvEnd DEF Interrupt
  <2> QED BY <2>1, <2>2, <2>3, <2>4, <2>5, <2>6, <2>7 DEF Next
<1> QED BY <1>1, <1>2, PTL DEF Spec

(* An address any page shows a user for deposits is one bitcoind generated *)
(* under that user's label (deposit_list_addrs, withdraw_list_addrs,       *)
(* fetch_user_details), whatever failed or interleaved before.             *)
THEOREM ShownAddressesAreCredited == Spec => []ShownAddressIsCredited
<1>1. AInv => ShownAddressIsCredited
  BY DEF AInv, Shown, Credited, ShownAddressIsCredited
<1> QED BY <1>1, AddressesInvariant, PTL

(* A second deposit address of a user for an asset comes of overlapping    *)
(* requests or of the request's spelling of the asset, and of nothing else *)
(* (deposit_create_addr).                                                  *)
THEOREM SecondDepositsExplained == Spec => []SecondDepositCause
<1>1. AInv => SecondDepositCause
  BY DEF AInv, Excused, SecondDepositCause
<1> QED BY <1>1, AddressesInvariant, PTL

(* A stored deposit address goes only with a withdrawal address of the     *)
(* same user and text (withdraw_delete_addr, whose DELETE does not look at *)
(* the kind).                                                              *)
THEOREM LostDepositsExplained == Spec => []DepositLostCause
<1>1. AInv => DepositLostCause
  BY DEF AInv, Stored, Withdrawn, DepositLostCause
<1> QED BY <1>1, AddressesInvariant, PTL
=============================================================================
