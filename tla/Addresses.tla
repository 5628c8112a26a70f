----------------------------- MODULE Addresses -----------------------------
(***************************************************************************)
(* The table user_addresses, the handlers that write it                    *)
(* (deposit_create_addr, withdraw_create_addr and withdraw_delete_addr)    *)
(* and those that show it (deposit_list_addrs, withdraw_list_addrs and the *)
(* home pages).  A writer lists the user's addresses, decides, and writes  *)
(* in a later statement with no transaction around the two; requests       *)
(* interleave, and a statement or the call to bitcoind may fail or be cut  *)
(* off by the request timeout, with or without having taken effect.        *)
(*                                                                         *)
(* Assets keep their spelling: a request says "btc" or "BTC", the table    *)
(* stores what Asset's Display prints, and the lists are compared with     *)
(* the spelling of the request.                                            *)
(***************************************************************************)
EXTENDS FiniteSets

CONSTANTS
    Users, Requests,
    Addrs,      \* address texts, those bitcoind hands out included
    Menu        \* the requests clients make

Pages == {"list_deposit", "list_withdrawal", "home"}
Ops == {"create_deposit", "create_withdrawal", "delete_withdrawal"} \union Pages
Spellings == {"btc", "BTC", "eth", "ETH"}

ASSUME MenuAssumption ==
    \A p \in Menu : p.op \in Ops /\ p.user \in Users /\ p.text \in Addrs

VARIABLES
    rows,       \* user_addresses
    wallet,     \* bitcoind: the label of each address it generated
    pc,         \* the await each handler is at
    params,     \* what each request asked for
    text,       \* the address text a handler is about to store
    told,       \* how each request ended
    shown,      \* the rows on the page a request got
    overlapped  \* history: users who had two create_deposit in flight at once

vars == <<rows, wallet, pc, params, text, told, shown, overlapped>>

NoRequest == [op |-> "none", user |-> "none", asset |-> "none", text |-> "none"]

(* Display for Asset: what a parsed spelling is stored as.                 *)
Currency(spelling) == IF spelling \in {"btc", "BTC"} THEN "BTC" ELSE "ETH"

Kind(r) == IF params[r].op = "create_deposit" THEN "deposit" ELSE "withdrawal"

(* The row a create handler inserts.                                       *)
NewRow(r) == [user |-> params[r].user, text |-> text[r], kind |-> Kind(r),
              currency |-> Currency(params[r].asset)]

Awaits == {"list", "address", "insert", "delete"}
InFlight(r) == pc[r] \in Awaits

Init == /\ rows = {}
        /\ wallet = <<>>
        /\ pc = [r \in Requests |-> "idle"]
        /\ params = [r \in Requests |-> NoRequest]
        /\ text = [r \in Requests |-> "none"]
        /\ told = [r \in Requests |-> "none"]
        /\ shown = [r \in Requests |-> {}]
        /\ overlapped = {}

End(r, what) == pc' = [pc EXCEPT ![r] = "done"] /\ told' = [told EXCEPT ![r] = what]
Await(r, where) == pc' = [pc EXCEPT ![r] = where] /\ UNCHANGED told
-----------------------------------------------------------------------------
(* A request arrives; one for an unknown asset is refused at once.         *)
Receive(r, p) ==
    /\ pc[r] = "idle"
    /\ params' = [params EXCEPT ![r] = p]
    /\ text' = [text EXCEPT ![r] = p.text]
    /\ IF p.op \in Pages \/ p.asset \in Spellings THEN Await(r, "list") ELSE End(r, "InvalidAsset")
    /\ overlapped' = IF /\ p.op = "create_deposit"
                        /\ \E q \in Requests : params[q].op = p.op /\ params[q].user = p.user /\ InFlight(q)
                     THEN overlapped \union {p.user} ELSE overlapped
    /\ UNCHANGED <<rows, wallet, shown>>

(* Mutant: WHERE kind = ... alone.                                         *)
list_addrs_AnyUser(user, kind) == {row \in rows : row.kind = kind}

(* list_deposit_addrs, list_withdrawal_addrs: the user's rows of a kind.   *)
list_addrs(user, kind) == {row \in rows : row.user = user /\ row.kind = kind}

(* The listed rows whose stored currency is spelled as in the request.     *)
Listed(r) == {row \in list_addrs(params[r].user, Kind(r)) : row.currency = params[r].asset}

(* Both list handlers answer with the user's deposit addresses.            *)
ShowList(r) ==
    /\ pc[r] = "list"
    /\ params[r].op \in {"list_deposit", "list_withdrawal"}
    /\ shown' = [shown EXCEPT ![r] = list_addrs(params[r].user, "deposit")]
    /\ End(r, "Ok")
    /\ UNCHANGED <<rows, wallet, params, text, overlapped>>

(* fetch_user_details: of the deposit rows of a currency, the one the      *)
(* SELECT yields last is the deposit address of the page.                  *)
ShowHome(r) ==
    LET deposits == list_addrs(params[r].user, "deposit")
    IN  /\ pc[r] = "list"
        /\ params[r].op = "home"
        /\ \E last \in SUBSET deposits :
              /\ \A row \in deposits :
                    Cardinality({d \in last : d.currency = row.currency}) = 1
              /\ shown' = [shown EXCEPT ![r] =
                             last \union list_addrs(params[r].user, "withdrawal")]
        /\ End(r, "Ok")
        /\ UNCHANGED <<rows, wallet, params, text, overlapped>>

(* Mutant: the list is not consulted.                                      *)
ListForDeposit_Skip(r) ==
    /\ pc[r] = "list"
    /\ params[r].op = "create_deposit"
    /\ Await(r, "address")
    /\ UNCHANGED <<rows, wallet, params, text, shown, overlapped>>

(* A listed address refuses a second one; for Ether the handler is todo!(). *)
ListForDeposit(r) ==
    /\ pc[r] = "list"
    /\ params[r].op = "create_deposit"
    /\ CASE Listed(r) # {} -> End(r, "AlreadyExists")
         [] Listed(r) = {} /\ Currency(params[r].asset) = "BTC" -> Await(r, "address")
         [] OTHER -> End(r, "Panic")
    /\ UNCHANGED <<rows, wallet, params, text, shown, overlapped>>

ListForWithdrawal(r) ==
    /\ pc[r] = "list"
    /\ params[r].op = "create_withdrawal"
    /\ IF \E row \in Listed(r) : row.text = params[r].text
       THEN End(r, "AlreadyExists") ELSE Await(r, "insert")
    /\ UNCHANGED <<rows, wallet, params, text, shown, overlapped>>

(* Mutant: the list is not consulted.                                      *)
ListForDelete_Skip(r) ==
    /\ pc[r] = "list"
    /\ params[r].op = "delete_withdrawal"
    /\ Await(r, "delete")
    /\ UNCHANGED <<rows, wallet, params, text, shown, overlapped>>

ListForDelete(r) ==
    /\ pc[r] = "list"
    /\ params[r].op = "delete_withdrawal"
    /\ IF \E row \in Listed(r) : row.text = params[r].text
       THEN Await(r, "delete") ELSE End(r, "AddressNotFound")
    /\ UNCHANGED <<rows, wallet, params, text, shown, overlapped>>

(* The wallet gains an address.                                            *)
Label(addr, label) ==
    [a \in DOMAIN wallet \union {addr} |-> IF a = addr THEN label ELSE wallet[a]]

(* bitcoind generates an address that carries the user id as its label.    *)
Issue(r, addr) == addr \notin DOMAIN wallet /\ wallet' = Label(addr, params[r].user)

get_new_address(r) ==
    /\ pc[r] = "address"
    /\ \E addr \in Addrs : Issue(r, addr) /\ text' = [text EXCEPT ![r] = addr]
    /\ Await(r, "insert")
    /\ UNCHANGED <<rows, params, shown, overlapped>>

(* UNIQUE(address_text, user_id, currency), whatever the kind.             *)
Conflicts(r) == \E row \in rows : /\ row.user = NewRow(r).user
                                  /\ row.text = NewRow(r).text
                                  /\ row.currency = NewRow(r).currency

Insert(r) ==
    /\ pc[r] = "insert"
    /\ ~Conflicts(r)
    /\ rows' = rows \union {NewRow(r)}
    /\ End(r, "Ok")
    /\ UNCHANGED <<wallet, params, text, shown, overlapped>>

(* The unwrap() of a unique violation.                                     *)
InsertConflict(r) ==
    /\ pc[r] = "insert"
    /\ Conflicts(r)
    /\ End(r, "Duplicate")
    /\ UNCHANGED <<rows, wallet, params, text, shown, overlapped>>

(* WHERE user_id = $1 AND address_text = $2: any kind, any currency.       *)
Deleted(r) == {row \in rows : row.user = params[r].user /\ row.text = params[r].text}

Delete(r) ==
    /\ pc[r] = "delete"
    /\ rows' = rows \ Deleted(r)
    /\ End(r, "Ok")
    /\ UNCHANGED <<wallet, params, text, shown, overlapped>>

(* The statement or call the handler awaits fails, or the request times    *)
(* out; either way it may have taken effect.                               *)
Interrupt(r) ==
    /\ InFlight(r)
    /\ \/ UNCHANGED <<rows, wallet>>
       \/ /\ pc[r] = "address"
          /\ \E addr \in Addrs : Issue(r, addr)
          /\ UNCHANGED rows
       \/ /\ pc[r] = "insert" /\ ~Conflicts(r)
          /\ rows' = rows \union {NewRow(r)}
          /\ UNCHANGED wallet
       \/ /\ pc[r] = "delete"
          /\ rows' = rows \ Deleted(r)
          /\ UNCHANGED wallet
    /\ End(r, "Error")
    /\ UNCHANGED <<params, text, shown, overlapped>>

Next == \E r \in Requests :
    \/ \E p \in Menu : Receive(r, p)
    \/ ListForDeposit(r) \/ ListForWithdrawal(r) \/ ListForDelete(r)
    \/ ShowList(r) \/ ShowHome(r)
    \/ get_new_address(r)
    \/ Insert(r) \/ InsertConflict(r) \/ Delete(r)
    \/ Interrupt(r)

Spec == Init /\ [][Next]_vars
-----------------------------------------------------------------------------
(* An address any page shows to a user for deposits is one bitcoind        *)
(* generated under that user's label, which is what update_user_accounts   *)
(* credits by: no interleaving of requests, failed INSERT or deletion      *)
(* hands one user's address to another or shows one nobody is credited by. *)
ShownAddressIsCredited ==
    \A r \in Requests : \A row \in shown[r] : row.kind = "deposit" =>
        row.text \in DOMAIN wallet /\ wallet[row.text] = params[r].user

(* A user has a second deposit address for an asset only if two requests   *)
(* overlapped or one spelled the asset as the table does not: sequential   *)
(* requests for "BTC" get AlreadyExists (deposit_create_addr).  A request  *)
(* overlaps the next one while its INSERT is under way: one that was cut   *)
(* off and lands after the next request's list counts as overlapping it.   *)
SecondDepositCause ==
    \A a, b \in rows :
        /\ a.kind = "deposit" /\ b.kind = "deposit"
        /\ a.user = b.user /\ a.currency = b.currency
        /\ a # b
        => \/ a.user \in overlapped
           \/ \E r \in Requests : /\ params[r].op = "create_deposit"
                                  /\ params[r].user = a.user
                                  /\ params[r].asset # Currency(params[r].asset)

(* A deposit address disappears only if its user has had the same text as  *)
(* a withdrawal address: the DELETE does not look at the kind, but the     *)
(* list before it does.                                                    *)
DepositLostCause ==
    \A r \in Requests :
        params[r].op = "create_deposit" /\ told[r] = "Ok" =>
            \/ NewRow(r) \in rows
            \/ \E q \in Requests : /\ params[q].op = "create_withdrawal"
                                   /\ params[q].user = params[r].user
                                   /\ params[q].text = text[r]
                                   /\ told[q] \in {"Ok", "Error"}
=============================================================================
