------------------------------ MODULE Deposits ------------------------------
(***************************************************************************)
(* Crediting chain deposits: a balance request first runs                  *)
(* update_user_accounts, which in one database transaction reads the       *)
(* deposits already journalled, asks bitcoind for the wallet's recent      *)
(* transactions with the user's label, and inserts a CHAIN.DEPOSIT row for *)
(* each one it did not read.  Requests overlap; the unique index on        *)
(* account_tx_journal.txid (migration 0007) is all that orders them.       *)
(*                                                                         *)
(* The database runs at READ COMMITTED: an INSERT of a txid that another   *)
(* open transaction has inserted waits for that transaction to end.  A     *)
(* transaction that nobody waits for any more stays open in the database   *)
(* until its ROLLBACK or its COMMIT gets there.                            *)
(*                                                                         *)
(* Amounts and the bitcoin account of a row add nothing and are left out.  *)
(* A user without a BTC account row gets no deposits: RowNotFound ends the *)
(* update before it has done anything.  No code of the repository outside  *)
(* its tests creates such a row, and the one route that calls              *)
(* update_user_accounts has two Path extractors, which axum rejects: the   *)
(* module is about what the function does for whoever calls it.            *)
(***************************************************************************)
EXTENDS Naturals, Sequences, FiniteSets, SequencesExt

CONSTANTS
    Users,
    Accounts,     \* the users with a BTC account row
    Txids,
    Outputs,      \* [Txids -> Seq(Users)]: whose addresses a transaction pays
    Requests,     \* updates in flight at once
    Window,       \* listtransactions' default count (10)
    MaxFailures   \* bound: failed statements, calls and timeouts

ASSUME AccountsAssumption == Accounts \subseteq Users
ASSUME OutputsAssumption == Outputs \in [Txids -> Seq(Users)]
ASSUME WindowAssumption == Window \in Nat \ {0}
ASSUME MaxFailuresAssumption == MaxFailures \in Nat

VARIABLES
    wallet,     \* bitcoind's wallet: outputs received, oldest first
    journal,    \* committed CHAIN.DEPOSIT rows
    pc,         \* where each request is: "idle", "list" or "insert"; or gone, and its
                \* transaction still open: "rollback", or "commit" if that was sent
    user,       \* whose balance it asks for
    known,      \* tx_journal: the txids it read
    txs,        \* where in the wallet the outputs are that bitcoind listed
    todo,       \* those of them the loop has not looked at yet
    pend,       \* rows it inserted in its open transaction
    failures

vars == <<wallet, journal, pc, user, known, txs, todo, pend, failures>>

AnyUser == CHOOSE u \in Users : TRUE     \* what user holds while p is idle

Init == /\ wallet = <<>>
        /\ journal = <<>>
        /\ pc = [p \in Requests |-> "idle"]
        /\ user = [p \in Requests |-> AnyUser]
        /\ known = [p \in Requests |-> {}]
        /\ txs = [p \in Requests |-> {}]
        /\ todo = [p \in Requests |-> {}]
        /\ pend = [p \in Requests |-> <<>>]
        /\ failures = 0

Entry(txid, i) == [txid |-> txid, vout |-> i, user |-> Outputs[txid][i]]

(* A transaction reaches the wallet with all its outputs.                  *)
Receive(txid) ==
    /\ \A i \in DOMAIN wallet : wallet[i].txid # txid
    /\ wallet' = wallet \o [i \in DOMAIN Outputs[txid] |-> Entry(txid, i)]
    /\ UNCHANGED <<journal, pc, user, known, txs, todo, pend, failures>>

(* Mutant: the rows read are not restricted to the user's account.         *)
Begin_AnyAccount(p, u) ==
    /\ pc[p] = "idle"
    /\ u \in Accounts
    /\ pc' = [pc EXCEPT ![p] = "list"]
    /\ user' = [user EXCEPT ![p] = u]
    /\ known' = [known EXCEPT ![p] = {row.txid : row \in ToSet(journal)}]
    /\ UNCHANGED <<wallet, journal, txs, todo, pend, failures>>

(* The transaction begins, the two accounts are found and the user's       *)
(* deposits read: of the three SELECTs only the last reads what other      *)
(* requests write.                                                         *)
Begin(p, u) ==
    /\ pc[p] = "idle"
    /\ u \in Accounts
    /\ pc' = [pc EXCEPT ![p] = "list"]
    /\ user' = [user EXCEPT ![p] = u]
    /\ known' = [known EXCEPT ![p] = {row.txid : row \in {r \in ToSet(journal) : r.user = u}}]
    /\ UNCHANGED <<wallet, journal, txs, todo, pend, failures>>

(* listtransactions: the last Window outputs with the user's label.        *)
Listed(u) ==
    LET all == {i \in DOMAIN wallet : wallet[i].user = u}
    IN {i \in all : Cardinality({j \in all : j >= i}) <= Window}

list_transactions(p) ==
    /\ pc[p] = "list"
    /\ txs' = [txs EXCEPT ![p] = Listed(user[p])]
    /\ todo' = [todo EXCEPT ![p] = Listed(user[p])]
    /\ pc' = [pc EXCEPT ![p] = "insert"]
    /\ UNCHANGED <<wallet, journal, user, known, pend, failures>>

(* Mutant: the listed transactions are walked in hash order.               *)
At_HashOrder(p, i) == pc[p] = "insert" /\ i \in todo[p]

(* The loop is at output i: bitcoind lists the oldest first.               *)
At(p, i) == pc[p] = "insert" /\ i \in todo[p] /\ \A j \in todo[p] : i <= j

(* "continue": this deposit was read from the journal.                     *)
SkipKnown(p, i) ==
    /\ At(p, i)
    /\ wallet[i].txid \in known[p]
    /\ todo' = [todo EXCEPT ![p] = @ \ {i}]
    /\ UNCHANGED <<wallet, journal, pc, user, known, txs, pend, failures>>

Holds(rows, txid) == \E k \in DOMAIN rows : rows[k].txid = txid

(* The INSERT p is at, and whom it waits for.                              *)
Inserting(p, i) == At(p, i) /\ wallet[i].txid \notin known[p]
WaitsAt(p, i, q) == p # q /\ Inserting(p, i) /\ Holds(pend[q], wallet[i].txid)
WaitsFor(p, q) == \E i \in todo[p] : WaitsAt(p, i, q)

(* Mutant: account_tx_journal has no unique index on txid.                 *)
Unique_Off(p, i) == TRUE

(* The unique index admits the row.                                        *)
Unique(p, i) == ~Holds(journal, wallet[i].txid) /\ ~Holds(pend[p], wallet[i].txid)

Insert(p, i) ==
    /\ Inserting(p, i)
    /\ \A q \in Requests : ~WaitsAt(p, i, q)
    /\ Unique(p, i)
    /\ pend' = [pend EXCEPT ![p] = Append(@, wallet[i])]
    /\ todo' = [todo EXCEPT ![p] = @ \ {i}]
    /\ UNCHANGED <<wallet, journal, pc, user, known, txs, failures>>

(* check_bitcoind leaves without waiting for the end of its transaction:   *)
(* the result is ignored.                                                  *)
Leave(p, ending) ==
    /\ pc' = [pc EXCEPT ![p] = ending]
    /\ todo' = [todo EXCEPT ![p] = {}]
    /\ UNCHANGED <<wallet, journal, user, known, txs, pend>>

(* The INSERT violates the index: "?" leaves check_bitcoind, and dropping  *)
(* the transaction sends its ROLLBACK.                                     *)
InsertConflict(p, i) ==
    /\ Inserting(p, i)
    /\ \A q \in Requests : ~WaitsAt(p, i, q)
    /\ ~Unique(p, i)
    /\ Leave(p, "rollback")
    /\ UNCHANGED failures

(* A statement or the call to bitcoind fails, or TimeoutLayer drops the    *)
(* request, its COMMIT perhaps under way.                                  *)
Fail(p) ==
    /\ pc[p] \in {"list", "insert"}
    /\ failures < MaxFailures
    /\ failures' = failures + 1
    /\ Leave(p, IF pc[p] = "insert" /\ todo[p] = {} THEN "commit" ELSE "rollback")

(* The transaction has ended, and the next request may take its place.     *)
Ended(p) ==
    /\ pc' = [pc EXCEPT ![p] = "idle"]
    /\ txs' = [txs EXCEPT ![p] = {}]
    /\ pend' = [pend EXCEPT ![p] = <<>>]
    /\ known' = [known EXCEPT ![p] = {}]
    /\ user' = [user EXCEPT ![p] = AnyUser]
    /\ UNCHANGED <<wallet, todo, failures>>

Commit(p) ==
    /\ (pc[p] = "insert" /\ todo[p] = {}) \/ pc[p] = "commit"
    /\ journal' = journal \o pend[p]
    /\ Ended(p)

(* The database rolls back, also a transaction whose COMMIT was lost.      *)
Rollback(p) ==
    /\ pc[p] \in {"rollback", "commit"}
    /\ Ended(p)
    /\ UNCHANGED journal

Next == \/ \E txid \in Txids : Receive(txid)
        \/ \E p \in Requests : \/ \E u \in Users : Begin(p, u)
                               \/ list_transactions(p)
                               \/ \E i \in todo[p] : SkipKnown(p, i) \/ Insert(p, i) \/ InsertConflict(p, i)
                               \/ Fail(p) \/ Commit(p) \/ Rollback(p)

Spec == Init /\ [][Next]_vars
-----------------------------------------------------------------------------
(* However balance requests overlap, fail or repeat, every credit is for   *)
(* an output the user received, and no output is credited twice.           *)
CreditedAtMostOnce ==
    /\ ToSet(journal) \subseteq ToSet(wallet)
    /\ \A i, j \in DOMAIN journal : journal[i] = journal[j] => i = j

(* Open transactions never wait for each other's txids in a circle, of two *)
(* or of more: a request that waits for one that waits itself is behind it *)
(* in the wallet, whose order every request inserts in.                    *)
NoLockCycle ==
    \A p, q, s \in Requests : WaitsFor(p, q) /\ WaitsFor(q, s) =>
        \A i \in todo[p], j \in todo[q] : At(p, i) /\ At(q, j) => i < j

(* An update leaves nothing out: whatever the overlapping requests, also   *)
(* of other users, commit between its reads and its INSERTs, each output   *)
(* that bitcoind listed and the loop has passed is in the journal or among *)
(* the rows about to be committed.  Nothing is skipped because its txid    *)
(* was credited to someone else, or for another output.                    *)
ListedIsCredited ==
    \A p \in Requests : pc[p] = "insert" =>
        \A i \in txs[p] \ todo[p] : wallet[i] \in ToSet(journal) \union ToSet(pend[p])
=============================================================================
