--------------------------- MODULE DepositsProofs ---------------------------
(***************************************************************************)
(* No output is credited twice and no requests wait in a circle, for any   *)
(* users, transactions and outputs, any number of requests in flight, any  *)
(* window of listtransactions and any number of failures.                  *)
(*                                                                         *)
(* The journal alone does not show it: DInv adds what the open             *)
(* transactions hold.  Their rows are of different txids (Apart), none of  *)
(* them is in the journal, and each comes from an output older than every  *)
(* output its request has still to look at (Ahead).  With the outputs of a *)
(* transaction next to each other in the wallet (Blocks), that order is    *)
(* what rules out a cycle of waits.                                        *)
(*                                                                         *)
(* That an update leaves nothing out needs more (LInv).  The loop skips a  *)
(* txid it knows to be credited; that this was for the very output it is   *)
(* at, and not for another output of the transaction to the same user,     *)
(* follows because a row only gets into the journal when all those others  *)
(* had left the list (Alone), which no output enters again (GoneStays).    *)
(***************************************************************************)
EXTENDS Deposits, SequenceTheorems, FiniteSetTheorems, TLAPS

Rows == [txid : Txids, vout : Nat, user : Users]

(* What every variable holds.                                              *)
Types ==
    /\ wallet \in Seq(Rows)
    /\ journal \in Seq(Rows)
    /\ pc \in [Requests -> {"idle", "list", "insert", "rollback", "commit"}]
    /\ todo \in [Requests -> SUBSET Nat]
    /\ pend \in [Requests -> Seq(Rows)]

(* The outputs of a transaction are next to each other in the wallet.      *)
Blocks ==
    \A i, j, k \in DOMAIN wallet :
        i < j /\ j < k /\ wallet[i].txid = wallet[k].txid => wallet[j].txid = wallet[i].txid

(* Every row is that of an output of the wallet.                           *)
Received(row) == \E k \in DOMAIN wallet : row = wallet[k]

(* The rows have different txids.                                          *)
Once(rows) == \A i, j \in DOMAIN rows : rows[i].txid = rows[j].txid => i = j

(* No txid is in both.                                                     *)
Apart(rows, others) ==
    \A i \in DOMAIN rows, j \in DOMAIN others : rows[i].txid # others[j].txid

(* What p inserted is older than what it has yet to look at.               *)
Ahead(p) ==
    \A i \in DOMAIN pend[p] :
        \E k \in DOMAIN wallet : pend[p][i] = wallet[k] /\ \A t \in todo[p] : k < t

(* The inductive invariant.                                                *)
DInv ==
    /\ Types
    /\ Blocks
    /\ Once(journal) /\ \A i \in DOMAIN journal : Received(journal[i])
    /\ \A p \in Requests : /\ todo[p] \subseteq DOMAIN wallet
                           /\ pc[p] \in {"idle", "list"} => pend[p] = <<>>
                           /\ pc[p] # "insert" => todo[p] = {}
                           /\ Ahead(p) /\ Once(pend[p]) /\ Apart(journal, pend[p])
    /\ \A p, q \in Requests : p # q => Apart(pend[p], pend[q])

(* Concatenation by its elements: what the proofs use of it.               *)
LEMMA Concat ==
  ASSUME NEW S, NEW s \in Seq(S), NEW t \in Seq(S)
  PROVE  /\ s \o t \in Seq(S)
         /\ \A i \in DOMAIN s : i \in DOMAIN (s \o t) /\ (s \o t)[i] = s[i]
         /\ \A i \in DOMAIN (s \o t) :
               \/ i \in DOMAIN s /\ (s \o t)[i] = s[i]
               \/ i \notin DOMAIN s /\ i - Len(s) \in DOMAIN t /\ (s \o t)[i] = t[i - Len(s)]
  BY ConcatProperties

(* Before any request nothing is listed, inserted or journalled.           *)
LEMMA DInvInit == Init => DInv
  BY DEF Init, DInv, Types, Blocks, Once, Apart, Ahead, Received

(* A transaction reaches the wallet: the outputs before it stay where they *)
(* are.                                                                    *)
LEMMA DInvReceive ==
  ASSUME DInv, NEW txid \in Txids, Receive(txid)
  PROVE  DInv'
<1> DEFINE new == [i \in DOMAIN Outputs[txid] |-> Entry(txid, i)]
<1>1. new \in Seq(Rows)
  <2>1. Outputs[txid] \in Seq(Users) BY OutputsAssumption
  <2>2. DOMAIN new = 1..Len(Outputs[txid]) /\ Len(Outputs[txid]) \in Nat
    BY <2>1, LenProperties
  <2>3. \A i \in 1..Len(Outputs[txid]) : new[i] \in Rows
    BY <2>1, <2>2 DEF Entry, Rows
  <2>4. new \in [1..Len(Outputs[txid]) -> Rows] BY <2>2, <2>3
  <2> QED BY <2>2, <2>4, SeqDef
<1>2. \A i \in DOMAIN new : new[i].txid = txid BY DEF Entry
<1>3. wallet \in Seq(Rows) /\ wallet' = wallet \o new BY DEF DInv, Types, Receive
<1> HIDE DEF new
<1>4. wallet' \in Seq(Rows) BY <1>1, <1>3, Concat
<1>5. \A i \in DOMAIN wallet : i \in DOMAIN wallet' /\ wallet'[i] = wallet[i]
  BY <1>1, <1>3, Concat
<1>6. DOMAIN wallet = 1..Len(wallet) /\ DOMAIN wallet' = 1..Len(wallet') /\ Len(wallet) \in Nat
      /\ Len(wallet') \in Nat
  BY <1>3, <1>4, LenProperties
<1>7. \A i \in DOMAIN wallet' : i \in DOMAIN wallet \/ wallet'[i].txid = txid
  BY <1>1, <1>2, <1>3, Concat
<1>8. \A i \in DOMAIN wallet : wallet[i].txid # txid BY DEF Receive
<1>9. Blocks'
  <2>1. SUFFICES ASSUME NEW i \in DOMAIN wallet', NEW j \in DOMAIN wallet', NEW k \in DOMAIN wallet',
                        i < j, j < k, wallet'[i].txid = wallet'[k].txid
                 PROVE  wallet'[j].txid = wallet'[i].txid
    BY DEF Blocks
  <2>2. CASE k \in DOMAIN wallet
    <3>1. i \in DOMAIN wallet /\ j \in DOMAIN wallet BY <1>6, <2>1, <2>2
    <3> QED BY <1>5, <2>1, <2>2, <3>1 DEF DInv, Blocks
  <2>3. CASE k \notin DOMAIN wallet
    <3>1. i \notin DOMAIN wallet BY <1>5, <1>7, <1>8, <2>1, <2>3
    <3>2. j \notin DOMAIN wallet BY <1>6, <2>1, <3>1
    <3> QED BY <1>7, <3>1, <3>2
  <2> QED BY <2>2, <2>3
<1>10. UNCHANGED <<journal, pc, todo, pend>> BY DEF Receive
<1>11. \A i \in DOMAIN journal : Received(journal[i])'
  BY <1>5, <1>10 DEF DInv, Received
<1>12. ASSUME NEW p \in Requests PROVE Ahead(p)' /\ todo[p] \subseteq DOMAIN wallet'
  BY <1>5, <1>10 DEF DInv, Ahead
<1> QED BY <1>4, <1>9, <1>10, <1>11, <1>12 DEF DInv, Types, Once, Apart

(* A step of p that leaves the wallet, the journal and what p inserted     *)
(* alone; what it lists is in the wallet and comes after that.             *)
LEMMA DInvWalk ==
  ASSUME DInv, NEW p \in Requests, UNCHANGED <<wallet, journal, pend>>,
         pc' = [pc EXCEPT ![p] = pc'[p]], pc'[p] \in {"list", "insert", "rollback", "commit"},
         todo' = [todo EXCEPT ![p] = todo'[p]],
         todo'[p] \subseteq DOMAIN wallet, todo'[p] \subseteq todo[p] \/ pend[p] = <<>>,
         pc'[p] = "list" => pend[p] = <<>>, pc'[p] # "insert" => todo'[p] = {}
  PROVE  DInv'
<1>1. wallet \in Seq(Rows) BY DEF DInv, Types
<1>2. DOMAIN wallet \subseteq Nat BY <1>1, LenProperties
<1>3. Types' BY <1>2 DEF DInv, Types
<1>4. Blocks' /\ Once(journal)' /\ \A i \in DOMAIN journal : Received(journal[i])'
  BY DEF DInv, Blocks, Once, Received
<1>5. ASSUME NEW q \in Requests PROVE Ahead(q)'
  <2>1. CASE q = p BY <2>1 DEF DInv, Types, Ahead
  <2>2. CASE q # p
    <3>1. todo'[q] = todo[q] BY <2>2 DEF DInv, Types
    <3> QED BY <3>1 DEF DInv, Ahead
  <2> QED BY <2>1, <2>2
<1>6. ASSUME NEW q \in Requests
      PROVE  /\ todo'[q] \subseteq DOMAIN wallet'
             /\ pc'[q] \in {"idle", "list"} => pend'[q] = <<>>
             /\ pc'[q] # "insert" => todo'[q] = {}
             /\ Once(pend[q])' /\ Apart(journal, pend[q])'
  BY DEF DInv, Types, Once, Apart
<1>7. \A q, s \in Requests : q # s => Apart(pend[q], pend[s])'
  BY DEF DInv, Apart
<1> QED BY <1>3, <1>4, <1>5, <1>6, <1>7 DEF DInv

(* An INSERT the unique index admits, and no open transaction is in the    *)
(* way of: the row is new to the journal and to all open transactions.     *)
LEMMA DInvInsert ==
  ASSUME DInv, NEW p \in Requests, NEW i \in todo[p], Insert(p, i)
  PROVE  DInv'
<1> DEFINE row == wallet[i]
<1>1. wallet \in Seq(Rows) /\ pend[p] \in Seq(Rows) /\ i \in DOMAIN wallet /\ pc[p] = "insert"
  BY DEF DInv, Types, Insert, Inserting, At
<1>2. row \in Rows BY <1>1, ElementOfSeq, LenProperties
<1>3. /\ pend'[p] = Append(pend[p], row)
      /\ \A q \in Requests \ {p} : pend'[q] = pend[q] /\ todo'[q] = todo[q]
      /\ todo'[p] = todo[p] \ {i}
      /\ UNCHANGED <<wallet, journal, pc>>
  BY DEF Insert, DInv, Types
<1>4. \A t \in todo'[p] : i < t
  <2>1. i \in Nat /\ \A t \in todo[p] : t \in Nat /\ i <= t
    BY DEF DInv, Types, Insert, Inserting, At
  <2> QED BY <1>3, <2>1
<1>5. /\ \A j \in DOMAIN journal : journal[j].txid # row.txid
      /\ \A q \in Requests : \A j \in DOMAIN pend[q] : pend[q][j].txid # row.txid
  BY DEF Insert, Unique, Holds, WaitsAt
<1> HIDE DEF row
<1>6. /\ pend'[p] \in Seq(Rows)
      /\ \A j \in DOMAIN pend'[p] : \/ j \in DOMAIN pend[p] /\ pend'[p][j] = pend[p][j]
                                    \/ j = Len(pend[p]) + 1 /\ pend'[p][j] = row
  BY <1>1, <1>2, <1>3, AppendProperties, LenProperties
<1>7. Types'
  <2>1. pend' \in [Requests -> Seq(Rows)]
    <3>1. pend' = [pend EXCEPT ![p] = pend'[p]] BY DEF Insert, DInv, Types
    <3> QED BY <1>6, <3>1 DEF DInv, Types
  <2>2. todo' \in [Requests -> SUBSET Nat]
    <3>1. todo' = [todo EXCEPT ![p] = todo[p] \ {i}] BY DEF Insert
    <3> QED BY <3>1 DEF DInv, Types
  <2> QED BY <1>3, <2>1, <2>2 DEF DInv, Types
<1>8. Blocks' /\ Once(journal)' /\ \A j \in DOMAIN journal : Received(journal[j])'
  BY <1>3 DEF DInv, Blocks, Once, Received
<1>9. ASSUME NEW q \in Requests PROVE Ahead(q)'
  <2>1. CASE q = p
    <3>1. ASSUME NEW j \in DOMAIN pend'[p]
          PROVE  \E k \in DOMAIN wallet : pend'[p][j] = wallet[k] /\ \A t \in todo'[p] : k < t
      <4>1. CASE j \in DOMAIN pend[p] /\ pend'[p][j] = pend[p][j]
        BY <1>3, <4>1 DEF DInv, Ahead
      <4>2. CASE pend'[p][j] = row BY <1>1, <1>4, <4>2 DEF row
      <4> QED BY <1>6, <3>1, <4>1, <4>2
    <3> QED BY <1>3, <2>1, <3>1 DEF Ahead
  <2>2. CASE q # p
    <3>1. Ahead(q) /\ pend'[q] = pend[q] /\ todo'[q] = todo[q] BY <1>3, <2>2 DEF DInv
    <3> QED BY <1>3, <3>1 DEF Ahead
  <2> QED BY <2>1, <2>2
<1>10. Once(pend[p])' /\ Apart(journal, pend[p])'
  BY <1>3, <1>5, <1>6 DEF DInv, Once, Apart
<1>11. ASSUME NEW q \in Requests, q # p PROVE Once(pend[q])' /\ Apart(journal, pend[q])'
  BY <1>3, <1>11 DEF DInv, Once, Apart
<1>12. ASSUME NEW q \in Requests
       PROVE  /\ todo'[q] \subseteq DOMAIN wallet'
              /\ pc'[q] \in {"idle", "list"} => pend'[q] = <<>>
              /\ pc'[q] # "insert" => todo'[q] = {}
  BY <1>1, <1>3 DEF DInv
<1>13. ASSUME NEW q \in Requests, q # p PROVE Apart(pend[q], pend[p])' /\ Apart(pend[p], pend[q])'
  BY <1>3, <1>5, <1>6, <1>13 DEF DInv, Apart
<1>14. ASSUME NEW q \in Requests, NEW s \in Requests, q # s, q # p, s # p PROVE Apart(pend[q], pend[s])'
  BY <1>3, <1>14 DEF DInv, Apart
<1>15. ASSUME NEW q \in Requests, NEW s \in Requests, q # s PROVE Apart(pend[q], pend[s])'
  BY <1>13, <1>14, <1>15
<1>16. ASSUME NEW q \in Requests PROVE Once(pend[q])' /\ Apart(journal, pend[q])'
  BY <1>10, <1>11
<1>17. \A j \in DOMAIN journal' : Received(journal[j])' BY <1>3, <1>8
<1> QED BY <1>7, <1>8, <1>9, <1>12, <1>15, <1>16, <1>17 DEF DInv

(* p gives up and its transaction stays open.                              *)
LEMMA DInvLeave ==
  ASSUME DInv, NEW p \in Requests, NEW ending \in {"rollback", "commit"}, Leave(p, ending)
  PROVE  DInv'
<1>1. /\ todo' = [todo EXCEPT ![p] = todo'[p]] /\ todo'[p] = {}
      /\ pc' = [pc EXCEPT ![p] = pc'[p]] /\ pc'[p] = ending
      /\ UNCHANGED <<wallet, journal, pend>>
  BY DEF DInv, Types, Leave
<1> QED BY <1>1, DInvWalk

(* The transaction of p ends, rolled back or committed: its rows are gone  *)
(* or are in the journal, where they are new.                              *)
LEMMA DInvEnded ==
  ASSUME DInv, NEW p \in Requests, pc[p] # "insert" \/ todo[p] = {}, Ended(p),
         UNCHANGED journal \/ journal' = journal \o pend[p]
  PROVE  DInv'
<1>1. /\ pend' = [pend EXCEPT ![p] = <<>>] /\ todo' = todo /\ todo[p] = {}
      /\ pc' = [pc EXCEPT ![p] = "idle"] /\ UNCHANGED wallet
  BY DEF Ended, DInv
<1>2. /\ pend'[p] = <<>> /\ todo'[p] = {}
      /\ \A q \in Requests \ {p} : pend'[q] = pend[q] /\ todo'[q] = todo[q] /\ pc'[q] = pc[q]
  BY <1>1 DEF DInv, Types
<1>3. journal \in Seq(Rows) /\ pend[p] \in Seq(Rows) BY DEF DInv, Types
<1>4. journal' \in Seq(Rows)
  <2>1. journal \o pend[p] \in Seq(Rows) BY <1>3, Concat
  <2> QED BY <1>3, <2>1
<1>5. \A j \in DOMAIN journal' :
         \/ j \in DOMAIN journal /\ journal'[j] = journal[j]
         \/ j \notin DOMAIN journal /\ j - Len(journal) \in DOMAIN pend[p] /\ journal'[j] = pend[p][j - Len(journal)]
  BY <1>3, Concat
<1>6. Types' BY <1>1, <1>4 DEF DInv, Types
<1>7. Blocks' BY <1>1 DEF DInv, Blocks
<1>8. \A j \in DOMAIN journal' : Received(journal'[j])
  BY <1>5 DEF DInv, Received, Ahead
<1>9. Once(journal')
  <2>1. SUFFICES ASSUME NEW i \in DOMAIN journal', NEW j \in DOMAIN journal',
                        journal'[i].txid = journal'[j].txid
                 PROVE  i = j
    BY DEF Once
  <2>2. Once(journal) /\ Once(pend[p]) /\ Apart(journal, pend[p]) BY DEF DInv
  <2>3. i \in Nat /\ j \in Nat /\ Len(journal) \in Nat BY <1>3, <1>4, LenProperties
  <2>4. CASE i \in DOMAIN journal BY <1>5, <2>1, <2>2, <2>4 DEF Once, Apart
  <2>5. CASE j \in DOMAIN journal BY <1>5, <2>1, <2>2, <2>5 DEF Once, Apart
  <2>6. CASE i \notin DOMAIN journal /\ j \notin DOMAIN journal
    <3>1. i - Len(journal) = j - Len(journal) BY <1>5, <2>1, <2>2, <2>6 DEF Once
    <3> QED BY <2>3, <3>1
  <2> QED BY <2>4, <2>5, <2>6
<1>10. ASSUME NEW q \in Requests PROVE Apart(journal, pend[q])'
  <2>1. CASE q = p BY <1>2, <2>1 DEF Apart
  <2>2. CASE q # p
    <3>1. Apart(journal, pend[q]) /\ Apart(pend[p], pend[q]) /\ pend'[q] = pend[q]
      BY <1>2, <2>2 DEF DInv
    <3> QED BY <1>5, <3>1 DEF Apart
  <2> QED BY <2>1, <2>2
<1>11. ASSUME NEW q \in Requests
       PROVE  /\ todo'[q] \subseteq DOMAIN wallet'
              /\ pc'[q] \in {"idle", "list"} => pend'[q] = <<>>
              /\ pc'[q] # "insert" => todo'[q] = {}
  BY <1>1, <1>2 DEF DInv
<1>12. ASSUME NEW q \in Requests PROVE Ahead(q)' /\ Once(pend[q])'
  BY <1>1, <1>2 DEF DInv, Ahead, Once
<1>13. ASSUME NEW q \in Requests, NEW s \in Requests, q # s PROVE Apart(pend[q], pend[s])'
  BY <1>2, <1>13 DEF DInv, Apart
<1>14. \A j \in DOMAIN journal' : Received(journal[j])' BY <1>1, <1>8 DEF Received
<1>15. Once(journal)' BY <1>9 DEF Once
<1> QED BY <1>6, <1>7, <1>10, <1>11, <1>12, <1>13, <1>14, <1>15 DEF DInv

(* Every behaviour of the deposits satisfies the invariant.                *)
THEOREM DepositsInvariant == Spec => []DInv
<1>1. Init => DInv BY DInvInit
<1>2. DInv /\ [Next]_vars => DInv'
  <2> SUFFICES ASSUME DInv, [Next]_vars PROVE DInv' OBVIOUS
  <2>1. CASE UNCHANGED vars
    BY <2>1 DEF vars, DInv, Types, Blocks, Received, Once, Apart, Ahead
  <2>2. ASSUME NEW txid \in Txids, Receive(txid) PROVE DInv'
    BY <2>2, DInvReceive
  <2>3. ASSUME NEW p \in Requests, NEW u \in Users, Begin(p, u) PROVE DInv'
    <3>1. pend[p] = <<>> /\ todo[p] = {} BY <2>3 DEF DInv, Begin
    <3>2. todo' = [todo EXCEPT ![p] = todo'[p]] /\ pc' = [pc EXCEPT ![p] = pc'[p]] /\ pc'[p] = "list"
      BY <2>3 DEF DInv, Types, Begin
    <3> QED BY <2>3, <3>1, <3>2, DInvWalk DEF Begin
  <2>4. ASSUME NEW p \in Requests, list_transactions(p) PROVE DInv'
    <3>1. pend[p] = <<>> BY <2>4 DEF DInv, list_transactions
    <3>2. todo'[p] \subseteq DOMAIN wallet
      BY <2>4 DEF DInv, Types, list_transactions, Listed
    <3>3. todo' = [todo EXCEPT ![p] = todo'[p]] /\ pc' = [pc EXCEPT ![p] = pc'[p]] /\ pc'[p] = "insert"
      BY <2>4 DEF DInv, Types, list_transactions
    <3> QED BY <2>4, <3>1, <3>2, <3>3, DInvWalk DEF list_transactions
  <2>5. ASSUME NEW p \in Requests, NEW i \in todo[p], SkipKnown(p, i) PROVE DInv'
    <3>1. /\ todo' = [todo EXCEPT ![p] = todo'[p]] /\ todo'[p] \subseteq todo[p]
          /\ pc' = [pc EXCEPT ![p] = pc'[p]] /\ pc'[p] = "insert"
      BY <2>5 DEF DInv, Types, SkipKnown, At
    <3>2. todo'[p] \subseteq DOMAIN wallet BY <3>1 DEF DInv
    <3> QED BY <2>5, <3>1, <3>2, DInvWalk DEF SkipKnown
  <2>6. ASSUME NEW p \in Requests, NEW i \in todo[p], Insert(p, i) PROVE DInv'
    BY <2>6, DInvInsert
  <2>7. ASSUME NEW p \in Requests, NEW i \in todo[p], InsertConflict(p, i) PROVE DInv'
    BY <2>7, DInvLeave DEF InsertConflict
  <2>8. ASSUME NEW p \in Requests, Fail(p) PROVE DInv' BY <2>8, DInvLeave DEF Fail
  <2>9. ASSUME NEW p \in Requests, Commit(p) \/ Rollback(p) PROVE DInv'
    BY <2>9, DInvEnded DEF Commit, Rollback
  <2> QED BY <2>1, <2>2, <2>3, <2>4, <2>5, <2>6, <2>7, <2>8, <2>9 DEF Next
<1> QED BY <1>1, <1>2, PTL DEF Spec

(* However balance requests overlap, fail or repeat (update_user_accounts, *)
(* the unique index on txid), every credit is for an output of the wallet  *)
(* and no output is credited twice.                                        *)
THEOREM NoDepositCreditedTwice == Spec => []CreditedAtMostOnce
<1>1. DInv => CreditedAtMostOnce
  BY DEF DInv, Received, Once, CreditedAtMostOnce, ToSet
<1> QED BY <1>1, DepositsInvariant, PTL

(* The loop's INSERTs never wait in a circle, of any length: every request *)
(* walks the wallet in the same order, and a transaction's outputs are     *)
(* next to each other in it.                                               *)
THEOREM InsertsDoNotDeadlock == Spec => []NoLockCycle
<1>1. DInv => NoLockCycle
  <2> SUFFICES ASSUME DInv, NEW p \in Requests, NEW q \in Requests, NEW s \in Requests,
                      WaitsFor(p, q), WaitsFor(q, s),
                      NEW i \in todo[p], NEW j \in todo[q], At(p, i), At(q, j)
               PROVE  i < j
    BY DEF NoLockCycle
  <2>1. /\ i \in DOMAIN wallet /\ j \in DOMAIN wallet /\ DOMAIN wallet \subseteq Nat
        /\ todo[p] \subseteq Nat /\ todo[q] \subseteq Nat
    <3>1. wallet \in Seq(Rows) BY DEF DInv, Types
    <3> QED BY <3>1, LenProperties DEF DInv
  <2>2. Holds(pend[q], wallet[i].txid) /\ Holds(pend[s], wallet[j].txid) /\ q # s
    BY <2>1 DEF WaitsFor, WaitsAt, Inserting, At
  <2>3. PICK m \in DOMAIN wallet : wallet[m].txid = wallet[i].txid /\ \A t \in todo[q] : m < t
    BY <2>2 DEF Holds, DInv, Ahead
  <2>4. wallet[i].txid # wallet[j].txid
    BY <2>2 DEF Holds, DInv, Apart
  <2>5. CASE j < i
    BY <2>1, <2>3, <2>4, <2>5 DEF DInv, Blocks
  <2> QED BY <2>1, <2>4, <2>5
<1> QED BY <1>1, DepositsInvariant, PTL
-----------------------------------------------------------------------------
(* Window later outputs have pushed output j out of the list for good.     *)
Since(j) == {m \in DOMAIN wallet : wallet[m].user = wallet[j].user /\ m >= j}
Gone(j) == Cardinality(Since(j)) > Window

(* Outputs of one transaction to one user.                                 *)
Twins(j, k) == j # k /\ wallet[j].txid = wallet[k].txid /\ wallet[j].user = wallet[k].user

(* The row is that of an output whose twins are gone, or are in rest.      *)
Alone(row, rest) ==
    \E k \in DOMAIN wallet :
        row = wallet[k] /\ \A j \in DOMAIN wallet : Twins(j, k) => j \in rest \/ Gone(j)

(* What p read and listed.                                                 *)
Reads(p) ==
    /\ pc[p] = "list" => \A t \in known[p] :
          \E n \in DOMAIN journal : journal[n].txid = t /\ journal[n].user = user[p]
    /\ pc[p] = "insert" =>
          /\ todo[p] \subseteq txs[p] /\ txs[p] \subseteq DOMAIN wallet
          /\ \A i \in txs[p] : wallet[i].txid \in known[p] => \E n \in DOMAIN journal : journal[n] = wallet[i]
          /\ \A i \in txs[p], j \in DOMAIN wallet : Twins(j, i) => j \in txs[p] \/ Gone(j)

(* The outputs p has passed are credited.                                  *)
Passed(p) ==
    pc[p] = "insert" => \A i \in txs[p] \ todo[p] :
        \/ \E n \in DOMAIN journal : journal[n] = wallet[i]
        \/ \E n \in DOMAIN pend[p] : pend[p][n] = wallet[i]

LInv ==
    /\ user = [p \in Requests |-> user[p]]
    /\ known = [p \in Requests |-> known[p]]
    /\ txs = [p \in Requests |-> txs[p]]
    /\ \A n \in DOMAIN journal : Alone(journal[n], {})
    /\ \A p \in Requests :
          /\ Reads(p) /\ Passed(p)
          /\ pc[p] \in {"insert", "commit"} => \A n \in DOMAIN pend[p] : Alone(pend[p][n], todo[p])

LEMMA LInvInit == Init => LInv
  BY DEF Init, LInv, Reads, Passed

(* The list is what is not gone.                                           *)
LEMMA GoneIsUnlisted ==
  ASSUME Types, NEW j \in DOMAIN wallet
  PROVE  j \in Listed(wallet[j].user) <=> ~Gone(j)
<1>1. DOMAIN wallet = 1..Len(wallet) /\ Len(wallet) \in Nat BY LenProperties DEF Types
<1>2. IsFiniteSet(DOMAIN wallet) BY <1>1, FS_Interval
<1>3. Since(j) \in SUBSET DOMAIN wallet BY DEF Since
<1>4. Cardinality(Since(j)) \in Nat BY <1>2, <1>3, FS_Subset, FS_CardinalityType
<1>5. {m \in {i \in DOMAIN wallet : wallet[i].user = wallet[j].user} : m >= j} = Since(j) BY DEF Since
<1> QED BY <1>4, <1>5, WindowAssumption DEF Listed, Gone

(* What has left the list does not come back.                              *)
LEMMA GoneStays ==
  ASSUME Types, Types', NEW j \in DOMAIN wallet, Gone(j),
         \A i \in DOMAIN wallet : i \in DOMAIN wallet' /\ wallet'[i] = wallet[i]
  PROVE  Gone(j)'
<1>1. DOMAIN wallet' = 1..Len(wallet') /\ Len(wallet') \in Nat BY LenProperties DEF Types
<1>2. IsFiniteSet(DOMAIN wallet') BY <1>1, FS_Interval
<1>3. PICK new : new = {m \in DOMAIN wallet' : wallet'[m].user = wallet'[j].user /\ m >= j} OBVIOUS
<1>4. new \in SUBSET DOMAIN wallet' BY <1>3
<1>5. Since(j) \in SUBSET new BY <1>3 DEF Since
<1>6. IsFiniteSet(new) /\ Cardinality(new) \in Nat BY <1>2, <1>4, FS_Subset, FS_CardinalityType
<1>7. Cardinality(Since(j)) <= Cardinality(new) /\ Cardinality(Since(j)) \in Nat
  BY <1>5, <1>6, FS_Subset, FS_CardinalityType
<1>8. Cardinality(new) > Window BY <1>6, <1>7, WindowAssumption DEF Gone
<1> QED BY <1>3, <1>8 DEF Gone, Since

(* A transaction arrives with all its outputs: none of them is the twin of *)
(* an earlier one.                                                         *)
LEMMA LInvReceive ==
  ASSUME DInv, DInv', LInv, NEW txid \in Txids, Receive(txid)
  PROVE  LInv'
<1> DEFINE new == [i \in DOMAIN Outputs[txid] |-> Entry(txid, i)]
<1>1. UNCHANGED <<journal, pc, user, known, txs, todo, pend>> BY DEF Receive
<1>2. Types /\ Types' BY DEF DInv
<1>3. new \in Seq(Rows) /\ \A i \in DOMAIN new : new[i].txid = txid
  <2>1. Outputs[txid] \in Seq(Users) BY OutputsAssumption
  <2>2. DOMAIN new = 1..Len(Outputs[txid]) /\ Len(Outputs[txid]) \in Nat BY <2>1, LenProperties
  <2>3. \A i \in 1..Len(Outputs[txid]) : new[i] \in Rows BY <2>1, <2>2 DEF Entry, Rows
  <2>4. new \in [1..Len(Outputs[txid]) -> Rows] BY <2>2, <2>3
  <2>5. new \in Seq(Rows) BY <2>2, <2>4, SeqDef
  <2> QED BY <2>5 DEF Entry
<1>4. wallet \in Seq(Rows) /\ wallet' = wallet \o new BY <1>2 DEF Types, Receive
<1> HIDE DEF new
<1>5. \A i \in DOMAIN wallet : i \in DOMAIN wallet' /\ wallet'[i] = wallet[i] BY <1>3, <1>4, Concat
<1>6. \A i \in DOMAIN wallet' : i \in DOMAIN wallet \/ wallet'[i].txid = txid BY <1>3, <1>4, Concat
<1>7. \A i \in DOMAIN wallet : wallet[i].txid # txid BY DEF Receive
<1>8. \A j \in DOMAIN wallet : Gone(j) => Gone(j)' BY <1>2, <1>5, GoneStays
<1>9. ASSUME NEW k \in DOMAIN wallet, NEW j \in DOMAIN wallet', Twins(j, k)'
      PROVE  j \in DOMAIN wallet /\ Twins(j, k)
  BY <1>5, <1>6, <1>7, <1>9 DEF Twins
<1>10. ASSUME NEW row, NEW rest, Alone(row, rest) PROVE Alone(row, rest)'
  <2>1. PICK k \in DOMAIN wallet :
           row = wallet[k] /\ \A j \in DOMAIN wallet : Twins(j, k) => j \in rest \/ Gone(j)
    BY <1>10 DEF Alone
  <2>2. ASSUME NEW j \in DOMAIN wallet', Twins(j, k)' PROVE j \in rest \/ Gone(j)'
    BY <1>8, <1>9, <2>1, <2>2
  <2>3. k \in DOMAIN wallet' /\ row = wallet'[k] BY <1>5, <2>1
  <2> QED BY <2>2, <2>3 DEF Alone
<1>11. ASSUME NEW n \in DOMAIN journal' PROVE Alone(journal[n], {})'
  <2>1. PICK row : row = journal[n] OBVIOUS
  <2>2. Alone(row, {}) BY <1>1, <2>1 DEF LInv
  <2>3. Alone(row, {})' BY <1>10, <2>2
  <2> QED BY <1>1, <2>1, <2>3 DEF Alone
<1>12. ASSUME NEW p \in Requests PROVE Reads(p)'
  <2>1. CASE pc[p] = "insert"
    <3>1. txs[p] \subseteq DOMAIN wallet /\ todo[p] \subseteq txs[p] BY <2>1 DEF LInv, Reads
    <3>2. ASSUME NEW i \in txs[p], wallet'[i].txid \in known[p]
          PROVE  \E n \in DOMAIN journal : journal[n] = wallet'[i]
      BY <1>5, <2>1, <3>1, <3>2 DEF LInv, Reads
    <3>3. ASSUME NEW i \in txs[p], NEW j \in DOMAIN wallet', Twins(j, i)' PROVE j \in txs[p] \/ Gone(j)'
      <4>1. i \in DOMAIN wallet BY <3>1
      <4>2. j \in DOMAIN wallet /\ Twins(j, i) BY <1>9, <3>3, <4>1
      <4> QED BY <1>8, <2>1, <4>2 DEF LInv, Reads
    <3> QED BY <1>1, <1>5, <2>1, <3>1, <3>2, <3>3 DEF Reads
  <2>2. CASE pc[p] # "insert" BY <1>1, <2>2 DEF LInv, Reads
  <2> QED BY <2>1, <2>2
<1>13. ASSUME NEW p \in Requests PROVE Passed(p)'
  <2>1. CASE pc[p] = "insert"
    <3>1. txs[p] \subseteq DOMAIN wallet BY <2>1 DEF LInv, Reads
    <3> QED BY <1>1, <1>5, <2>1, <3>1 DEF LInv, Passed
  <2>2. CASE pc[p] # "insert" BY <1>1, <2>2 DEF Passed
  <2> QED BY <2>1, <2>2
<1>14. ASSUME NEW p \in Requests, pc'[p] \in {"insert", "commit"}, NEW n \in DOMAIN pend'[p]
       PROVE  Alone(pend[p][n], todo[p])'
  <2>1. PICK row, rest : row = pend[p][n] /\ rest = todo[p] OBVIOUS
  <2>2. Alone(row, rest) BY <1>1, <1>14, <2>1 DEF LInv
  <2>3. Alone(row, rest)' BY <1>10, <2>2
  <2> QED BY <1>1, <2>1, <2>3 DEF Alone
<1> QED BY <1>1, <1>11, <1>12, <1>13, <1>14 DEF LInv

(* The wallet and the rows of the others stay: what is said of them does.  *)
LEMMA AloneKept ==
  ASSUME UNCHANGED wallet
  PROVE  /\ \A j, k : Twins(j, k)' <=> Twins(j, k)
         /\ \A j : Gone(j)' <=> Gone(j)
  BY DEF Twins, Gone, Since

(* A step of p; the others see at most that the journal has grown.         *)
LEMMA LInvStep ==
  ASSUME DInv, LInv, NEW p \in Requests, UNCHANGED wallet,
         \A q \in Requests \ {p} : /\ pc'[q] = pc[q] /\ user'[q] = user[q] /\ known'[q] = known[q]
                                  /\ txs'[q] = txs[q] /\ todo'[q] = todo[q] /\ pend'[q] = pend[q],
         user' = [q \in Requests |-> user'[q]], known' = [q \in Requests |-> known'[q]],
         txs' = [q \in Requests |-> txs'[q]],
         \A n \in DOMAIN journal : n \in DOMAIN journal' /\ journal'[n] = journal[n],
         \A n \in DOMAIN journal' : n \in DOMAIN journal \/ Alone(journal'[n], {}),
         Reads(p)', Passed(p)',
         pc'[p] \in {"insert", "commit"} => \A n \in DOMAIN pend'[p] : Alone(pend'[p][n], todo'[p])
  PROVE  LInv'
<1>1. ASSUME NEW row, NEW rest, Alone(row, rest) PROVE Alone(row, rest)' BY <1>1, AloneKept DEF Alone
<1>2. ASSUME NEW n \in DOMAIN journal' PROVE Alone(journal[n], {})'
  <2>1. PICK row : row = journal'[n] OBVIOUS
  <2>2. Alone(row, {}) BY <2>1 DEF LInv
  <2>3. Alone(row, {})' BY <1>1, <2>2
  <2> QED BY <2>1, <2>3 DEF Alone
<1>3. ASSUME NEW q \in Requests, pc'[q] \in {"insert", "commit"}, NEW n \in DOMAIN pend'[q]
      PROVE  Alone(pend[q][n], todo[q])'
  <2>1. PICK row, rest : row = pend'[q][n] /\ rest = todo'[q] OBVIOUS
  <2>2. Alone(row, rest)
    <3>1. CASE q = p BY <1>3, <2>1, <3>1
    <3>2. CASE q # p BY <1>3, <2>1, <3>2 DEF LInv
    <3> QED BY <3>1, <3>2
  <2>3. Alone(row, rest)' BY <1>1, <2>2
  <2> QED BY <2>1, <2>3 DEF Alone
<1>4. ASSUME NEW q \in Requests PROVE Reads(q)' /\ Passed(q)'
  <2>1. CASE q = p BY <2>1
  <2>2. CASE q # p
    <3>1. /\ pc'[q] = pc[q] /\ user'[q] = user[q] /\ known'[q] = known[q]
          /\ txs'[q] = txs[q] /\ todo'[q] = todo[q] /\ pend'[q] = pend[q]
          /\ Reads(q) /\ Passed(q)
      BY <2>2 DEF LInv
    <3>2. Reads(q)' BY <3>1, AloneKept DEF Reads
    <3>3. Passed(q)' BY <3>1 DEF Passed
    <3> QED BY <3>2, <3>3
  <2> QED BY <2>1, <2>2
<1> QED BY <1>2, <1>3, <1>4 DEF LInv

(* p begins: what it reads is in the journal.                              *)
LEMMA LInvBegin ==
  ASSUME DInv, LInv, NEW p \in Requests, NEW u \in Users, Begin(p, u)
  PROVE  LInv'
<1>1. /\ UNCHANGED <<wallet, journal, txs, todo, pend>>
      /\ pc'[p] = "list" /\ user'[p] = u
      /\ known'[p] = {row.txid : row \in {r \in ToSet(journal) : r.user = u}}
  BY DEF Begin, DInv, Types, LInv
<1>2. /\ \A q \in Requests \ {p} : pc'[q] = pc[q] /\ user'[q] = user[q] /\ known'[q] = known[q]
      /\ user' = [q \in Requests |-> user'[q]] /\ known' = [q \in Requests |-> known'[q]]
      /\ txs' = [q \in Requests |-> txs'[q]]
  BY DEF Begin, DInv, Types, LInv
<1>3. Reads(p)' /\ Passed(p)' BY <1>1 DEF Reads, Passed, ToSet
<1> QED BY <1>1, <1>2, <1>3, LInvStep

(* p lists: an output whose txid it knows has its row in the journal.      *)
LEMMA LInvList ==
  ASSUME DInv, LInv, NEW p \in Requests, list_transactions(p)
  PROVE  LInv'
<1>1. /\ UNCHANGED <<wallet, journal, user, known, pend>>
      /\ pc[p] = "list" /\ pc'[p] = "insert" /\ txs'[p] = Listed(user[p]) /\ todo'[p] = Listed(user[p])
  BY DEF list_transactions, DInv, Types, LInv
<1>2. /\ \A q \in Requests \ {p} : pc'[q] = pc[q] /\ txs'[q] = txs[q] /\ todo'[q] = todo[q]
      /\ user' = [q \in Requests |-> user'[q]] /\ known' = [q \in Requests |-> known'[q]]
      /\ txs' = [q \in Requests |-> txs'[q]]
  BY DEF list_transactions, DInv, Types, LInv
<1>3. \A i \in Listed(user[p]) : i \in DOMAIN wallet /\ wallet[i].user = user[p] BY DEF Listed
<1>4. \A j \in DOMAIN wallet : wallet[j].user = user[p] => (j \in Listed(user[p]) <=> ~Gone(j))
  BY GoneIsUnlisted DEF DInv
<1>5. ASSUME NEW i \in Listed(user[p]), wallet[i].txid \in known[p]
      PROVE  \E n \in DOMAIN journal : journal[n] = wallet[i]
  <2>1. PICK n \in DOMAIN journal : journal[n].txid = wallet[i].txid /\ journal[n].user = user[p]
    BY <1>1, <1>5 DEF LInv, Reads
  <2>2. PICK k \in DOMAIN wallet :
           journal[n] = wallet[k] /\ \A j \in DOMAIN wallet : Twins(j, k) => Gone(j)
    BY DEF LInv, Alone
  <2>3. i = k
    <3>1. SUFFICES ASSUME i # k PROVE FALSE OBVIOUS
    <3>2. Twins(i, k) /\ i \in DOMAIN wallet BY <1>3, <2>1, <2>2, <3>1 DEF Twins
    <3> QED BY <1>3, <1>4, <2>2, <3>2
  <2> QED BY <2>2, <2>3
<1>6. ASSUME NEW i \in Listed(user[p]), NEW j \in DOMAIN wallet, Twins(j, i)
      PROVE  j \in Listed(user[p]) \/ Gone(j)
  BY <1>3, <1>4, <1>6 DEF Twins
<1>7. Reads(p)' BY <1>1, <1>3, <1>5, <1>6, AloneKept DEF Reads
<1>8. Passed(p)' BY <1>1 DEF Passed
<1>9. DOMAIN pend'[p] = {} BY <1>1 DEF DInv
<1> QED BY <1>1, <1>2, <1>7, <1>8, <1>9, LInvStep

(* p skips an output: its row is in the journal, so no twin's is pending.  *)
LEMMA LInvSkip ==
  ASSUME DInv, LInv, NEW p \in Requests, NEW i \in todo[p], SkipKnown(p, i)
  PROVE  LInv'
<1>1. /\ UNCHANGED <<wallet, journal, pc, user, known, txs, pend>>
      /\ pc[p] = "insert" /\ wallet[i].txid \in known[p] /\ todo'[p] = todo[p] \ {i}
      /\ \A q \in Requests \ {p} : todo'[q] = todo[q]
  BY DEF SkipKnown, At, DInv, Types
<1>2. PICK m \in DOMAIN journal : journal[m] = wallet[i] BY <1>1 DEF LInv, Reads
<1>3. Reads(p)' BY <1>1, AloneKept DEF LInv, Reads
<1>4. Passed(p)' BY <1>1, <1>2 DEF LInv, Passed
<1>5. ASSUME NEW n \in DOMAIN pend'[p] PROVE Alone(pend'[p][n], todo'[p])
  <2>1. n \in DOMAIN pend[p] /\ pend'[p][n] = pend[p][n] BY <1>1
  <2>2. PICK k \in DOMAIN wallet :
           pend[p][n] = wallet[k] /\ \A j \in DOMAIN wallet : Twins(j, k) => j \in todo[p] \/ Gone(j)
    BY <1>1, <2>1 DEF LInv, Alone
  <2>3. wallet[k].txid # wallet[i].txid BY <1>2, <2>1, <2>2 DEF DInv, Apart
  <2>4. \A j \in DOMAIN wallet : Twins(j, k) => j # i BY <2>3 DEF Twins
  <2> QED BY <1>1, <2>1, <2>2, <2>4 DEF Alone
<1>6. /\ user' = [q \in Requests |-> user'[q]] /\ known' = [q \in Requests |-> known'[q]]
      /\ txs' = [q \in Requests |-> txs'[q]]
  BY <1>1 DEF LInv
<1> QED BY <1>1, <1>3, <1>4, <1>5, <1>6, LInvStep

(* p inserts a row that the index admits: no twin it has passed is         *)
(* credited, so it has passed none.                                        *)
LEMMA LInvInsert ==
  ASSUME DInv, LInv, NEW p \in Requests, NEW i \in todo[p], Insert(p, i)
  PROVE  LInv'
<1>1. /\ UNCHANGED <<wallet, journal, pc, user, known, txs>>
      /\ pc[p] = "insert" /\ todo'[p] = todo[p] \ {i} /\ pend'[p] = Append(pend[p], wallet[i])
      /\ \A q \in Requests \ {p} : todo'[q] = todo[q] /\ pend'[q] = pend[q]
  BY DEF Insert, Inserting, At, DInv, Types
<1>2. /\ \A n \in DOMAIN journal : journal[n].txid # wallet[i].txid
      /\ \A n \in DOMAIN pend[p] : pend[p][n].txid # wallet[i].txid
  BY DEF Insert, Unique, Holds
<1>3. i \in DOMAIN wallet /\ i \in txs[p] BY <1>1 DEF DInv, LInv, Reads
<1>4. /\ \A n \in DOMAIN pend[p] : n \in DOMAIN pend'[p] /\ pend'[p][n] = pend[p][n]
      /\ \E n \in DOMAIN pend'[p] : pend'[p][n] = wallet[i]
      /\ \A n \in DOMAIN pend'[p] : \/ n \in DOMAIN pend[p] /\ pend'[p][n] = pend[p][n]
                                    \/ pend'[p][n] = wallet[i]
  <2>1. wallet[i] \in Rows /\ pend[p] \in Seq(Rows)
    BY <1>3, ElementOfSeq, LenProperties DEF DInv, Types
  <2> QED BY <1>1, <2>1, AppendProperties, LenProperties
<1>5. Reads(p)' BY <1>1, AloneKept DEF LInv, Reads
<1>6. Passed(p)' BY <1>1, <1>4 DEF LInv, Passed
<1>7. Alone(wallet[i], todo'[p])
  <2>1. ASSUME NEW j \in DOMAIN wallet, Twins(j, i) PROVE j \in todo'[p] \/ Gone(j)
    <3>1. CASE j \notin txs[p] BY <1>1, <1>3, <2>1, <3>1 DEF LInv, Reads
    <3>2. CASE j \in txs[p]
      <4>1. wallet[j].txid = wallet[i].txid /\ j # i BY <2>1 DEF Twins
      <4>2. j \in todo[p] BY <1>1, <1>2, <3>2, <4>1 DEF LInv, Passed
      <4> QED BY <1>1, <4>1, <4>2
    <3> QED BY <3>1, <3>2
  <2> QED BY <1>3, <2>1 DEF Alone
<1>8. ASSUME NEW n \in DOMAIN pend'[p] PROVE Alone(pend'[p][n], todo'[p])
  <2>1. CASE pend'[p][n] = wallet[i] BY <1>7, <2>1
  <2>2. CASE n \in DOMAIN pend[p] /\ pend'[p][n] = pend[p][n]
    <3>1. PICK k \in DOMAIN wallet :
             pend[p][n] = wallet[k] /\ \A j \in DOMAIN wallet : Twins(j, k) => j \in todo[p] \/ Gone(j)
      BY <1>1, <2>2 DEF LInv, Alone
    <3>2. \A j \in DOMAIN wallet : Twins(j, k) => j # i BY <1>2, <2>2, <3>1 DEF Twins
    <3> QED BY <1>1, <2>2, <3>1, <3>2 DEF Alone
  <2> QED BY <1>4, <2>1, <2>2
<1>9. /\ user' = [q \in Requests |-> user'[q]] /\ known' = [q \in Requests |-> known'[q]]
      /\ txs' = [q \in Requests |-> txs'[q]]
  BY <1>1 DEF LInv
<1> QED BY <1>1, <1>5, <1>6, <1>8, <1>9, LInvStep

(* p gives up; only a transaction that had passed everything may commit.   *)
LEMMA LInvLeave ==
  ASSUME DInv, LInv, NEW p \in Requests, NEW ending \in {"rollback", "commit"}, Leave(p, ending),
         ending = "commit" => pc[p] = "insert" /\ todo[p] = {}
  PROVE  LInv'
<1>1. /\ UNCHANGED <<wallet, journal, user, known, txs, pend>> /\ pc'[p] = ending /\ todo'[p] = {}
      /\ \A q \in Requests \ {p} : pc'[q] = pc[q] /\ todo'[q] = todo[q]
  BY DEF Leave, DInv, Types
<1>2. Reads(p)' /\ Passed(p)' BY <1>1 DEF Reads, Passed
<1>3. pc'[p] \in {"insert", "commit"} => \A n \in DOMAIN pend'[p] : Alone(pend'[p][n], todo'[p])
  BY <1>1 DEF LInv
<1>4. /\ user' = [q \in Requests |-> user'[q]] /\ known' = [q \in Requests |-> known'[q]]
      /\ txs' = [q \in Requests |-> txs'[q]]
  BY <1>1 DEF LInv
<1> QED BY <1>1, <1>2, <1>3, <1>4, LInvStep

(* The transaction ends; what it commits has no twin left to list.         *)
LEMMA LInvEnded ==
  ASSUME DInv, LInv, NEW p \in Requests, Ended(p),
         \/ UNCHANGED journal
         \/ journal' = journal \o pend[p] /\ todo[p] = {} /\ pc[p] \in {"insert", "commit"}
  PROVE  LInv'
<1>1. /\ UNCHANGED <<wallet, todo>> /\ pc'[p] = "idle" /\ pend'[p] = <<>>
      /\ \A q \in Requests \ {p} : /\ pc'[q] = pc[q] /\ user'[q] = user[q] /\ known'[q] = known[q]
                                   /\ txs'[q] = txs[q] /\ pend'[q] = pend[q]
      /\ user' = [q \in Requests |-> user'[q]] /\ known' = [q \in Requests |-> known'[q]]
      /\ txs' = [q \in Requests |-> txs'[q]]
  BY DEF Ended, DInv, Types, LInv
<1>2. Reads(p)' /\ Passed(p)' BY <1>1 DEF Reads, Passed
<1>3. journal \in Seq(Rows) /\ pend[p] \in Seq(Rows) BY DEF DInv, Types
<1>4. \A n \in DOMAIN journal : n \in DOMAIN journal' /\ journal'[n] = journal[n] BY <1>3, Concat
<1>5. ASSUME NEW n \in DOMAIN journal', n \notin DOMAIN journal PROVE Alone(journal'[n], {})
  <2>1. journal' = journal \o pend[p] /\ todo[p] = {} /\ pc[p] \in {"insert", "commit"} BY <1>5
  <2>2. PICK m \in DOMAIN pend[p] : journal'[n] = pend[p][m] BY <1>3, <1>5, <2>1, Concat
  <2> QED BY <2>1, <2>2 DEF LInv
<1>6. \A n \in DOMAIN journal' : n \in DOMAIN journal \/ Alone(journal'[n], {}) BY <1>5
<1>7. pc'[p] \notin {"insert", "commit"} BY <1>1
<1> QED BY <1>1, <1>2, <1>4, <1>6, <1>7, LInvStep

(* An update leaves nothing out, whatever the requests that overlap it     *)
(* commit between its reads and its INSERTs, for any transactions, window  *)
(* and number of requests and failures.                                    *)
THEOREM UpdatesLeaveNothingOut == Spec => []ListedIsCredited
<1>1. Init => LInv BY LInvInit
<1>2. DInv /\ DInv' /\ LInv /\ [Next]_vars => LInv'
  <2> SUFFICES ASSUME DInv, DInv', LInv, [Next]_vars PROVE LInv' OBVIOUS
  <2>1. CASE UNCHANGED vars
    BY <2>1 DEF vars, LInv, Alone, Twins, Gone, Since, Reads, Passed
  <2>2. ASSUME NEW txid \in Txids, Receive(txid) PROVE LInv' BY <2>2, LInvReceive
  <2>3. ASSUME NEW p \in Requests, NEW u \in Users, Begin(p, u) PROVE LInv' BY <2>3, LInvBegin
  <2>4. ASSUME NEW p \in Requests, list_transactions(p) PROVE LInv' BY <2>4, LInvList
  <2>5. ASSUME NEW p \in Requests, NEW i \in todo[p], SkipKnown(p, i) PROVE LInv' BY <2>5, LInvSkip
  <2>6. ASSUME NEW p \in Requests, NEW i \in todo[p], Insert(p, i) PROVE LInv' BY <2>6, LInvInsert
  <2>7. ASSUME NEW p \in Requests, NEW i \in todo[p], InsertConflict(p, i) PROVE LInv'
    BY <2>7, LInvLeave DEF InsertConflict
  <2>8. ASSUME NEW p \in Requests, Fail(p) PROVE LInv' BY <2>8, LInvLeave DEF Fail
  <2>9. ASSUME NEW p \in Requests, Commit(p) \/ Rollback(p) PROVE LInv'
    <3>1. CASE Commit(p)
      <4>1. todo[p] = {} /\ pc[p] \in {"insert", "commit"} BY <3>1 DEF Commit, DInv
      <4> QED BY <3>1, <4>1, LInvEnded DEF Commit
    <3>2. CASE Rollback(p) BY <3>2, LInvEnded DEF Rollback
    <3> QED BY <2>9, <3>1, <3>2
  <2> QED BY <2>1, <2>2, <2>3, <2>4, <2>5, <2>6, <2>7, <2>8, <2>9 DEF Next
<1>3. LInv => ListedIsCredited
  BY DEF LInv, Passed, ListedIsCredited, ToSet
<1> QED BY <1>1, <1>2, <1>3, DepositsInvariant, PTL DEF Spec
=============================================================================
