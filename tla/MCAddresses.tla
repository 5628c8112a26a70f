---------------------------- MODULE MCAddresses ----------------------------
(***************************************************************************)
(* Requests of two users: both spellings of Bitcoin, Ether, an asset the   *)
(* exchange does not know, and withdrawal addresses whose text is also one *)
(* that bitcoind hands out.                                                *)
(***************************************************************************)
EXTENDS Addresses

Ask(op, user, asset) == [op |-> op, user |-> user, asset |-> asset, text |-> "a1"]

MCMenu == {Ask("create_deposit", "alice", "BTC"),
           Ask("create_deposit", "alice", "btc"),
           Ask("create_deposit", "alice", "eth"),
           Ask("create_deposit", "bob", "BTC"),
           Ask("create_withdrawal", "alice", "BTC"),
           Ask("create_withdrawal", "alice", "btc"),
           Ask("create_withdrawal", "alice", "ETH"),
           Ask("create_withdrawal", "bob", "BTC"),
           Ask("create_withdrawal", "bob", "doge"),
           Ask("delete_withdrawal", "alice", "BTC"),
           Ask("delete_withdrawal", "alice", "ETH"),
           Ask("delete_withdrawal", "alice", "eth"),
           Ask("list_deposit", "bob", "none"),
           Ask("list_withdrawal", "alice", "none"),
           Ask("home", "alice", "none")}
=============================================================================
