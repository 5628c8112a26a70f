----------------------------- MODULE MCDeposits -----------------------------
(***************************************************************************)
(* Three transactions: one that pays alice alone, one that pays alice      *)
(* twice, and one that pays bob, alice and carol, who has no account.      *)
(***************************************************************************)
EXTENDS Deposits

MCTxids == 1..3
MCOutputs == <<<<"alice">>, <<"alice", "alice">>, <<"bob", "alice", "carol">>>>
=============================================================================
