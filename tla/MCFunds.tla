------------------------------- MODULE MCFunds -------------------------------
(* Two requests of one user, who can pay for either but not always both.   *)
EXTENDS Funds

MCRequests == 1..2
MCOwner == [r \in MCRequests |-> "alice"]

=============================================================================
