----------------------------- MODULE MCSessions -----------------------------
(***************************************************************************)
(* Two clients want the same email with different passwords, one of them   *)
(* through htmx; either password is also tried to log in.  Requests are    *)
(* interchangeable and every property is a state predicate, so their       *)
(* permutations are a symmetry.                                            *)
(***************************************************************************)
EXTENDS Sessions, TLC

Create(password, hx) ==
    [op |-> "create", email |-> "ann@x", password |-> password, hx |-> hx]
Login(password) == [op |-> "login", email |-> "ann@x", password |-> password]

MCMenu == {Create("pw1", TRUE), Create("pw2", FALSE), Login("pw1"), Login("pw2")}

Symmetry == Permutations(Requests)
=============================================================================
