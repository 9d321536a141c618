----------------------------- MODULE MCAccounts -----------------------------
(***************************************************************************)
(* Expected scores that rise with the lead, level beyond four points.      *)
(***************************************************************************)
EXTENDS Accounts, TLC

Curve == [d \in -4 .. 4 |-> 500 + 60 * d]
Interchangeable == Permutations(Users) \cup Permutations(Requests)
                   \cup Permutations(Tokens)
=============================================================================
