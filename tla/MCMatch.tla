------------------------------- MODULE MCMatch -------------------------------
(***************************************************************************)
(* Connections and accounts are interchangeable.                           *)
(***************************************************************************)
EXTENDS Match, TLC

Interchangeable == Permutations(Conns) \cup Permutations(Users)
=============================================================================
