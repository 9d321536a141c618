------------------------------- MODULE MCLobby -------------------------------
(***************************************************************************)
(* Three players, of whom the last two are within reach of each other and  *)
(* of the first only the last is.                                          *)
(***************************************************************************)
EXTENDS Lobby, TLC

CONSTANTS alice, bob, carol

ThreeUsers == {alice, bob, carol}
ThreeRatings == [u \in ThreeUsers |-> IF u = alice THEN 0 ELSE IF u = bob THEN 5 ELSE 3]

Interchangeable == Permutations(Conns) \cup Permutations(Names)
=============================================================================
