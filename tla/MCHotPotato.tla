----------------------------- MODULE MCHotPotato -----------------------------
(* HotPotato for TLC: three processes, two of which have a potato.          *)
EXTENDS HotPotato, TLC

CONSTANTS p1, p2, p3

MCProcs == {p1, p2, p3}
MCHaspotato == (p1 :> 1 @@ p2 :> 1 @@ p3 :> 0)
=============================================================================
