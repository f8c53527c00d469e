----------------------- MODULE MCAccessoryPairing -----------------------
(* Instances of AccessoryPairing for TLC. *)
EXTENDS AccessoryPairing, TLC

CONSTANTS a, b

OneName == {"n"}
Two == 1 .. 2
Three == 1 .. 3
Same == Permutations(Clients)
=============================================================================
