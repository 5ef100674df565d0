--------------------------- MODULE MCAccountRace ---------------------------
(* AccountRace on a small instance. *)
EXTENDS AccountRace, TLC

MCSymmetry == Permutations(OrderId) \cup Permutations(PositionId)
MCLotId == 1..2
MCPrice == {2}
MCOrderQuantity == {2}
MCDay == 1..2
=============================================================================
