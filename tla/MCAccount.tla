----------------------------- MODULE MCAccount -----------------------------
(* Account on small instances. *)
EXTENDS Account, TLC

MCSymmetry == Permutations(OrderId) \cup Permutations(PositionId)
MCLotId == 1..2
MCPrice == {2}
MCOrderQuantity == {2}
MCDay == 1..2
=============================================================================
