--------------------------- MODULE MCTriggerScan ---------------------------
(* Two orders, one of which expires, and two positions: with pages of one row *)
(* a tick needs more pages than its budget when an order fills in parts.      *)
EXTENDS TriggerScan, TLC

CONSTANTS o1, o2, bad

MCOrder == {o1, o2}

MCQuantity == o1 :> 2 @@ o2 :> 1

MCExpires == o1 :> 2 @@ o2 :> 3

MCCondition ==
    {[stop |-> 1, take |-> 0, time |-> 0, signals |-> {}],
     [stop |-> 0, take |-> 2, time |-> 2, signals |-> {bad}]}
=============================================================================
