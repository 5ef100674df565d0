--------------------------- MODULE OrderLifecycle ---------------------------
(***************************************************************************)
(* What the account promises about each order, whatever happens to cash,   *)
(* positions and lots: an order is placed once, is filled in steps that    *)
(* never exceed its quantity, ends once, and is not touched after its end. *)
(* A market order is filled, wholly or in part, in the step that places    *)
(* it.  Only the reset of the account forgets orders.                      *)
(*                                                                         *)
(* The quantity of a new order is read off the next state, so that TLC     *)
(* need not enumerate the numbers it is drawn from.                        *)
(***************************************************************************)
EXTENDS Integers

CONSTANTS OrderId, Absent

VARIABLE orders   \* what there is to see of each order

NoOrders == [o \in OrderId |-> Absent]

Active(o) ==
    /\ orders[o] # Absent
    /\ orders[o].status \in {"pending", "partially_filled"}
    /\ orders[o].type = "limit"

FillStatus(row) ==
    IF row.filled = row.quantity THEN "filled" ELSE "partially_filled"

LimitRow ==
    [type : {"limit"}, quantity : Nat \ {0}, filled : {0}, status : {"pending"}]

MarketRow ==
    {row \in [type : {"market"}, quantity : Nat \ {0}, filled : Nat \ {0},
              status : {"filled", "partially_filled"}] :
        row.filled <= row.quantity /\ row.status = FillStatus(row)}

Place(o) ==
    /\ orders[o] = Absent
    /\ orders'[o] \in LimitRow \cup MarketRow
    /\ orders' = [orders EXCEPT ![o] = orders'[o]]

Fill(o) ==
    /\ Active(o)
    /\ \E filled \in (orders[o].filled + 1)..orders[o].quantity :
         LET row == [orders[o] EXCEPT !.filled = filled]
         IN  orders' = [orders EXCEPT ![o] = [row EXCEPT !.status = FillStatus(row)]]

Withdraw(o) ==
    /\ Active(o)
    /\ \E status \in {"cancelled", "expired"} :
         orders' = [orders EXCEPT ![o].status = status]

Reset == orders' = NoOrders

Init == orders = NoOrders

Next == Reset \/ \E o \in OrderId : Place(o) \/ Fill(o) \/ Withdraw(o)

Spec == Init /\ [][Next]_orders
=============================================================================
