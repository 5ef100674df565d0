--------------------------- MODULE AccountProofs ---------------------------
(***************************************************************************)
(* Proofs about Account, for any instruments, orders, prices, fees, limits *)
(* and days.                                                               *)
(***************************************************************************)
EXTENDS Account, TLAPS

(* A request as the handlers pass it on. *)
Request ==
    [code : Code, side : Side, quantity : Nat \ {0}, opens : BOOLEAN,
     target : PositionId \cup {Absent}]

(* Rounding gives a whole number of units. *)
LEMMA RoundedType ==
    ASSUME NEW n \in Int PROVE Rounded(n) \in Int
  BY FeeAssumption DEF Rounded

LEMMA CommissionType ==
    ASSUME NEW amount \in Int PROVE Commission(amount) \in Int
<1>1. amount * CommissionRate \in Int BY FeeAssumption
<1> QED BY <1>1, RoundedType, FeeAssumption DEF Commission

LEMMA CostType ==
    ASSUME NEW price \in Nat, NEW quantity \in Int
    PROVE  EstimatedBuyCost(price, quantity) \in Int
<1>1. price * quantity \in Int OBVIOUS
<1> QED BY <1>1, CommissionType DEF EstimatedBuyCost

LEMMA CashDeltaType ==
    ASSUME NEW side \in Side, NEW price \in Nat, NEW quantity \in Int
    PROVE  CashDelta(side, price, quantity) \in Int
<1>1. price * quantity \in Int OBVIOUS
<1>2. price * quantity * StampTaxRate \in Int BY <1>1, FeeAssumption
<1>3. StampTax(price * quantity) \in Int BY <1>1, <1>2, RoundedType DEF StampTax
<1> QED BY <1>1, <1>3, CommissionType DEF CashDelta

LEMMA NonNegativeType ==
    ASSUME NEW n \in Int PROVE NonNegative(n) \in Nat
  BY DEF NonNegative

(* What a writer reads of the open position of a code. *)
LEMMA ReadOpenPositionType ==
    ASSUME TypeOK, NEW c \in Code, NEW existing \in ReadOpenPosition(c)
    PROVE  \/ existing = Absent /\ \A p \in OpenPositions : position[p].code # c
           \/ /\ existing # Absent
              /\ existing.id \in OpenPositions
              /\ existing.row = position[existing.id]
              /\ existing.row \in Position
              /\ existing.row.code = c
<1> DEFINE open == {p \in OpenPositions : position[p].code = c}
<1>1. CASE open = {}
  BY <1>1 DEF ReadOpenPosition
<1>2. CASE open # {}
  <2>1. PICK p \in open : existing = [id |-> p, row |-> position[p]]
    BY <1>2 DEF ReadOpenPosition
  <2>2. position[p] \in Position /\ p \in PositionId
    BY DEF TypeOK, OpenPositions, IsOpen
  <2>3. existing \in OpenRow BY <2>1, <2>2 DEF OpenRow
  <2> QED BY <2>1, <2>2, <2>3, AbsentAssumption
<1> QED BY <1>1, <1>2

LEMMA ReadOpenRow ==
    ASSUME TypeOK, NEW c \in Code
    PROVE  ReadOpenPosition(c) \subseteq OpenRow \cup {Absent}
<1> SUFFICES ASSUME NEW existing \in ReadOpenPosition(c), existing # Absent
             PROVE  existing \in OpenRow
  OBVIOUS
<1>1. PICK p \in OpenPositions : existing = [id |-> p, row |-> position[p]]
  BY DEF ReadOpenPosition
<1>2. position[p] \in Position /\ p \in PositionId
  BY DEF TypeOK, OpenPositions, IsOpen
<1> QED BY <1>1, <1>2 DEF OpenRow

(* The requests the four handlers accept. *)
LEMMA RequestType ==
    ASSUME TypeOK,
           NEW r \in PlaceOrderRequests \cup OpenPositionRequests
                     \cup ScalePositionRequests \cup ClosePositionRequests
    PROVE  /\ r \in Request
           /\ r.side = "sell" => /\ r.target \in PositionId /\ r.target # Absent
                                /\ IsOpen(r.target)
                                /\ position[r.target].code = r.code
<1>1. \A p \in OpenPositions : p \in PositionId /\ position[p] \in Position /\ IsOpen(p)
  BY DEF TypeOK, OpenPositions, IsOpen
<1>2. \A p \in OpenPositions : position[p].code \in Code /\ position[p].quantity \in Int
  BY <1>1 DEF Position
<1>3. CASE r \in PlaceOrderRequests
  <2>1. CASE \E c \in Code, q \in OrderQuantity :
               r = [code |-> c, side |-> "buy", quantity |-> q, opens |-> FALSE,
                    target |-> Absent]
    BY <2>1, AccountAssumption DEF Request, Side
  <2>2. CASE \E p \in OpenPositions, q \in OrderQuantity :
               r = [code |-> position[p].code, side |-> "sell", quantity |-> q,
                    opens |-> FALSE, target |-> p]
    BY <1>1, <1>2, <2>2, AccountAssumption, AbsentAssumption DEF Request, Side
  <2> QED BY <1>3, <2>1, <2>2 DEF PlaceOrderRequests
<1>4. CASE r \in OpenPositionRequests
  <2>1. PICK q \in OrderQuantity, c \in Code :
               r = [code |-> c, side |-> "buy", quantity |-> q, opens |-> TRUE,
                    target |-> Absent]
    BY <1>4 DEF OpenPositionRequests
  <2> QED BY <2>1, AccountAssumption DEF Request, Side
<1>5. CASE r \in ScalePositionRequests
  <2>1. PICK p \in OpenPositions, side \in Side, q \in OrderQuantity :
               r = [code |-> position[p].code, side |-> side, quantity |-> q,
                    opens |-> FALSE, target |-> p]
    BY <1>5 DEF ScalePositionRequests
  <2> QED BY <1>1, <1>2, <2>1, AccountAssumption, AbsentAssumption DEF Request
<1>6. CASE r \in ClosePositionRequests
  <2>1. PICK p \in OpenPositions : \E n \in 1..position[p].quantity :
          r = [code |-> position[p].code, side |-> "sell", quantity |-> n,
               opens |-> FALSE, target |-> p]
    BY <1>6 DEF ClosePositionRequests
  <2> QED BY <1>1, <1>2, <2>1, AbsentAssumption DEF Request, Side
<1> QED BY <1>3, <1>4, <1>5, <1>6

(* The lots after each kind of write. *)
LEMMA LotAfterReleaseType ==
    ASSUME NEW row \in Lot, NEW released \in Nat
    PROVE  LotAfterRelease(row, released) \in Lot
  BY DEF LotAfterRelease, NonNegative, Lot

LEMMA LotAfterSaleType ==
    ASSUME NEW row \in Lot, NEW taken \in Nat
    PROVE  LotAfterSale(row, taken) \in Lot
<1>1. [row EXCEPT !.remaining = @ - taken] \in Lot BY DEF Lot
<1> QED BY <1>1, LotAfterReleaseType DEF LotAfterSale

LEMMA LotsOfFillType ==
    ASSUME TypeOK, NEW side \in Side, NEW p \in PositionId, NEW quantity \in Nat,
           NEW taken, LotsOfFill(side, p, quantity, taken)
    PROVE  lot' \in [LotId -> Lot \cup {Absent}]
<1>1. CASE side = "buy"
  <2>1. NewLot(p, quantity) \in Lot
    BY AccountAssumption DEF NewLot, Lot, TypeOK
  <2> QED BY <1>1, <2>1 DEF LotsOfFill, TypeOK
<1>2. CASE side = "sell"
  <2>1. taken \in [LotId -> 0..quantity] /\ lot' = LotsAfterSale(taken)
    BY <1>2 DEF LotsOfFill, TakesFifo
  <2>2. ASSUME NEW l \in LotId, taken[l] > 0
        PROVE  LotAfterSale(lot[l], taken[l]) \in Lot
    <3>1. lot[l] # Absent
      BY <1>2, <2>1, <2>2 DEF LotsOfFill, TakesFifo, RemainingLots, LotsOf
    <3>2. lot[l] \in Lot BY <3>1 DEF TypeOK
    <3>3. taken[l] \in Nat BY <2>1
    <3> QED BY <3>2, <3>3, LotAfterSaleType
  <2> QED BY <2>1, <2>2 DEF LotsAfterSale, TypeOK
<1> QED BY <1>1, <1>2 DEF Side

LEMMA LotsAfterReleaseType ==
    ASSUME TypeOK, NEW row \in Order, NEW frz \in Freeze \cup {Absent}
    PROVE  LotsAfterRelease(row, frz) \in [LotId -> Lot \cup {Absent}]
<1>1. ASSUME NEW l \in LotId, frz # Absent, l \in LotsOf(row.position)
      PROVE  LotAfterRelease(lot[l], frz.lots[l]) \in Lot
  <2>1. lot[l] \in Lot BY <1>1 DEF TypeOK, LotsOf
  <2>2. frz.lots[l] \in Nat BY <1>1 DEF Freeze
  <2> QED BY <2>1, <2>2, LotAfterReleaseType
<1> QED BY <1>1 DEF LotsAfterRelease, TypeOK

(* The position row a fill writes. *)
LEMMA PositionAfterFillType ==
    ASSUME NEW c \in Code, NEW side \in Side, NEW quantity \in Nat,
           NEW existing \in OpenRow \cup {Absent}
    PROVE  PositionAfterFill(c, side, existing, quantity) \in Position
<1> DEFINE before == IF existing = Absent THEN 0 ELSE existing.row.quantity
<1>1. before \in Int
  BY DEF OpenRow, Position
<1> HIDE DEF before
<1>2. (IF side = "buy" THEN before + quantity
       ELSE IF existing = Absent THEN 0 ELSE before - quantity) \in Int
  BY <1>1
<1> QED BY <1>2 DEF PositionAfterFill, Position, before

LEMMA WatchlistAfterFillType ==
    ASSUME TypeOK, NEW c \in Code, NEW side, NEW existing
    PROVE  WatchlistAfterFill(c, side, existing) \subseteq Code
  BY DEF TypeOK, WatchlistAfterFill

LEMMA TriggersAfterFillType ==
    ASSUME TypeOK, NEW o \in OrderId, NEW row, NEW quantity
    PROVE  TriggersAfterFill(o, row, quantity)
             \subseteq OrderId \X {"order_filled", "order_expired"}
  BY DEF TypeOK, TriggersAfterFill

LEMMA FreezeAfterFillType ==
    ASSUME NEW row \in Order, NEW frz \in Freeze \cup {Absent}, NEW quantity \in Nat,
           NEW taken \in [LotId -> Nat]
    PROVE  FreezeAfterFill(row, frz, quantity, taken) \in Freeze \cup {Absent}
<1> DEFINE rest == row.quantity - row.filled - quantity
<1>1. rest \in Int /\ row.limit \in Nat BY DEF Order
<1>2. EstimatedBuyCost(row.limit, rest) \in Int BY <1>1, CostType
<1>3. [cash |-> EstimatedBuyCost(row.limit, rest), lots |-> NoLots] \in Freeze
  BY <1>2 DEF Freeze, NoLots
<1>4. ASSUME frz # Absent
      PROVE  [cash |-> 0, lots |-> [l \in LotId |-> NonNegative(frz.lots[l] - taken[l])]]
               \in Freeze
  <2>1. \A l \in LotId : frz.lots[l] - taken[l] \in Int BY <1>4 DEF Freeze
  <2>2. \A l \in LotId : NonNegative(frz.lots[l] - taken[l]) \in Nat
    BY <2>1, NonNegativeType
  <2> QED BY <2>2 DEF Freeze
<1> QED BY <1>3, <1>4 DEF FreezeAfterFill

(* The row of a market order when it is placed. *)
LEMMA MarketRowType ==
    ASSUME TypeOK, NEW r \in Request, NEW p \in PositionId
    PROVE  [code |-> r.code, side |-> r.side, type |-> "market", limit |-> 0,
            quantity |-> r.quantity, filled |-> 0, status |-> "pending",
            opens |-> r.opens, position |-> p, created |-> today, expires |-> 0] \in Order
  BY DEF TypeOK, Request, Order, OrderType, OrderStatus

LEMMA StatusAfterFillType ==
    ASSUME NEW row, NEW quantity PROVE StatusAfterFill(row, quantity) \in OrderStatus
  BY DEF StatusAfterFill, OrderStatus

LEMMA WrittenRowType ==
    ASSUME NEW row \in Order, NEW filled \in Int, NEW status \in OrderStatus
    PROVE  [row EXCEPT !.filled = filled, !.status = status] \in Order
  BY DEF Order

LEMMA FilledRowType ==
    ASSUME NEW row \in Order, NEW quantity \in Nat
    PROVE  [row EXCEPT !.filled = quantity, !.status = StatusAfterFill(row, quantity)]
             \in Order
<1>1. StatusAfterFill(row, quantity) \in OrderStatus BY StatusAfterFillType
<1>2. quantity \in Int OBVIOUS
<1> QED BY <1>1, <1>2, WrittenRowType, Zenon

LEMMA CommitMarketFillType ==
    ASSUME TypeOK, NEW o \in OrderId, NEW r \in Request, NEW price \in Nat,
           NEW filled \in Nat, NEW readCash \in Int,
           NEW existing \in OpenRow \cup {Absent},
           CommitMarketFill(o, r, readCash, existing, price, filled)
    PROVE  TypeOK'
<1> USE DEF Request
<1> DEFINE row(p) ==
      [code |-> r.code, side |-> r.side, type |-> "market", limit |-> 0,
       quantity |-> r.quantity, filled |-> 0, status |-> "pending",
       opens |-> r.opens, position |-> p, created |-> today, expires |-> 0]
<1>1. PICK p \in IF existing = Absent THEN UnusedPositions ELSE {existing.id},
           taken \in [LotId -> 0..filled] :
        /\ order' = [order EXCEPT ![o] =
                       [row(p) EXCEPT !.filled = filled,
                                      !.status = StatusAfterFill(row(p), filled)]]
        /\ position' = [position EXCEPT ![p] =
                          PositionAfterFill(r.code, r.side, existing, filled)]
        /\ LotsOfFill(r.side, p, filled, taken)
        /\ crossed' = (crossed \/ \E l \in LotId : taken[l] > 0 /\ lot[l].frozen > 0)
        /\ watchlist' = WatchlistAfterFill(r.code, r.side, existing)
        /\ trigger' = TriggersAfterFill(o, row(p), filled)
        /\ cash' = readCash + CashDelta(r.side, price, filled)
        /\ UNCHANGED <<freeze, today, season, evaluating>>
  BY DEF CommitMarketFill
<1>2. p \in PositionId
  BY DEF UnusedPositions, OpenRow
<1>3. order' \in [OrderId -> Order \cup {Absent}]
  <2>1. row(p) \in Order BY <1>2, MarketRowType
  <2> HIDE DEF row
  <2>2. [row(p) EXCEPT !.filled = filled, !.status = StatusAfterFill(row(p), filled)]
          \in Order
    BY <2>1, FilledRowType, Zenon
  <2> QED BY <1>1, <2>2 DEF TypeOK
<1>4. position' \in [PositionId -> Position \cup {Absent}]
  BY <1>1, <1>2, PositionAfterFillType DEF TypeOK
<1>5. lot' \in [LotId -> Lot \cup {Absent}]
  BY <1>1, <1>2, LotsOfFillType
<1>6. watchlist' \subseteq Code BY <1>1, WatchlistAfterFillType
<1>7. trigger' \subseteq OrderId \X {"order_filled", "order_expired"}
  BY <1>1, TriggersAfterFillType
<1>8. cash' \in Int BY <1>1, CashDeltaType DEF TypeOK
<1>9. crossed' \in BOOLEAN BY <1>1 DEF TypeOK
<1> QED BY <1>1, <1>3, <1>4, <1>5, <1>6, <1>7, <1>8, <1>9 DEF TypeOK

LEMMA CommitLimitFillType ==
    ASSUME TypeOK, NEW o \in OrderId, NEW row \in Order, NEW price \in Nat,
           NEW filled \in Nat, NEW readCash \in Int,
           NEW existing \in OpenRow \cup {Absent}, NEW frz \in Freeze \cup {Absent},
           CommitLimitFill(o, row, readCash, existing, frz, price, filled)
    PROVE  TypeOK'
<1> USE DEF Order
<1>1. PICK p \in IF row.side = "sell" /\ row.position # Absent THEN {row.position}
                ELSE IF existing # Absent THEN {existing.id}
                ELSE IF row.side = "buy" THEN UnusedPositions ELSE {},
           taken \in [LotId -> 0..filled] :
        /\ order' = [order EXCEPT ![o] =
                       [row EXCEPT !.filled = @ + filled,
                                   !.status = StatusAfterFill(row, filled),
                                   !.position = p]]
        /\ position' = [position EXCEPT ![IF existing = Absent THEN p ELSE existing.id] =
                          PositionAfterFill(row.code, row.side, existing, filled)]
        /\ LotsOfFill(row.side, p, filled, taken)
        /\ freeze' = IF frz = Absent THEN freeze
                     ELSE [freeze EXCEPT ![o] = FreezeAfterFill(row, frz, filled, taken)]
        /\ crossed' = (crossed \/ /\ row.side = "sell"
                                  /\ \E l \in LotId :
                                       taken[l] > (IF frz = Absent THEN 0 ELSE frz.lots[l]))
        /\ watchlist' = WatchlistAfterFill(row.code, row.side, existing)
        /\ trigger' = TriggersAfterFill(o, row, filled)
        /\ cash' = readCash + CashDelta(row.side, price, filled)
        /\ UNCHANGED <<today, season, evaluating>>
  BY DEF CommitLimitFill
<1>2. p \in PositionId
  BY DEF UnusedPositions, OpenRow
<1>3. order' \in [OrderId -> Order \cup {Absent}]
  <2>1. StatusAfterFill(row, filled) \in OrderStatus BY StatusAfterFillType
  <2>2. row.filled + filled \in Int OBVIOUS
  <2>3. [row EXCEPT !.filled = @ + filled, !.status = StatusAfterFill(row, filled),
                    !.position = p] \in Order
    BY <1>2, <2>1, <2>2
  <2> QED BY <1>1, <2>3 DEF TypeOK
<1>4. position' \in [PositionId -> Position \cup {Absent}]
  <2>1. existing # Absent => existing.id \in PositionId
    BY DEF OpenRow
  <2> QED BY <1>1, <1>2, <2>1, PositionAfterFillType DEF TypeOK
<1>5. lot' \in [LotId -> Lot \cup {Absent}]
  BY <1>1, <1>2, LotsOfFillType
<1>6. freeze' \in [OrderId -> Freeze \cup {Absent}]
  BY <1>1, FreezeAfterFillType DEF TypeOK
<1>7. watchlist' \subseteq Code BY <1>1, WatchlistAfterFillType
<1>8. trigger' \subseteq OrderId \X {"order_filled", "order_expired"}
  BY <1>1, TriggersAfterFillType
<1>9. cash' \in Int BY <1>1, CashDeltaType DEF TypeOK
<1>10. crossed' \in BOOLEAN BY <1>1 DEF TypeOK
<1> QED BY <1>1, <1>3, <1>4, <1>5, <1>6, <1>7, <1>8, <1>9, <1>10 DEF TypeOK

LEMMA CommitReleaseType ==
    ASSUME TypeOK, NEW o \in OrderId, NEW row \in Order,
           NEW frz \in Freeze \cup {Absent}, NEW status \in OrderStatus,
           CommitRelease(o, row, frz, status)
    PROVE  TypeOK'
<1>1. [row EXCEPT !.status = status] \in Order BY DEF Order
<1>2. order' \in [OrderId -> Order \cup {Absent}]
  BY <1>1 DEF CommitRelease, TypeOK
<1>3. lot' \in [LotId -> Lot \cup {Absent}]
  BY LotsAfterReleaseType DEF CommitRelease
<1>4. freeze' \in [OrderId -> Freeze \cup {Absent}]
  BY DEF CommitRelease, TypeOK
<1>5. trigger' \subseteq OrderId \X {"order_filled", "order_expired"}
  BY DEF CommitRelease, TypeOK
<1> QED BY <1>2, <1>3, <1>4, <1>5 DEF CommitRelease, TypeOK

(* What can be frozen for a limit order: only lots that exist. *)
LEMMA LimitOrderType ==
    ASSUME TypeOK, NEW r \in Request,
           NEW row \in LimitOrders(r), NEW frz \in LimitFreezes(row),
           r.side = "sell" => r.target \in PositionId
    PROVE  /\ row \in Order
           /\ frz \in Freeze
           /\ \A l \in LotId : frz.lots[l] > 0 => lot[l] # Absent
<1>1. row \in Order
  BY AccountAssumption DEF LimitOrders, Request, Order, OrderType, OrderStatus, TypeOK
<1>2. frz \in Freeze
  <2>1. CASE row.side = "buy"
    <3>1. EstimatedBuyCost(row.limit, row.quantity) \in Int
      BY <1>1, CostType DEF Order
    <3> QED BY <2>1, <3>1 DEF LimitFreezes, Freeze, NoLots
  <2>2. CASE row.side = "sell"
    BY <1>1, <2>2 DEF LimitFreezes, TakesFifo, Freeze, Order
  <2> QED BY <1>1, <2>1, <2>2 DEF Order, Side
<1>3. ASSUME NEW l \in LotId, frz.lots[l] > 0
      PROVE  lot[l] # Absent
  <2>1. row.side = "sell" BY <1>1, <1>3 DEF LimitFreezes, NoLots, Order, Side
  <2>2. frz.lots[l] <= SellableLots(row.position)[l]
    BY <1>1, <2>1 DEF LimitFreezes, TakesFifo
  <2> QED BY <1>2, <1>3, <2>2 DEF SellableLots, LotsOf, Freeze
<1> QED BY <1>1, <1>2, <1>3

LEMMA CommitLimitOrderType ==
    ASSUME TypeOK, NEW o \in OrderId, NEW row \in Order, NEW frz \in Freeze,
           \A l \in LotId : frz.lots[l] > 0 => lot[l] # Absent,
           CommitLimitOrder(o, row, frz)
    PROVE  TypeOK'
<1>1. ASSUME NEW l \in LotId, frz.lots[l] > 0
      PROVE  [lot[l] EXCEPT !.frozen = @ + frz.lots[l]] \in Lot
  <2>1. lot[l] \in Lot /\ frz.lots[l] \in Nat
    BY <1>1 DEF TypeOK, Freeze
  <2> QED BY <2>1 DEF Lot
<1> QED BY <1>1 DEF CommitLimitOrder, TypeOK
-----------------------------------------------------------------------------
(* Every step commits one of the four transactions, resets the account, or    *)
(* leaves the tables alone.                                                   *)

(* A sale is of an open position that can sell that much. *)
SaleAllowed(r) ==
    r.side = "sell" =>
        /\ r.target \in PositionId
        /\ IsOpen(r.target)
        /\ position[r.target].code = r.code
        /\ r.quantity <= Sellable(r.target)

MarketStep(o) ==
    /\ order[o] = Absent
    /\ \E r \in Request, price \in Price, filled \in Nat \ {0} :
         /\ filled <= r.quantity
         /\ SaleAllowed(r)
         /\ MarketFillAllowed(r, price, filled)
         /\ \E existing \in ReadOpenPosition(r.code) :
              CommitMarketFill(o, r, cash, existing, price, filled)

LimitStep(o) ==
    /\ order[o] = Absent
    /\ \E r \in Request :
         /\ SaleAllowed(r)
         /\ \E row \in LimitOrders(r) :
              \E frz \in LimitFreezes(row) : CommitLimitOrder(o, row, frz)

(* The transactions of the two placements, when what they commit is still true  *)
(* of the tables: what the checks before them allowed is left out.               *)
MarketCommit(o) ==
    /\ order[o] = Absent
    /\ \E r \in Request, price \in Price, filled \in Nat \ {0} :
         /\ filled <= r.quantity
         /\ \E existing \in ReadOpenPosition(r.code) :
              CommitMarketFill(o, r, cash, existing, price, filled)

RoomFor(frz) ==
    \A l \in LotId : frz.lots[l] > 0 =>
        lot[l] # Absent /\ frz.lots[l] <= lot[l].remaining - lot[l].frozen

Placed(row) ==
    /\ row.type = "limit" /\ row.limit \in Price
    /\ row.quantity \in Nat \ {0} /\ row.filled = 0 /\ row.status = "pending"

LimitCommit(o) ==
    /\ order[o] = Absent
    /\ \E row \in Order, frz \in Freeze :
         Placed(row) /\ RoomFor(frz) /\ CommitLimitOrder(o, row, frz)

ReleaseStep(o) ==
    /\ IsActive(order[o])
    /\ \E status \in {"cancelled", "expired"} :
         CommitRelease(o, order[o], freeze[o], status)

FillStep(o) ==
    /\ IsActive(order[o])
    /\ \E price \in Price, filled \in 1..(order[o].quantity - order[o].filled) :
         /\ Matches(order[o], price)
         /\ \E existing \in ReadOpenPosition(order[o].code) :
              CommitLimitFill(o, order[o], cash, existing, freeze[o], price, filled)

QuietStep ==
    /\ UNCHANGED <<cash, tables, season, crossed>>
    /\ watchlist' \subseteq Code
    /\ today' \in Day /\ today <= today'
    /\ evaluating' \in BOOLEAN

LEMMA PlacementKinds ==
    ASSUME TypeOK, NEW o \in OrderId,
           NEW r \in PlaceOrderRequests \cup OpenPositionRequests
                     \cup ScalePositionRequests \cup ClosePositionRequests,
           HandlePlaceOrder(o, r)
    PROVE  MarketStep(o) \/ LimitStep(o)
<1>1. r \in Request /\ SaleAllowed(r)
  BY RequestType DEF SaleAllowed, HandlePlaceOrder, PlaceMarketOrder, PlaceLimitOrder,
                     PlacementAllowed
<1>2. CASE PlaceMarketOrder(o, r)
  <2>1. PICK price \in Price, filled \in 1..r.quantity :
          /\ MarketFillAllowed(r, price, filled)
          /\ \E existing \in ReadOpenPosition(r.code) :
               CommitMarketFill(o, r, cash, existing, price, filled)
    BY <1>2 DEF PlaceMarketOrder
  <2>2. filled \in Nat \ {0} /\ filled <= r.quantity
    BY <1>1 DEF Request
  <2> QED BY <1>1, <1>2, <2>1, <2>2 DEF MarketStep, PlaceMarketOrder, PlacementAllowed
<1>3. CASE PlaceLimitOrder(o, r)
  BY <1>1, <1>3 DEF LimitStep, PlaceLimitOrder, PlacementAllowed
<1> QED BY <1>2, <1>3 DEF HandlePlaceOrder

LEMMA QuietSteps ==
    ASSUME TypeOK, StartEvaluation \/ FinishEvaluation \/ NextDay \/ UNCHANGED vars
    PROVE  QuietStep
<1>1. today \in Nat BY AccountAssumption DEF TypeOK
<1>2. CASE StartEvaluation
  BY <1>1, <1>2 DEF StartEvaluation, QuietStep, TypeOK
<1>3. CASE FinishEvaluation
  <2>1. /\ UNCHANGED <<cash, tables, season, crossed>>
        /\ watchlist' = watchlist /\ today' = today /\ evaluating' = FALSE
    BY <1>3 DEF FinishEvaluation
  <2>2. evaluating' \in BOOLEAN BY <2>1, Zenon
  <2>3. watchlist' \subseteq Code /\ today' \in Day /\ today <= today'
    BY <1>1, <2>1 DEF TypeOK
  <2> QED BY <2>1, <2>2, <2>3, Zenon DEF QuietStep
<1>4. CASE NextDay
  BY <1>1, <1>4 DEF NextDay, QuietStep, TypeOK, tables
<1>5. CASE UNCHANGED vars
  BY <1>1, <1>5 DEF vars, tables, QuietStep, TypeOK
<1> QED BY <1>2, <1>3, <1>4, <1>5

LEMMA StepKinds ==
    ASSUME TypeOK, [Next]_vars
    PROVE  \/ \E o \in OrderId :
                MarketStep(o) \/ LimitStep(o) \/ ReleaseStep(o) \/ FillStep(o)
           \/ ResetAccount
           \/ QuietStep
<1>0. today \in Nat BY AccountAssumption DEF TypeOK
<1>1. CASE Operate
  <2>1. PICK o \in OrderId : \/ PlaceOrder(o)
                             \/ OpenPosition(o)
                             \/ ScalePosition(o)
                             \/ ClosePosition(o)
                             \/ CancelOrder(o)
    BY <1>1 DEF Operate
  <2>2. CASE CancelOrder(o) BY <2>2 DEF CancelOrder, ReleaseStep
  <2>3. CASE ~ CancelOrder(o)
    BY <2>1, <2>3, PlacementKinds DEF PlaceOrder, OpenPosition, ScalePosition, ClosePosition
  <2> QED BY <2>2, <2>3
<1>2. CASE Evaluate
  <2>1. ASSUME NEW o \in OrderId, ExpireOrder(o) PROVE ReleaseStep(o)
    BY <2>1 DEF ExpireOrder, ReleaseStep
  <2>2. ASSUME NEW o \in OrderId, FillLimitOrder(o) PROVE FillStep(o)
    BY <2>2 DEF FillLimitOrder, FillStep
  <2> QED BY <1>2, <2>1, <2>2, QuietSteps DEF Evaluate
<1>3. ASSUME NEW c \in Code, AddToWatchlist(c) \/ RemoveFromWatchlist(c) PROVE QuietStep
  BY <1>0, <1>3 DEF AddToWatchlist, RemoveFromWatchlist, QuietStep, TypeOK
<1> QED BY <1>1, <1>2, <1>3, QuietSteps DEF Next

LEMMA MarketStepCommits ==
    ASSUME NEW o \in OrderId, MarketStep(o)
    PROVE  MarketCommit(o)
  BY DEF MarketStep, MarketCommit

(* What a placement reads and is about to freeze. *)
LEMMA LimitReads ==
    ASSUME TypeOK, NEW r \in Request, SaleAllowed(r),
           NEW row \in LimitOrders(r), NEW frz \in LimitFreezes(row)
    PROVE  row \in Order /\ frz \in Freeze /\ Placed(row) /\ RoomFor(frz)
<1>1. row \in Order /\ frz \in Freeze /\ \A l \in LotId : frz.lots[l] > 0 => lot[l] # Absent
  BY LimitOrderType DEF SaleAllowed
<1>2. Placed(row) BY DEF LimitOrders, Request, Placed
<1>3. ASSUME NEW l \in LotId, frz.lots[l] > 0
      PROVE  frz.lots[l] <= lot[l].remaining - lot[l].frozen
  <2>1. row.side = "sell" BY <1>1, <1>3 DEF LimitFreezes, NoLots, Order, Side
  <2>2. frz.lots[l] <= SellableLots(row.position)[l]
    BY <1>1, <2>1 DEF LimitFreezes, TakesFifo
  <2>3. lot[l] \in Lot /\ frz.lots[l] \in Nat BY <1>1, <1>3 DEF TypeOK, Freeze
  <2> QED BY <1>3, <2>2, <2>3 DEF SellableLots, NonNegative, Lot
<1> QED BY <1>1, <1>2, <1>3 DEF RoomFor

LEMMA LimitStepCommits ==
    ASSUME TypeOK, NEW o \in OrderId, LimitStep(o)
    PROVE  LimitCommit(o)
<1>1. PICK r \in Request :
        /\ SaleAllowed(r)
        /\ \E row \in LimitOrders(r) : \E frz \in LimitFreezes(row) :
             CommitLimitOrder(o, row, frz)
  BY DEF LimitStep
<1>2. PICK row \in LimitOrders(r) : \E frz \in LimitFreezes(row) : CommitLimitOrder(o, row, frz)
  BY <1>1
<1>3. PICK frz \in LimitFreezes(row) : CommitLimitOrder(o, row, frz)
  BY <1>2
<1>4. row \in Order /\ frz \in Freeze /\ Placed(row) /\ RoomFor(frz) BY <1>1, LimitReads
<1> QED BY <1>3, <1>4 DEF LimitStep, LimitCommit
-----------------------------------------------------------------------------
(* A table without rows has the type of every table. *)
LEMMA EmptyTableTypes ==
    /\ EmptyTable(OrderId) \in [OrderId -> Order \cup {Absent}]
    /\ EmptyTable(OrderId) \in [OrderId -> Freeze \cup {Absent}]
    /\ EmptyTable(PositionId) \in [PositionId -> Position \cup {Absent}]
    /\ EmptyTable(LotId) \in [LotId -> Lot \cup {Absent}]
  BY DEF EmptyTable

LEMMA InitTyped == Init => TypeOK
<1> SUFFICES ASSUME Init PROVE TypeOK
  OBVIOUS
<1>1. today \in Day BY DEF Init
<1>2. season \in 0..MaxSeason /\ cash \in Int BY AccountAssumption DEF Init
<1> QED BY <1>1, <1>2, EmptyTableTypes DEF Init, TypeOK

LEMMA ResetTyped == ASSUME TypeOK, ResetAccount PROVE TypeOK'
<1>1. cash' \in Int /\ season' \in 0..MaxSeason
  BY AccountAssumption DEF ResetAccount, TypeOK
<1> QED BY <1>1, EmptyTableTypes DEF ResetAccount, TypeOK

(* The tables always hold rows of their types: whatever a handler or the       *)
(* evaluator commits is a row of the table it is committed to.                 *)
THEOREM Typing == Spec => []TypeOK
<1>1. Init => TypeOK BY InitTyped
<1>2. ASSUME TypeOK, [Next]_vars PROVE TypeOK'
  <2>1. ASSUME NEW o \in OrderId, MarketStep(o) PROVE TypeOK'
    <3>1. PICK r \in Request, price \in Price, filled \in Nat \ {0} :
            \E existing \in ReadOpenPosition(r.code) :
              CommitMarketFill(o, r, cash, existing, price, filled)
      BY <2>1 DEF MarketStep
    <3>2. r.code \in Code /\ cash \in Int BY <1>2 DEF Request, TypeOK
    <3> QED BY <1>2, <3>1, <3>2, ReadOpenRow, CommitMarketFillType, AccountAssumption
  <2>2. ASSUME NEW o \in OrderId, LimitStep(o) PROVE TypeOK'
    BY <1>2, <2>2, LimitOrderType, CommitLimitOrderType DEF LimitStep, SaleAllowed
  <2>3. ASSUME NEW o \in OrderId, ReleaseStep(o) PROVE TypeOK'
    <3>1. order[o] \in Order /\ freeze[o] \in Freeze \cup {Absent}
      BY <1>2, <2>3 DEF TypeOK, ReleaseStep, IsActive
    <3>2. PICK status \in {"cancelled", "expired"} :
            CommitRelease(o, order[o], freeze[o], status)
      BY <2>3 DEF ReleaseStep
    <3>3. status \in OrderStatus BY DEF OrderStatus
    <3> QED BY <1>2, <3>1, <3>2, <3>3, CommitReleaseType
  <2>4. ASSUME NEW o \in OrderId, FillStep(o) PROVE TypeOK'
    <3>1. order[o] \in Order /\ freeze[o] \in Freeze \cup {Absent}
      BY <1>2, <2>4 DEF TypeOK, FillStep, IsActive
    <3>2. PICK price \in Price, filled \in 1..(order[o].quantity - order[o].filled) :
            \E existing \in ReadOpenPosition(order[o].code) :
              CommitLimitFill(o, order[o], cash, existing, freeze[o], price, filled)
      BY <2>4 DEF FillStep
    <3>3. filled \in Nat /\ price \in Nat
      BY <3>1, <3>2, AccountAssumption DEF Order
    <3>4. order[o].code \in Code /\ cash \in Int BY <1>2, <3>1 DEF Order, TypeOK
    <3> QED BY <1>2, <3>1, <3>2, <3>3, <3>4, ReadOpenRow, CommitLimitFillType
  <2>5. CASE ResetAccount
    BY <1>2, <2>5, ResetTyped
  <2>6. CASE QuietStep
    BY <1>2, <2>6 DEF QuietStep, tables, TypeOK
  <2> QED BY <1>2, <2>1, <2>2, <2>3, <2>4, <2>5, <2>6, StepKinds
<1> QED BY <1>1, <1>2, PTL DEF Spec
-----------------------------------------------------------------------------
(* The invariants that hold whatever sales consume, and the refinement of     *)
(* OrderLifecycle.                                                            *)

Bounded(row) ==
    /\ row.remaining \in 0..row.quantity
    /\ row.frozen \in 0..row.remaining

(* A release and a sale of what a lot has keep its amounts in their bounds. *)
LEMMA ReleaseBounded ==
    ASSUME NEW row \in Lot, Bounded(row), NEW released \in Nat
    PROVE  Bounded(LotAfterRelease(row, released))
  BY DEF LotAfterRelease, NonNegative, Lot, Bounded

LEMMA SaleBounded ==
    ASSUME NEW row \in Lot, Bounded(row), NEW taken \in Nat, taken <= row.remaining
    PROVE  Bounded(LotAfterSale(row, taken))
<1> DEFINE left == [row EXCEPT !.remaining = @ - taken]
<1>1. left \in Lot /\ left.quantity = row.quantity
      /\ left.remaining = row.remaining - taken /\ left.frozen = row.frozen
  BY DEF Lot
<1>2. LotAfterSale(row, taken) = LotAfterRelease(left, taken)
  BY DEF LotAfterSale
<1> HIDE DEF left
<1>3. Bounded(LotAfterRelease(left, taken))
  BY <1>1 DEF LotAfterRelease, NonNegative, Lot, Bounded
<1> QED BY <1>2, <1>3

(* The lots a fill leaves. *)
LEMMA LotsOfFillBounded ==
    ASSUME TypeOK, LotsWithinBounds, NEW side \in Side, NEW p \in PositionId,
           NEW quantity \in Nat, NEW taken, LotsOfFill(side, p, quantity, taken)
    PROVE  LotsWithinBounds'
<1>1. SUFFICES ASSUME NEW l \in LotId, lot'[l] # Absent PROVE Bounded(lot'[l])
  BY DEF LotsWithinBounds, Bounded
<1>2. CASE side = "buy"
  <2>1. PICK k \in NextLot : lot' = [lot EXCEPT ![k] = NewLot(p, quantity)]
    BY <1>2 DEF LotsOfFill
  <2>2. CASE l = k
    BY <2>1, <2>2 DEF NewLot, Bounded, TypeOK
  <2>3. CASE l # k
    BY <1>1, <2>1, <2>3 DEF LotsWithinBounds, Bounded, TypeOK
  <2> QED BY <2>2, <2>3
<1>3. CASE side = "sell"
  <2>1. /\ taken \in [LotId -> 0..quantity]
        /\ taken[l] <= RemainingLots(p)[l]
        /\ lot' = LotsAfterSale(taken)
    BY <1>3 DEF LotsOfFill, TakesFifo
  <2>2. CASE taken[l] > 0
    <3>1. lot[l] # Absent /\ taken[l] <= lot[l].remaining
      BY <2>1, <2>2 DEF RemainingLots, LotsOf
    <3>2. lot[l] \in Lot /\ Bounded(lot[l]) /\ taken[l] \in Nat
      BY <2>1, <3>1 DEF TypeOK, LotsWithinBounds, Bounded
    <3>3. lot'[l] = LotAfterSale(lot[l], taken[l])
      BY <2>1, <2>2 DEF LotsAfterSale
    <3> QED BY <3>1, <3>2, <3>3, SaleBounded
  <2>3. CASE ~ (taken[l] > 0)
    BY <1>1, <2>1, <2>3 DEF LotsAfterSale, LotsWithinBounds, Bounded
  <2> QED BY <2>2, <2>3
<1> QED BY <1>2, <1>3 DEF Side

LEMMA CommitMarketFillLots ==
    ASSUME NEW o, NEW r, NEW price, NEW filled, NEW readCash,
           NEW existing \in OpenRow \cup {Absent},
           CommitMarketFill(o, r, readCash, existing, price, filled)
    PROVE  \E p \in PositionId : \E taken : LotsOfFill(r.side, p, filled, taken)
<1>1. PICK p \in IF existing = Absent THEN UnusedPositions ELSE {existing.id} :
        \E taken \in [LotId -> 0..filled] : LotsOfFill(r.side, p, filled, taken)
  BY DEF CommitMarketFill
<1>2. p \in PositionId
  BY DEF UnusedPositions, OpenRow
<1> QED BY <1>1, <1>2

LEMMA CommitLimitFillLots ==
    ASSUME NEW o, NEW row \in Order, NEW price, NEW filled, NEW readCash,
           NEW existing \in OpenRow \cup {Absent}, NEW frz,
           CommitLimitFill(o, row, readCash, existing, frz, price, filled)
    PROVE  \E p \in PositionId : \E taken : LotsOfFill(row.side, p, filled, taken)
<1>1. PICK p \in IF row.side = "sell" /\ row.position # Absent THEN {row.position}
                ELSE IF existing # Absent THEN {existing.id}
                ELSE IF row.side = "buy" THEN UnusedPositions ELSE {} :
        \E taken \in [LotId -> 0..filled] : LotsOfFill(row.side, p, filled, taken)
  BY DEF CommitLimitFill
<1>2. p \in PositionId
  BY DEF UnusedPositions, OpenRow, Order
<1> QED BY <1>1, <1>2

(* Each transaction keeps the lots in their bounds. *)
LEMMA MarketBounded ==
    ASSUME TypeOK, LotsWithinBounds, NEW o \in OrderId, MarketCommit(o)
    PROVE  LotsWithinBounds'
<1>1. PICK r \in Request, price \in Price, filled \in Nat \ {0} :
        \E existing \in ReadOpenPosition(r.code) :
          CommitMarketFill(o, r, cash, existing, price, filled)
  BY DEF MarketCommit
<1>2. r.side \in Side /\ r.code \in Code BY DEF Request
<1>3. PICK p \in PositionId : \E taken : LotsOfFill(r.side, p, filled, taken)
  BY <1>1, <1>2, ReadOpenRow, CommitMarketFillLots
<1> QED BY <1>2, <1>3, LotsOfFillBounded

(* A limit sale freezes only shares that are left and not frozen yet. *)
LEMMA LimitBounded ==
    ASSUME TypeOK, LotsWithinBounds, NEW o \in OrderId, LimitCommit(o)
    PROVE  LotsWithinBounds'
<1>1. SUFFICES ASSUME NEW l \in LotId, lot'[l] # Absent PROVE Bounded(lot'[l])
  BY DEF LotsWithinBounds, Bounded
<1>2. PICK row \in Order, frz \in Freeze : RoomFor(frz) /\ CommitLimitOrder(o, row, frz)
  BY DEF LimitCommit
<1>3. CASE frz.lots[l] > 0
  <2>1. lot[l] # Absent /\ frz.lots[l] <= lot[l].remaining - lot[l].frozen
    BY <1>2, <1>3 DEF RoomFor
  <2>2. lot[l] \in Lot /\ Bounded(lot[l]) /\ frz.lots[l] \in Nat
    BY <2>1 DEF TypeOK, Freeze, LotsWithinBounds, Bounded
  <2>3. lot'[l] = [lot[l] EXCEPT !.frozen = @ + frz.lots[l]]
    BY <1>2, <1>3 DEF CommitLimitOrder
  <2> QED BY <2>1, <2>2, <2>3 DEF Bounded, Lot
<1>4. CASE ~ (frz.lots[l] > 0)
  BY <1>1, <1>2, <1>4 DEF CommitLimitOrder, LotsWithinBounds, Bounded
<1> QED BY <1>3, <1>4

LEMMA ReleaseStepBounded ==
    ASSUME TypeOK, LotsWithinBounds, NEW o \in OrderId, ReleaseStep(o)
    PROVE  LotsWithinBounds'
<1>1. SUFFICES ASSUME NEW l \in LotId, lot'[l] # Absent PROVE Bounded(lot'[l])
  BY DEF LotsWithinBounds, Bounded
<1>2. lot' = LotsAfterRelease(order[o], freeze[o])
  BY DEF ReleaseStep, CommitRelease
<1>3. CASE freeze[o] # Absent /\ l \in LotsOf(order[o].position)
  <2>1. freeze[o].lots[l] \in Nat /\ lot[l] \in Lot /\ Bounded(lot[l])
    BY <1>3 DEF TypeOK, Freeze, LotsOf, LotsWithinBounds, Bounded
  <2> QED BY <1>1, <1>2, <2>1, ReleaseBounded DEF LotsAfterRelease
<1>4. CASE ~ (freeze[o] # Absent /\ l \in LotsOf(order[o].position))
  BY <1>1, <1>2, <1>4 DEF LotsAfterRelease, LotsWithinBounds, Bounded
<1> QED BY <1>3, <1>4

LEMMA FillBounded ==
    ASSUME TypeOK, LotsWithinBounds, NEW o \in OrderId, FillStep(o)
    PROVE  LotsWithinBounds'
<1>1. order[o] \in Order BY DEF TypeOK, FillStep, IsActive
<1>2. PICK price \in Price, filled \in 1..(order[o].quantity - order[o].filled) :
        \E existing \in ReadOpenPosition(order[o].code) :
          CommitLimitFill(o, order[o], cash, existing, freeze[o], price, filled)
  BY DEF FillStep
<1>3. filled \in Nat /\ order[o].side \in Side BY <1>1, <1>2 DEF Order
<1>4. PICK p \in PositionId : \E taken : LotsOfFill(order[o].side, p, filled, taken)
  BY <1>1, <1>2, <1>3, ReadOpenRow, CommitLimitFillLots DEF Order
<1> QED BY <1>3, <1>4, LotsOfFillBounded

(* No lot is oversold, and none holds more frozen shares than it has left.     *)
THEOREM LotsStayWithinBounds == Spec => []LotsWithinBounds
<1>1. Init => LotsWithinBounds
  BY DEF Init, LotsWithinBounds, EmptyTable
<1>2. ASSUME TypeOK, LotsWithinBounds, [Next]_vars PROVE LotsWithinBounds'
  <2>1. CASE ResetAccount
    BY <2>1 DEF ResetAccount, EmptyTable, LotsWithinBounds
  <2>2. CASE QuietStep
    BY <1>2, <2>2 DEF QuietStep, tables, LotsWithinBounds
  <2> QED BY <1>2, <2>1, <2>2, StepKinds, MarketStepCommits, LimitStepCommits,
             MarketBounded, LimitBounded, ReleaseStepBounded, FillBounded
<1> QED BY <1>1, <1>2, Typing, PTL DEF Spec
-----------------------------------------------------------------------------
(* The row a fill writes for a position: it was read open in the code, or it   *)
(* is new and nothing was open in the code, or it closes.                      *)
LEMMA PositionWriteKeepsOne ==
    ASSUME TypeOK, OnePositionPerCode, NEW c \in Code, NEW side \in Side,
           NEW quantity \in Nat, NEW existing \in ReadOpenPosition(c),
           NEW p \in PositionId, existing # Absent => p = existing.id,
           position' = [position EXCEPT ![p] =
                          PositionAfterFill(c, side, existing, quantity)]
    PROVE  OnePositionPerCode'
<1> DEFINE row == PositionAfterFill(c, side, existing, quantity)
<1>1. SUFFICES ASSUME NEW i \in PositionId, NEW j \in PositionId, i # j,
                      i = p \/ i # p, j = p \/ j # p,
                      position'[i] # Absent, position'[i].status = "open",
                      position'[j] # Absent, position'[j].status = "open",
                      position'[i].code = position'[j].code
               PROVE  FALSE
  BY DEF OnePositionPerCode, OpenPositions, IsOpen
<1>2. row.code = c /\ position'[p] = row
  BY DEF PositionAfterFill, TypeOK
<1>3. \A k \in PositionId : k # p => position'[k] = position[k]
  BY DEF TypeOK
<1>4. ASSUME NEW k \in PositionId, k # p, position'[k] # Absent,
             position'[k].status = "open"
      PROVE  k \in OpenPositions
  BY <1>3, <1>4 DEF OpenPositions, IsOpen
<1>5. CASE i # p /\ j # p
  BY <1>1, <1>3, <1>4, <1>5 DEF OnePositionPerCode
<1>6. CASE i = p \/ j = p
  <2>1. PICK k \in {i, j} : k # p BY <1>1
  <2>2. k \in OpenPositions /\ position[k].code = c
    BY <1>1, <1>2, <1>3, <1>4, <1>6, <2>1
  <2>3. existing # Absent /\ existing.id \in OpenPositions
        /\ position[existing.id].code = c
    BY <2>2, ReadOpenPositionType
  <2> QED BY <2>1, <2>2, <2>3 DEF OnePositionPerCode
<1> QED BY <1>5, <1>6

LEMMA MarketKeepsOne ==
    ASSUME TypeOK, OnePositionPerCode, NEW o \in OrderId, MarketCommit(o)
    PROVE  OnePositionPerCode'
<1>1. PICK r \in Request, filled \in Nat \ {0} :
        \E price \in Price : \E existing \in ReadOpenPosition(r.code) :
          CommitMarketFill(o, r, cash, existing, price, filled)
  BY DEF MarketCommit
<1>2. PICK existing \in ReadOpenPosition(r.code) :
        \E p \in IF existing = Absent THEN UnusedPositions ELSE {existing.id} :
          position' = [position EXCEPT ![p] =
                         PositionAfterFill(r.code, r.side, existing, filled)]
  BY <1>1 DEF CommitMarketFill
<1>3. PICK p \in IF existing = Absent THEN UnusedPositions ELSE {existing.id} :
        position' = [position EXCEPT ![p] =
                       PositionAfterFill(r.code, r.side, existing, filled)]
  BY <1>2
<1>4. r.code \in Code /\ r.side \in Side BY DEF Request
<1>5. p \in PositionId
  BY <1>4, ReadOpenPositionType DEF UnusedPositions, OpenPositions
<1> QED BY <1>3, <1>4, <1>5, PositionWriteKeepsOne

LEMMA FillKeepsOne ==
    ASSUME TypeOK, OnePositionPerCode, NEW o \in OrderId, FillStep(o)
    PROVE  OnePositionPerCode'
<1> DEFINE row == order[o]
<1>1. row \in Order BY DEF TypeOK, FillStep, IsActive
<1>2. PICK filled \in 1..(row.quantity - row.filled) :
        \E price \in Price : \E existing \in ReadOpenPosition(row.code) :
          CommitLimitFill(o, row, cash, existing, freeze[o], price, filled)
  BY DEF FillStep
<1>3. PICK existing \in ReadOpenPosition(row.code) :
        \E p \in IF row.side = "sell" /\ row.position # Absent THEN {row.position}
                 ELSE IF existing # Absent THEN {existing.id}
                 ELSE IF row.side = "buy" THEN UnusedPositions ELSE {} :
          position' = [position EXCEPT ![IF existing = Absent THEN p ELSE existing.id] =
                         PositionAfterFill(row.code, row.side, existing, filled)]
  BY <1>2 DEF CommitLimitFill
<1>4. PICK p \in IF row.side = "sell" /\ row.position # Absent THEN {row.position}
                 ELSE IF existing # Absent THEN {existing.id}
                 ELSE IF row.side = "buy" THEN UnusedPositions ELSE {} :
        position' = [position EXCEPT ![IF existing = Absent THEN p ELSE existing.id] =
                       PositionAfterFill(row.code, row.side, existing, filled)]
  BY <1>3
<1>5. p \in PositionId
  BY <1>1, <1>3, ReadOpenPositionType
  DEF UnusedPositions, OpenPositions, Order
<1>6. existing # Absent => existing.id \in PositionId
  BY <1>1, <1>3, ReadOpenPositionType DEF OpenPositions, Order
<1>7. row.code \in Code /\ row.side \in Side /\ filled \in Nat
  BY <1>1, <1>2 DEF Order
<1> HIDE DEF row
<1>8. PICK q \in PositionId :
        /\ q = IF existing = Absent THEN p ELSE existing.id
        /\ position' = [position EXCEPT ![q] =
                          PositionAfterFill(row.code, row.side, existing, filled)]
  BY <1>5, <1>6, <1>4
<1> QED BY <1>3, <1>7, <1>8, PositionWriteKeepsOne

LEMMA SamePositionsKeepOne ==
    ASSUME OnePositionPerCode, position' = position
    PROVE  OnePositionPerCode'
  BY DEF OnePositionPerCode, OpenPositions, IsOpen

(* A code never has two open positions. *)
THEOREM OnePosition == Spec => []OnePositionPerCode
<1>1. Init => OnePositionPerCode
  BY DEF Init, OnePositionPerCode, OpenPositions, IsOpen, EmptyTable
<1>2. ASSUME TypeOK, OnePositionPerCode, [Next]_vars PROVE OnePositionPerCode'
  <2>1. ASSUME NEW o \in OrderId, LimitStep(o) PROVE position' = position
    BY <2>1 DEF LimitStep, CommitLimitOrder
  <2>2. ASSUME NEW o \in OrderId, ReleaseStep(o) PROVE position' = position
    BY <2>2 DEF ReleaseStep, CommitRelease
  <2>3. QuietStep => position' = position BY DEF QuietStep, tables
  <2>4. CASE ResetAccount
    BY <2>4
    DEF ResetAccount, OnePositionPerCode, OpenPositions, IsOpen, EmptyTable
  <2> QED BY <1>2, <2>1, <2>2, <2>3, <2>4, StepKinds, MarketStepCommits, MarketKeepsOne,
             FillKeepsOne, SamePositionsKeepOne
<1> QED BY <1>1, <1>2, Typing, PTL DEF Spec
-----------------------------------------------------------------------------
(* What each transaction does to the order, its freeze and the triggers.       *)

Writes(o, row, frz, raised) ==
    /\ order' = [order EXCEPT ![o] = row]
    /\ freeze' = [freeze EXCEPT ![o] = frz]
    /\ trigger' = trigger \cup raised

RaisedBy(o, row) ==
    CASE row.status = "filled"  -> {<<o, "order_filled">>}
      [] row.status = "expired" -> {<<o, "order_expired">>}
      [] OTHER                  -> {}

StatusOf(row) == IF row.filled = row.quantity THEN "filled" ELSE "partially_filled"

LEMMA MarketEffect ==
    ASSUME TypeOK, FreezeWhileActive, NEW o \in OrderId, MarketCommit(o)
    PROVE  \E row \in Order :
             /\ Writes(o, row, Absent, RaisedBy(o, row))
             /\ row.type = "market"
             /\ row.filled \in 1..row.quantity
             /\ row.status = StatusOf(row)
<1>1. PICK r \in Request, price \in Price, filled \in Nat \ {0} :
        /\ filled <= r.quantity
        /\ \E existing \in ReadOpenPosition(r.code) :
             CommitMarketFill(o, r, cash, existing, price, filled)
  BY DEF MarketCommit
<1> DEFINE placed(p) ==
      [code |-> r.code, side |-> r.side, type |-> "market", limit |-> 0,
       quantity |-> r.quantity, filled |-> 0, status |-> "pending",
       opens |-> r.opens, position |-> p, created |-> today, expires |-> 0]
<1>2. PICK existing \in ReadOpenPosition(r.code) :
        \E p \in IF existing = Absent THEN UnusedPositions ELSE {existing.id} :
          /\ order' = [order EXCEPT ![o] =
                         [placed(p) EXCEPT !.filled = filled,
                                           !.status = StatusAfterFill(placed(p), filled)]]
          /\ trigger' = TriggersAfterFill(o, placed(p), filled)
          /\ freeze' = freeze
  BY <1>1 DEF CommitMarketFill
<1>3. PICK p \in IF existing = Absent THEN UnusedPositions ELSE {existing.id} :
        /\ order' = [order EXCEPT ![o] =
                       [placed(p) EXCEPT !.filled = filled,
                                         !.status = StatusAfterFill(placed(p), filled)]]
        /\ trigger' = TriggersAfterFill(o, placed(p), filled)
        /\ freeze' = freeze
  BY <1>2
<1>4. p \in PositionId
  BY ReadOpenPositionType DEF UnusedPositions, OpenPositions, Request
<1>5. PICK before \in Order :
        /\ before = placed(p)
        /\ before.type = "market" /\ before.quantity = r.quantity /\ before.filled = 0
  BY <1>4, MarketRowType
<1>6. PICK status \in OrderStatus :
        status = StatusAfterFill(before, filled)
  BY StatusAfterFillType
<1>7. status = IF filled = r.quantity THEN "filled" ELSE "partially_filled"
  BY <1>1, <1>5, <1>6 DEF StatusAfterFill, Request
<1> HIDE DEF placed
<1>8. PICK row : row = [before EXCEPT !.filled = filled, !.status = status]
  OBVIOUS
<1>9. /\ row \in Order /\ row.type = "market" /\ row.quantity = r.quantity
      /\ row.filled = filled /\ row.status = status
  <2>1. filled \in Int OBVIOUS
  <2>2. row \in Order BY <1>8, <2>1, WrittenRowType
  <2> QED BY <1>5, <1>8, <2>2 DEF Order
<1>10. order' = [order EXCEPT ![o] = row]
  BY <1>3, <1>5, <1>6, <1>8
<1>11. trigger' = trigger \cup RaisedBy(o, row)
  BY <1>3, <1>5, <1>6, <1>7, <1>9 DEF TriggersAfterFill, RaisedBy
<1>12. freeze' = [freeze EXCEPT ![o] = Absent]
  <2>1. freeze[o] = Absent BY DEF MarketCommit, FreezeWhileActive, IsActive
  <2> QED BY <1>3, <2>1 DEF TypeOK
<1>13. row.filled \in 1..row.quantity /\ row.status = StatusOf(row)
  BY <1>1, <1>7, <1>9 DEF Request, StatusOf
<1> QED BY <1>9, <1>10, <1>11, <1>12, <1>13 DEF Writes

LEMMA LimitEffect ==
    ASSUME TypeOK, NEW o \in OrderId, LimitCommit(o)
    PROVE  \E row \in Order, frz \in Freeze :
             /\ Writes(o, row, frz, {})
             /\ row.type = "limit"
             /\ row.quantity \in Nat \ {0}
             /\ row.filled = 0
             /\ row.status = "pending"
  BY DEF LimitCommit, CommitLimitOrder, Placed, Writes

LEMMA ReleaseEffect ==
    ASSUME TypeOK, NEW o \in OrderId, ReleaseStep(o)
    PROVE  \E row \in Order, status \in {"cancelled", "expired"} :
             /\ row = [order[o] EXCEPT !.status = status]
             /\ row.status = status
             /\ Writes(o, row, Absent, RaisedBy(o, row))
<1>1. PICK status \in {"cancelled", "expired"} :
        CommitRelease(o, order[o], freeze[o], status)
  BY DEF ReleaseStep
<1>2. order[o] \in Order BY DEF TypeOK, ReleaseStep, IsActive
<1>3. PICK row : row = [order[o] EXCEPT !.status = status] OBVIOUS
<1>4. row \in Order /\ row.status = status BY <1>2, <1>3 DEF Order, OrderStatus
<1>5. freeze' = [freeze EXCEPT ![o] = Absent]
  BY <1>1 DEF CommitRelease, TypeOK
<1> QED BY <1>1, <1>3, <1>4, <1>5 DEF CommitRelease, Writes, RaisedBy

LEMMA FillEffect ==
    ASSUME TypeOK, FreezeWhileActive, NEW o \in OrderId, FillStep(o)
    PROVE  \E row \in Order, frz \in Freeze \cup {Absent} :
             /\ Writes(o, row, frz, IF row.status = "filled" THEN RaisedBy(o, row) ELSE {})
             /\ row.type = order[o].type
             /\ row.quantity = order[o].quantity
             /\ row.filled \in (order[o].filled + 1)..row.quantity
             /\ row.status = StatusOf(row)
             /\ frz = Absent <=> row.status = "filled"
<1> DEFINE before == order[o]
<1>1. before \in Order /\ freeze[o] \in Freeze
  BY DEF TypeOK, FillStep, IsActive, FreezeWhileActive
<1>2. PICK filled \in 1..(before.quantity - before.filled) :
        \E price \in Price : \E existing \in ReadOpenPosition(before.code) :
          CommitLimitFill(o, before, cash, existing, freeze[o], price, filled)
  BY DEF FillStep
<1>3. filled \in Nat BY <1>1, <1>2 DEF Order
<1>4. PICK existing \in ReadOpenPosition(before.code) :
        \E p \in IF before.side = "sell" /\ before.position # Absent
                 THEN {before.position}
                 ELSE IF existing # Absent THEN {existing.id}
                 ELSE IF before.side = "buy" THEN UnusedPositions ELSE {} :
          \E taken \in [LotId -> 0..filled] :
            /\ order' = [order EXCEPT ![o] =
                           [before EXCEPT !.filled = @ + filled,
                                          !.status = StatusAfterFill(before, filled),
                                          !.position = p]]
            /\ freeze' = IF freeze[o] = Absent THEN freeze
                         ELSE [freeze EXCEPT ![o] =
                                 FreezeAfterFill(before, freeze[o], filled, taken)]
            /\ trigger' = TriggersAfterFill(o, before, filled)
  BY <1>2 DEF CommitLimitFill
<1>5. PICK p \in IF before.side = "sell" /\ before.position # Absent
                 THEN {before.position}
                 ELSE IF existing # Absent THEN {existing.id}
                 ELSE IF before.side = "buy" THEN UnusedPositions ELSE {} :
          \E taken \in [LotId -> 0..filled] :
            /\ order' = [order EXCEPT ![o] =
                           [before EXCEPT !.filled = @ + filled,
                                          !.status = StatusAfterFill(before, filled),
                                          !.position = p]]
            /\ freeze' = IF freeze[o] = Absent THEN freeze
                         ELSE [freeze EXCEPT ![o] =
                                 FreezeAfterFill(before, freeze[o], filled, taken)]
            /\ trigger' = TriggersAfterFill(o, before, filled)
  BY <1>4
<1>6. PICK taken \in [LotId -> 0..filled] :
        /\ order' = [order EXCEPT ![o] =
                       [before EXCEPT !.filled = @ + filled,
                                      !.status = StatusAfterFill(before, filled),
                                      !.position = p]]
        /\ freeze' = IF freeze[o] = Absent THEN freeze
                     ELSE [freeze EXCEPT ![o] =
                             FreezeAfterFill(before, freeze[o], filled, taken)]
        /\ trigger' = TriggersAfterFill(o, before, filled)
  BY <1>5
<1>7. p \in PositionId
  BY <1>1, ReadOpenPositionType DEF UnusedPositions, OpenPositions, Order
<1>8. PICK status \in OrderStatus :
        /\ status = StatusAfterFill(before, filled)
        /\ status = IF before.filled + filled = before.quantity
                    THEN "filled" ELSE "partially_filled"
  <2>1. StatusAfterFill(before, filled)
          = IF before.filled + filled = before.quantity
            THEN "filled" ELSE "partially_filled"
    BY <1>1, <1>2, <1>3 DEF StatusAfterFill, Order
  <2> QED BY <2>1, StatusAfterFillType
<1>9. PICK frz \in Freeze \cup {Absent} :
        /\ frz = FreezeAfterFill(before, freeze[o], filled, taken)
        /\ frz = Absent <=> status = "filled"
  <2>1. taken \in [LotId -> Nat] BY <1>3
  <2>2. FreezeAfterFill(before, freeze[o], filled, taken) \in Freeze \cup {Absent}
    BY <1>1, <1>3, <2>1, FreezeAfterFillType
  <2>3. before.quantity - before.filled - filled <= 0 <=> status = "filled"
    BY <1>1, <1>2, <1>3, <1>8 DEF Order
  <2>4. before.quantity - before.filled - filled <= 0
          => FreezeAfterFill(before, freeze[o], filled, taken) = Absent
    BY DEF FreezeAfterFill
  <2>5. ASSUME ~ (before.quantity - before.filled - filled <= 0)
        PROVE  FreezeAfterFill(before, freeze[o], filled, taken) # Absent
    <3> DEFINE bought == [cash |-> EstimatedBuyCost(before.limit,
                                     before.quantity - before.filled - filled),
                          lots |-> NoLots]
               sold == [cash |-> 0,
                        lots |-> [l \in LotId |-> NonNegative(freeze[o].lots[l] - taken[l])]]
    <3>1. bought \in Freeze
      <4>1. before.quantity - before.filled - filled \in Int /\ before.limit \in Nat
        BY <1>1, <1>3 DEF Order
      <4> QED BY <4>1, CostType DEF Freeze, NoLots
    <3>2. sold \in Freeze
      <4>1. \A l \in LotId : freeze[o].lots[l] - taken[l] \in Int
        BY <1>1, <2>1 DEF Freeze
      <4> QED BY <4>1, NonNegativeType DEF Freeze
    <3>3. bought # Absent /\ sold # Absent BY <3>1, <3>2, AbsentAssumption
    <3>4. freeze[o] # Absent BY <1>1, AbsentAssumption
    <3>5. FreezeAfterFill(before, freeze[o], filled, taken) \in {bought, sold}
      BY <2>5, <3>4 DEF FreezeAfterFill
    <3> QED BY <3>3, <3>5
  <2> QED BY <2>2, <2>3, <2>4, <2>5
<1>10. PICK row :
         row = [before EXCEPT !.filled = @ + filled, !.status = status, !.position = p]
  OBVIOUS
<1>11. /\ row \in Order /\ row.type = before.type /\ row.quantity = before.quantity
       /\ row.filled = before.filled + filled /\ row.status = status
  <2>1. before.filled + filled \in Int BY <1>1, <1>3 DEF Order
  <2> HIDE DEF before
  <2>2. row \in Order BY <1>1, <1>7, <1>10, <2>1 DEF Order
  <2> QED BY <1>1, <1>10, <2>2 DEF Order
<1>12. order' = [order EXCEPT ![o] = row]
  BY <1>6, <1>8, <1>10
<1>13. freeze' = [freeze EXCEPT ![o] = frz]
  BY <1>1, <1>6, <1>9, AbsentAssumption
<1>14. trigger' = trigger \cup IF row.status = "filled" THEN RaisedBy(o, row) ELSE {}
  BY <1>6, <1>8, <1>11 DEF TriggersAfterFill, RaisedBy
<1>15. row.filled \in (before.filled + 1)..row.quantity /\ row.status = StatusOf(row)
  BY <1>1, <1>2, <1>3, <1>8, <1>11 DEF Order, StatusOf
<1> QED BY <1>9, <1>11, <1>12, <1>13, <1>14, <1>15 DEF Writes
-----------------------------------------------------------------------------
(* The effect of a write on the order that is written, and on the others.      *)
LEMMA WriteEffect ==
    ASSUME TypeOK, NEW o \in OrderId, NEW row \in Order,
           NEW frz \in Freeze \cup {Absent}, NEW raised, Writes(o, row, frz, raised),
           NEW i \in OrderId
    PROVE  IF i = o THEN order'[i] = row /\ row # Absent /\ freeze'[i] = frz
                    ELSE order'[i] = order[i] /\ freeze'[i] = freeze[i]
  BY AbsentAssumption DEF Writes, TypeOK

(* A freeze row lives exactly as long as the limit order it belongs to. The     *)
(* invariant is not inductive alone: only a limit order must be open, and what  *)
(* is open must have something left to fill.                                    *)
RowSound(row) ==
    /\ row.filled \in 0..row.quantity
    /\ IsActive(row) => row.type = "limit" /\ row.filled < row.quantity

OrdersSound == \A o \in OrderId : order[o] # Absent => RowSound(order[o])

OrderInv == FreezeWhileActive /\ OrdersSound

LEMMA WriteKeepsOrderInv ==
    ASSUME TypeOK, OrderInv, NEW o \in OrderId, NEW row \in Order,
           NEW frz \in Freeze \cup {Absent}, NEW raised, Writes(o, row, frz, raised),
           frz # Absent <=> IsActive(row), RowSound(row)
    PROVE  OrderInv'
<1>1. FreezeWhileActive'
  <2>1. SUFFICES ASSUME NEW i \in OrderId
                 PROVE  freeze'[i] # Absent <=> IsActive(order'[i])
    BY DEF FreezeWhileActive, IsActive
  <2> QED BY WriteEffect DEF OrderInv, FreezeWhileActive
<1>2. OrdersSound'
  <2>1. SUFFICES ASSUME NEW i \in OrderId, order'[i] # Absent
                 PROVE  RowSound(order'[i])
    BY DEF OrdersSound, RowSound, IsActive
  <2> QED BY <2>1, WriteEffect DEF OrderInv, OrdersSound
<1> QED BY <1>1, <1>2 DEF OrderInv

(* What writes one order. *)
Written(o) == MarketCommit(o) \/ LimitCommit(o) \/ ReleaseStep(o) \/ FillStep(o)

LEMMA StepsWrite ==
    ASSUME TypeOK, NEW o \in OrderId,
           MarketStep(o) \/ LimitStep(o) \/ ReleaseStep(o) \/ FillStep(o)
    PROVE  Written(o)
  BY MarketStepCommits, LimitStepCommits DEF Written

LEMMA WrittenKeepsOrderInv ==
    ASSUME TypeOK, OrderInv, NEW o \in OrderId, Written(o)
    PROVE  OrderInv'
<1>1. CASE MarketCommit(o)
  <2>1. PICK row \in Order :
          /\ Writes(o, row, Absent, RaisedBy(o, row))
          /\ row.type = "market" /\ row.filled \in 1..row.quantity
          /\ row.status = StatusOf(row)
    BY <1>1, MarketEffect DEF OrderInv
  <2>2. ~ IsActive(row) BY <2>1 DEF IsActive, StatusOf
  <2>3. RowSound(row) BY <2>1, <2>2 DEF RowSound, Order
  <2> QED BY <2>1, <2>2, <2>3, WriteKeepsOrderInv
<1>2. CASE LimitCommit(o)
  <2>1. PICK row \in Order, frz \in Freeze :
          /\ Writes(o, row, frz, {})
          /\ row.type = "limit" /\ row.quantity \in Nat \ {0}
          /\ row.filled = 0 /\ row.status = "pending"
    BY <1>2, LimitEffect
  <2>2. IsActive(row) /\ frz # Absent BY <2>1, AbsentAssumption DEF IsActive
  <2>3. RowSound(row) BY <2>1 DEF RowSound
  <2> QED BY <2>1, <2>2, <2>3, WriteKeepsOrderInv
<1>3. CASE ReleaseStep(o)
  <2>1. PICK row \in Order, status \in {"cancelled", "expired"} :
          /\ row = [order[o] EXCEPT !.status = status]
          /\ row.status = status
          /\ Writes(o, row, Absent, RaisedBy(o, row))
    BY <1>3, ReleaseEffect
  <2>2. ~ IsActive(row) BY <2>1 DEF IsActive
  <2>3. order[o] \in Order /\ RowSound(order[o])
    BY <1>3 DEF TypeOK, ReleaseStep, IsActive, OrderInv, OrdersSound
  <2>4. row.filled = order[o].filled /\ row.quantity = order[o].quantity
    BY <2>1, <2>3 DEF Order
  <2>5. RowSound(row) BY <2>2, <2>3, <2>4 DEF RowSound
  <2> QED BY <2>1, <2>2, <2>5, WriteKeepsOrderInv
<1>4. CASE FillStep(o)
  <2>1. PICK row \in Order, frz \in Freeze \cup {Absent} :
          /\ Writes(o, row, frz, IF row.status = "filled" THEN RaisedBy(o, row) ELSE {})
          /\ row.type = order[o].type
          /\ row.filled \in (order[o].filled + 1)..row.quantity
          /\ row.status = StatusOf(row)
          /\ frz = Absent <=> row.status = "filled"
    BY <1>4, FillEffect DEF OrderInv
  <2>2. order[o] \in Order /\ RowSound(order[o]) /\ order[o].type = "limit"
    BY <1>4 DEF TypeOK, FillStep, IsActive, OrderInv, OrdersSound, RowSound
  <2>3. row # Absent BY AbsentAssumption
  <2>4. IsActive(row) <=> row.filled # row.quantity
    BY <2>1, <2>2, <2>3 DEF IsActive, StatusOf
  <2>5. frz # Absent <=> IsActive(row) BY <2>1, <2>4 DEF StatusOf
  <2>6. RowSound(row) BY <2>1, <2>2, <2>4 DEF RowSound, Order
  <2> QED BY <2>1, <2>5, <2>6, WriteKeepsOrderInv
<1> QED BY <1>1, <1>2, <1>3, <1>4 DEF Written

LEMMA OrderInvStep ==
    ASSUME TypeOK, OrderInv, [Next]_vars
    PROVE  OrderInv'
<1>1. CASE ResetAccount
  BY <1>1 DEF ResetAccount, EmptyTable, OrderInv, FreezeWhileActive, OrdersSound, IsActive
<1>2. CASE QuietStep
  BY <1>2 DEF QuietStep, tables, OrderInv, FreezeWhileActive, OrdersSound, RowSound, IsActive
<1> QED BY <1>1, <1>2, StepKinds, StepsWrite, WrittenKeepsOrderInv

LEMMA OrderInvHolds == Spec => []OrderInv
<1>1. Init => OrderInv
  BY DEF Init, EmptyTable, OrderInv, FreezeWhileActive, OrdersSound, IsActive
<1> QED BY <1>1, OrderInvStep, Typing, PTL DEF Spec

(* Every way an order can end releases its freeze, and no partial fill drops   *)
(* it.                                                                         *)
THEOREM FreezesLiveWithOrders == Spec => []FreezeWhileActive
<1>1. OrderInv => FreezeWhileActive BY DEF OrderInv
<1> QED BY <1>1, OrderInvHolds, PTL
-----------------------------------------------------------------------------
(* An order raises its trigger in the step that fills or expires it, once.     *)
LEMMA TriggerWrite ==
    ASSUME TypeOK, TriggersMatchOrders, NEW o \in OrderId, NEW row \in Order,
           NEW frz \in Freeze \cup {Absent}, NEW raised, Writes(o, row, frz, raised),
           raised = RaisedBy(o, row),
           order[o] = Absent \/ order[o].status \notin {"filled", "expired"}
    PROVE  TriggersMatchOrders'
<1>1. SUFFICES ASSUME NEW i \in OrderId
               PROVE  /\ <<i, "order_filled">> \in trigger' <=>
                           order'[i] # Absent /\ order'[i].status = "filled"
                      /\ <<i, "order_expired">> \in trigger' <=>
                           order'[i] # Absent /\ order'[i].status = "expired"
  BY DEF TriggersMatchOrders
<1>2. CASE i = o
  <2>1. <<o, "order_filled">> \notin trigger /\ <<o, "order_expired">> \notin trigger
    BY DEF TriggersMatchOrders
  <2>2. order'[o] = row /\ row # Absent BY WriteEffect
  <2> QED BY <1>2, <2>1, <2>2 DEF Writes, RaisedBy
<1>3. CASE i # o
  <2>1. order'[i] = order[i] BY <1>3, WriteEffect
  <2>2. \A kind : <<i, kind>> \in trigger' <=> <<i, kind>> \in trigger
    BY <1>3 DEF Writes, RaisedBy
  <2> QED BY <2>1, <2>2 DEF TriggersMatchOrders
<1> QED BY <1>2, <1>3

LEMMA WrittenKeepsTriggers ==
    ASSUME TypeOK, OrderInv, TriggersMatchOrders, NEW o \in OrderId, Written(o)
    PROVE  TriggersMatchOrders'
<1>1. CASE MarketCommit(o)
  <2>1. PICK row \in Order : Writes(o, row, Absent, RaisedBy(o, row))
    BY <1>1, MarketEffect DEF OrderInv
  <2> QED BY <1>1, <2>1, TriggerWrite DEF MarketCommit
<1>2. CASE LimitCommit(o)
  <2>1. PICK row \in Order, frz \in Freeze :
          Writes(o, row, frz, {}) /\ row.status = "pending"
    BY <1>2, LimitEffect
  <2>2. RaisedBy(o, row) = {} BY <2>1 DEF RaisedBy
  <2> QED BY <1>2, <2>1, <2>2, TriggerWrite DEF LimitCommit
<1>3. CASE ReleaseStep(o)
  <2>1. PICK row \in Order : Writes(o, row, Absent, RaisedBy(o, row))
    BY <1>3, ReleaseEffect
  <2> QED BY <1>3, <2>1, TriggerWrite DEF ReleaseStep, IsActive
<1>4. CASE FillStep(o)
  <2>1. PICK row \in Order, frz \in Freeze \cup {Absent} :
          /\ Writes(o, row, frz, IF row.status = "filled" THEN RaisedBy(o, row) ELSE {})
          /\ row.status = StatusOf(row)
    BY <1>4, FillEffect DEF OrderInv
  <2>2. (IF row.status = "filled" THEN RaisedBy(o, row) ELSE {}) = RaisedBy(o, row)
    BY <2>1 DEF RaisedBy, StatusOf
  <2> QED BY <1>4, <2>1, <2>2, TriggerWrite DEF FillStep, IsActive
<1> QED BY <1>1, <1>2, <1>3, <1>4 DEF Written

(* An order has raised a trigger exactly when it was filled or has expired.    *)
THEOREM TriggersFollowOrders == Spec => []TriggersMatchOrders
<1>1. Init => TriggersMatchOrders
  BY DEF Init, EmptyTable, TriggersMatchOrders
<1>2. ASSUME TypeOK, OrderInv, TriggersMatchOrders, [Next]_vars
      PROVE  TriggersMatchOrders'
  <2>1. CASE ResetAccount
    BY <2>1 DEF ResetAccount, EmptyTable, TriggersMatchOrders
  <2>2. CASE QuietStep
    BY <1>2, <2>2 DEF QuietStep, tables, TriggersMatchOrders
  <2> QED BY <1>2, <2>1, <2>2, StepKinds, StepsWrite, WrittenKeepsTriggers
<1> QED BY <1>1, <1>2, Typing, OrderInvHolds, PTL DEF Spec
-----------------------------------------------------------------------------
(* What there is to see of an order follows OrderLifecycle.                    *)

LEMMA SeenType ==
    ASSUME NEW row \in Order PROVE ViewOf(row) \in OrderSeen /\ ViewOf(row) # Absent
<1>1. ViewOf(row) \in OrderSeen BY DEF ViewOf, Order, OrderSeen
<1> QED BY <1>1, AbsentAssumption

LEMMA ViewAfterWrite ==
    ASSUME TypeOK, NEW o \in OrderId, NEW row \in Order,
           NEW frz \in Freeze \cup {Absent}, NEW raised, Writes(o, row, frz, raised)
    PROVE  OrderView' = [OrderView EXCEPT ![o] = ViewOf(row)]
<1>1. \A i \in OrderId : IF i = o THEN order'[i] = row /\ row # Absent
                                 ELSE order'[i] = order[i]
  BY WriteEffect
<1>2. OrderView' = [i \in OrderId |-> IF order'[i] = Absent THEN Absent
                                      ELSE ViewOf(order'[i])]
  BY DEF OrderView
<1>3. OrderView = [i \in OrderId |-> IF order[i] = Absent THEN Absent
                                     ELSE ViewOf(order[i])]
  BY DEF OrderView
<1> QED BY <1>1, <1>2, <1>3

(* An order that is there is seen, and an active one is active in the view.    *)
LEMMA ViewOfOrder ==
    ASSUME TypeOK, NEW o \in OrderId
    PROVE  /\ order[o] = Absent => OrderView[o] = Absent
           /\ order[o] # Absent => OrderView[o] = ViewOf(order[o])
  BY DEF OrderView

LEMMA ViewStep ==
    ASSUME TypeOK, OrderInv, [Next]_vars
    PROVE  [Lifecycle!Next]_OrderView
<1>1. ASSUME NEW o \in OrderId, MarketStep(o) PROVE Lifecycle!Place(o)
  <2>1. PICK row \in Order :
          /\ Writes(o, row, Absent, RaisedBy(o, row))
          /\ row.type = "market" /\ row.filled \in 1..row.quantity
          /\ row.status = StatusOf(row)
    BY <1>1, MarketStepCommits, MarketEffect DEF OrderInv
  <2>2. OrderView' = [OrderView EXCEPT ![o] = ViewOf(row)] BY <2>1, ViewAfterWrite
  <2>3. OrderView'[o] = ViewOf(row) BY <2>2 DEF OrderView
  <2>4. ViewOf(row) \in Lifecycle!MarketRow
    BY <2>1 DEF ViewOf, Order, StatusOf, Lifecycle!MarketRow, Lifecycle!FillStatus
  <2>5. OrderView[o] = Absent BY <1>1, ViewOfOrder DEF MarketStep
  <2> QED BY <2>2, <2>3, <2>4, <2>5 DEF Lifecycle!Place
<1>2. ASSUME NEW o \in OrderId, LimitStep(o) PROVE Lifecycle!Place(o)
  <2>1. PICK row \in Order, frz \in Freeze :
          /\ Writes(o, row, frz, {})
          /\ row.type = "limit" /\ row.quantity \in Nat \ {0}
          /\ row.filled = 0 /\ row.status = "pending"
    BY <1>2, LimitStepCommits, LimitEffect
  <2>2. OrderView' = [OrderView EXCEPT ![o] = ViewOf(row)] BY <2>1, ViewAfterWrite
  <2>3. OrderView'[o] = ViewOf(row) BY <2>2 DEF OrderView
  <2>4. ViewOf(row) \in Lifecycle!LimitRow BY <2>1 DEF ViewOf, Lifecycle!LimitRow
  <2>5. OrderView[o] = Absent BY <1>2, ViewOfOrder DEF LimitStep
  <2> QED BY <2>2, <2>3, <2>4, <2>5 DEF Lifecycle!Place
<1>3. ASSUME NEW o \in OrderId, IsActive(order[o])
      PROVE  /\ Lifecycle!Active(o)
             /\ OrderView[o] = ViewOf(order[o])
             /\ order[o] \in Order
             /\ order[o].filled \in Nat
  <2>1. order[o] # Absent /\ order[o] \in Order /\ RowSound(order[o])
    BY <1>3 DEF IsActive, TypeOK, OrderInv, OrdersSound
  <2>2. OrderView[o] = ViewOf(order[o]) BY <2>1, ViewOfOrder
  <2>3. OrderView[o] # Absent
    BY <2>1, <2>2, SeenType
  <2> QED BY <1>3, <2>1, <2>2, <2>3
          DEF Lifecycle!Active, ViewOf, IsActive, RowSound, Order
<1>4. ASSUME NEW o \in OrderId, ReleaseStep(o) PROVE Lifecycle!Withdraw(o)
  <2>1. PICK row \in Order, status \in {"cancelled", "expired"} :
          /\ row = [order[o] EXCEPT !.status = status]
          /\ Writes(o, row, Absent, RaisedBy(o, row))
    BY <1>4, ReleaseEffect
  <2>2. /\ Lifecycle!Active(o) /\ order[o] \in Order
        /\ OrderView[o] = ViewOf(order[o])
    BY <1>3, <1>4 DEF ReleaseStep
  <2>3. OrderView' = [OrderView EXCEPT ![o] = ViewOf(row)] BY <2>1, ViewAfterWrite
  <2>4. /\ row.type = order[o].type /\ row.quantity = order[o].quantity
        /\ row.filled = order[o].filled /\ row.status = status
    BY <2>1, <2>2 DEF Order
  <2>5. ViewOf(row) = [OrderView[o] EXCEPT !.status = status]
    BY <2>2, <2>4 DEF ViewOf
  <2> QED BY <2>2, <2>3, <2>5 DEF Lifecycle!Withdraw
<1>5. ASSUME NEW o \in OrderId, FillStep(o) PROVE Lifecycle!Fill(o)
  <2>1. PICK row \in Order, frz \in Freeze \cup {Absent} :
          /\ Writes(o, row, frz, IF row.status = "filled" THEN RaisedBy(o, row) ELSE {})
          /\ row.type = order[o].type /\ row.quantity = order[o].quantity
          /\ row.filled \in (order[o].filled + 1)..row.quantity
          /\ row.status = StatusOf(row)
    BY <1>5, FillEffect DEF OrderInv
  <2>2. Lifecycle!Active(o) /\ OrderView[o] = ViewOf(order[o])
    BY <1>3, <1>5 DEF FillStep
  <2>3. OrderView' = [OrderView EXCEPT ![o] = ViewOf(row)] BY <2>1, ViewAfterWrite
  <2>4. /\ OrderView[o].filled = order[o].filled
        /\ OrderView[o].quantity = order[o].quantity
    BY <2>2 DEF ViewOf
  <2>5. PICK filled \in (OrderView[o].filled + 1)..OrderView[o].quantity :
          filled = row.filled
    BY <2>1, <2>4
  <2>6. PICK seen : seen = [OrderView[o] EXCEPT !.filled = filled] OBVIOUS
  <2>7. seen = [type |-> row.type, quantity |-> row.quantity,
                filled |-> row.filled, status |-> order[o].status]
    BY <2>1, <2>2, <2>5, <2>6 DEF ViewOf
  <2>8. Lifecycle!FillStatus(seen) = row.status
    BY <2>1, <2>7 DEF StatusOf, Lifecycle!FillStatus
  <2>9. ViewOf(row) = [seen EXCEPT !.status = row.status]
    BY <2>7 DEF ViewOf
  <2> QED BY <2>2, <2>3, <2>5, <2>6, <2>8, <2>9 DEF Lifecycle!Fill
<1>6. CASE ResetAccount
  BY <1>6 DEF ResetAccount, EmptyTable, OrderView, Lifecycle!Reset, Lifecycle!NoOrders,
              Lifecycle!Next
<1>7. CASE QuietStep
  BY <1>7 DEF QuietStep, tables, OrderView
<1> QED BY <1>1, <1>2, <1>4, <1>5, <1>6, <1>7, StepKinds DEF Lifecycle!Next

THEOREM LifecycleRefinement == Spec => FollowsLifecycle
<1>1. Init => Lifecycle!Init
  BY DEF Init, EmptyTable, OrderView, Lifecycle!Init, Lifecycle!NoOrders
<1> QED BY <1>1, ViewStep, Typing, OrderInvHolds, PTL
        DEF Spec, FollowsLifecycle, Lifecycle!Spec
=============================================================================
