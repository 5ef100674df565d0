------------------------------ MODULE Account ------------------------------
(***************************************************************************)
(* The simulated broker account (pipeline/account) as its design states    *)
(* it: every write is serialised, so each handler of operate_account and   *)
(* each order the evaluator touches is one atomic step that reads the      *)
(* tables it writes.  The transactions that the handlers and the evaluator *)
(* commit are operators over the values they were computed from, so that   *)
(* AccountRace can commit the same transactions from stale reads.          *)
(*                                                                         *)
(* Quotes are inputs: a fill happens at any price and depth a fresh quote  *)
(* can show.  Left out: average cost and profit, event log texts, notes,   *)
(* protection (a table of its own), names.                                 *)
(***************************************************************************)
EXTENDS Money, Functions, FiniteSets

CONSTANTS
    Code,            \* tradable instruments
    OrderId,         \* ids of orders: each is used once per season
    PositionId,      \* ids of positions
    LotId,           \* ids of lots, in order of creation
    Absent,          \* no such row
    Price,           \* prices a quote or a limit can have
    OrderQuantity,   \* quantities an order can ask for, in board lots
    Day,             \* trade days
    InitialCash,
    MaxOrderPct, MaxSinglePct, MaxGrossPct,  \* AccountRiskPolicy, in percent
    MaxDailyOrders,
    MaxSeason,       \* bound: resets of the account
    ResetDays        \* bound: the days on which it is reset

ASSUME AccountAssumption ==
    /\ LotId \subseteq Nat
    /\ Price \subseteq Nat \ {0}
    /\ OrderQuantity \subseteq Nat \ {0}
    /\ Day \subseteq Nat
    /\ InitialCash \in Nat
    /\ MaxSeason \in Nat

(* A season has finitely many orders and lots. *)
ASSUME FiniteAssumption == IsFiniteSet(OrderId) /\ IsFiniteSet(LotId)

VARIABLES
    cash,        \* account_meta.cash
    order,       \* account_orders
    freeze,      \* account_freezes, by order
    position,    \* account_positions
    lot,         \* account_lots
    watchlist,   \* account_watchlist: the codes in it
    trigger,     \* account_triggers raised by the end of an order
    today,       \* the trade date the clock resolves to
    season,      \* account_archive: archived seasons
    evaluating,  \* an evaluation tick has passed its rebuild and is running
    crossed      \* history: a sale consumed lots other than those frozen for it

tables == <<order, freeze, position, lot, trigger>>
vars == <<cash, tables, watchlist, today, season, evaluating, crossed>>
-----------------------------------------------------------------------------
Side == {"buy", "sell"}
OrderType == {"market", "limit"}
OrderStatus == {"pending", "partially_filled", "filled", "cancelled", "expired"}

Order == [code : Code, side : Side, type : OrderType, limit : Nat,
          quantity : Nat, filled : Int, status : OrderStatus,
          opens : BOOLEAN,                     \* intent = open_position
          position : PositionId \cup {Absent},
          created : Day, expires : Nat]

Freeze == [cash : Int, lots : [LotId -> Nat]]

Position == [code : Code, status : {"open", "closed"}, quantity : Int]

Lot == [position : PositionId, quantity : Nat, remaining : Int, frozen : Int,
        sellableFrom : Nat]

OpenRow == [id : PositionId, row : Position]   \* a position as a writer read it

(* What there is to see of an order from outside the account. *)
OrderSeen == [type : OrderType, quantity : Nat, filled : Int, status : OrderStatus]

ASSUME AbsentAssumption ==
    Absent \notin PositionId \cup Order \cup OrderSeen \cup Freeze \cup Position
                    \cup Lot \cup OpenRow

NoLots == [l \in LotId |-> 0]
NonNegative(n) == IF n < 0 THEN 0 ELSE n

(* list_active_orders: a market order's partially_filled is final. *)
IsActive(row) ==
    /\ row # Absent
    /\ \/ row.status = "pending"
       \/ row.status = "partially_filled" /\ row.type = "limit"

IsOpen(p) == position[p] # Absent /\ position[p].status = "open"

OpenPositions == {p \in PositionId : IsOpen(p)}

LotsOf(p) == {l \in LotId : lot[l] # Absent /\ lot[l].position = p}
-----------------------------------------------------------------------------
(* What the handlers read. *)

SumOver(f, S) == SumFunctionOnSet(f, S)

(* total_frozen_cash: the freezes of orders that are not final. *)
TotalFrozenCash ==
    SumOver([o \in OrderId |-> freeze[o].cash],
            {o \in OrderId : freeze[o] # Absent /\ order[o] # Absent
                             /\ order[o].status \in {"pending", "partially_filled"}})

AvailableCash == cash - TotalFrozenCash

(* Mutant: shares bought today can be sold today. *)
SellableLotsAnyDay(p) ==
    [l \in LotId |-> IF l \in LotsOf(p) THEN NonNegative(lot[l].remaining - lot[l].frozen)
                     ELSE 0]

(* The sellable part of each lot of p, and of p (check_sellable, compute_sellable). *)
SellableLots(p) ==
    [l \in LotId |-> IF l \in LotsOf(p) /\ lot[l].sellableFrom <= today
                     THEN NonNegative(lot[l].remaining - lot[l].frozen)
                     ELSE 0]

Sellable(p) == SumOver(SellableLots(p), LotId)

RemainingLots(p) ==
    [l \in LotId |-> IF l \in LotsOf(p) THEN lot[l].remaining ELSE 0]

(* Mutant: the oldest lot is charged with the whole sale. *)
TakesFromOldest(available, quantity) ==
    {taken \in [LotId -> 0..quantity] :
        \E l \in LotId :
          /\ taken[l] = quantity
          /\ available[l] > 0
          /\ \A k \in LotId : k < l => available[k] = 0
          /\ \A k \in LotId \ {l} : taken[k] = 0}

(* Ways to take quantity from the amounts available, oldest lot first: there
   is one, and it takes everything when there is less than quantity.        *)
TakesFifo(available, quantity) ==
    {taken \in [LotId -> 0..quantity] :
        /\ \A l \in LotId : taken[l] <= available[l]
        /\ \A l, k \in LotId : l < k /\ taken[k] > 0 => taken[l] = available[l]
        /\ \/ SumOver(taken, LotId) = quantity
           \/ /\ SumOver(taken, LotId) < quantity
              /\ taken = available}

(* Mutant: the query asks for the closed rows. *)
ReadClosedPosition(c) ==
    LET closed == {p \in PositionId : /\ position[p] # Absent /\ position[p].code = c
                                      /\ position[p].status = "closed"}
    IN  IF closed = {} THEN {Absent}
        ELSE {[id |-> p, row |-> position[p]] : p \in closed}

(* find_open_position_by_ts_code, with the row read. *)
ReadOpenPosition(c) ==
    LET open == {p \in OpenPositions : position[p].code = c}
    IN  IF open = {} THEN {Absent} ELSE {[id |-> p, row |-> position[p]] : p \in open}

UnusedPositions == {p \in PositionId : position[p] = Absent}
NextLot == {l \in LotId : lot[l] = Absent /\ \A k \in LotId : k < l => lot[k] # Absent}
OrdersToday == {o \in OrderId : order[o] # Absent /\ order[o].created = today}

(* What positions and buy orders expose: worth[c] values the shares held of c,  *)
(* the limit what is still to be bought.                                        *)
HeldValue(worth) ==
    [p \in PositionId |->
        IF IsOpen(p) THEN worth[position[p].code] * position[p].quantity ELSE 0]

ActiveBuys == {o \in OrderId : IsActive(order[o]) /\ order[o].side = "buy"}

PendingValue ==
    [o \in OrderId |-> IF o \in ActiveBuys
                       THEN order[o].limit * (order[o].quantity - order[o].filled) ELSE 0]

(* risk_check_buy: only the pending buys of the same code count. *)
RiskAllowsBuy(c, price, quantity, worth) ==
    LET held     == HeldValue(worth)
        equity   == cash + SumOver(held, PositionId)
        base     == IF equity > 0 THEN equity ELSE 1
        pending  == SumOver(PendingValue, {o \in ActiveBuys : order[o].code = c})
        value    == price * quantity
        heldOfC  == SumOver(held, {p \in OpenPositions : position[p].code = c})
    IN  /\ AvailableCash >= EstimatedBuyCost(price, quantity)
        /\ 100 * value <= MaxOrderPct * base
        /\ 100 * (heldOfC + pending + value) <= MaxSinglePct * base
        /\ 100 * (SumOver(held, PositionId) + pending + value) <= MaxGrossPct * base
-----------------------------------------------------------------------------
(* check_account_consistency, without its test that cash covers the freezes. *)

FrozenFor(l) ==
    SumOver([o \in OrderId |-> freeze[o].lots[l]], {o \in OrderId : freeze[o] # Absent})

FreezesMatchLots ==
    \A l \in LotId :
        IF lot[l] # Absent /\ IsOpen(lot[l].position)
        THEN /\ lot[l].frozen \in 0..lot[l].remaining
             /\ lot[l].frozen = FrozenFor(l)
        ELSE FrozenFor(l) = 0

CashCoversFreezes == cash >= TotalFrozenCash

Consistent == CashCoversFreezes /\ FreezesMatchLots
-----------------------------------------------------------------------------
(* What a fill changes, computed from what was read. *)

(* Mutant: a fill that adds to a position replaces its quantity. *)
PositionReplacedByFill(c, side, existing, quantity) ==
    LET before == IF existing = Absent THEN 0 ELSE existing.row.quantity
        after  == IF side = "buy" THEN quantity
                  ELSE IF existing = Absent THEN 0 ELSE before - quantity
    IN  [code |-> c, quantity |-> after,
         status |-> IF side = "sell" /\ after = 0 THEN "closed" ELSE "open"]

(* derive_position_after_fill *)
PositionAfterFill(c, side, existing, quantity) ==
    LET before == IF existing = Absent THEN 0 ELSE existing.row.quantity
        after  == IF side = "buy" THEN before + quantity
                  ELSE IF existing = Absent THEN 0 ELSE before - quantity
    IN  [code |-> c, quantity |-> after,
         status |-> IF side = "sell" /\ after = 0 THEN "closed" ELSE "open"]

WatchlistAfterFill(c, side, existing) ==
    IF side = "buy" /\ existing = Absent THEN watchlist \cup {c} ELSE watchlist

NewLot(p, quantity) ==
    [position |-> p, quantity |-> quantity, remaining |-> quantity, frozen |-> 0,
     sellableFrom |-> today + 1]

(* The release of an order's frozen shares (cancel_order, expire_order). *)
LotAfterRelease(row, released) == [row EXCEPT !.frozen = NonNegative(@ - released)]

(* Mutant: the sold shares stay frozen. *)
LotAfterSaleKeepingFrozen(row, taken) == [row EXCEPT !.remaining = @ - taken]

(* consume_lots_fifo: takes from frozen and free shares alike. *)
LotAfterSale(row, taken) ==
    LotAfterRelease([row EXCEPT !.remaining = @ - taken], taken)

LotsAfterSale(taken) ==
    [l \in LotId |-> IF taken[l] > 0 THEN LotAfterSale(lot[l], taken[l]) ELSE lot[l]]

(* Mutant: the end of an order leaves its lots as they are. *)
LotsWithoutRelease(row, frz) == lot

LotsAfterRelease(row, frz) ==
    [l \in LotId |->
        IF /\ frz # Absent
           /\ row.side = "sell"
           /\ l \in LotsOf(row.position)
        THEN LotAfterRelease(lot[l], frz.lots[l])
        ELSE lot[l]]

(* Mutants: a partial fill drops the freeze; a partial fill leaves it whole. *)
FreezeDroppedByFill(row, frz, quantity, taken) == Absent

FreezeKeptByFill(row, frz, quantity, taken) ==
    IF frz = Absent \/ row.quantity - row.filled - quantity <= 0 THEN Absent ELSE frz

(* commit_limit_fill: what stays frozen once taken and quantity are filled. *)
FreezeAfterFill(row, frz, quantity, taken) ==
    LET rest == row.quantity - row.filled - quantity
    IN  IF frz = Absent \/ rest <= 0 THEN Absent
        ELSE IF row.side = "buy"
             THEN [cash |-> EstimatedBuyCost(row.limit, rest), lots |-> NoLots]
             ELSE [cash |-> 0,
                   lots |-> [l \in LotId |-> NonNegative(frz.lots[l] - taken[l])]]

(* Mutant: earlier fills are forgotten. *)
StatusOfLastFill(row, quantity) ==
    IF quantity >= row.quantity THEN "filled" ELSE "partially_filled"

StatusAfterFill(row, quantity) ==
    IF quantity >= row.quantity - row.filled THEN "filled" ELSE "partially_filled"

(* Mutants: every fill raises the trigger; its arguments are swapped. *)
TriggersAfterEveryFill(o, row, quantity) == trigger \cup {<<o, "order_filled">>}

TriggersSwapped(o, row, quantity) == trigger \cup {<<"order_filled", o>>}

TriggersAfterFill(o, row, quantity) ==
    IF StatusAfterFill(row, quantity) = "filled"
    THEN trigger \cup {<<o, "order_filled">>} ELSE trigger
-----------------------------------------------------------------------------
(* The transactions. row, readCash, existing and frz are what the writer    *)
(* read before its transaction began.                                       *)

LotsOfFill(side, p, quantity, taken) ==
    \/ /\ side = "buy"
       /\ taken = NoLots
       /\ \E l \in NextLot : lot' = [lot EXCEPT ![l] = NewLot(p, quantity)]
    \/ /\ side = "sell"
       /\ taken \in TakesFifo(RemainingLots(p), quantity)
       /\ lot' = LotsAfterSale(taken)

(* commit_market_fill: what is not filled is cancelled in the same transaction. *)
CommitMarketFill(o, r, readCash, existing, price, filled) ==
    \E p \in IF existing = Absent THEN UnusedPositions ELSE {existing.id},
       taken \in [LotId -> 0..filled] :
      LET row == [code |-> r.code, side |-> r.side, type |-> "market", limit |-> 0,
                  quantity |-> r.quantity, filled |-> 0, status |-> "pending",
                  opens |-> r.opens, position |-> p, created |-> today, expires |-> 0]
      IN  /\ order' = [order EXCEPT ![o] =
                         [row EXCEPT !.filled = filled,
                                     !.status = StatusAfterFill(row, filled)]]
          /\ position' = [position EXCEPT ![p] = PositionAfterFill(r.code, r.side, existing, filled)]
          /\ LotsOfFill(r.side, p, filled, taken)
          /\ crossed' = (crossed \/ \E l \in LotId : taken[l] > 0 /\ lot[l].frozen > 0)
          /\ watchlist' = WatchlistAfterFill(r.code, r.side, existing)
          /\ trigger' = TriggersAfterFill(o, row, filled)
          /\ cash' = readCash + CashDelta(r.side, price, filled)
          /\ UNCHANGED <<freeze, today, season, evaluating>>

(* commit_limit_fill: the row of the position that was found open is written, *)
(* the lots of the position the order names are consumed.                     *)
CommitLimitFill(o, row, readCash, existing, frz, price, filled) ==
    \E p \in IF row.side = "sell" /\ row.position # Absent THEN {row.position}
             ELSE IF existing # Absent THEN {existing.id}
             ELSE IF row.side = "buy" THEN UnusedPositions ELSE {},
       taken \in [LotId -> 0..filled] :
      /\ order' = [order EXCEPT ![o] =
                     [row EXCEPT !.filled = @ + filled,
                                 !.status = StatusAfterFill(row, filled),
                                 !.position = p]]
      /\ position' = [position EXCEPT ![IF existing = Absent THEN p ELSE existing.id] =
                        PositionAfterFill(row.code, row.side, existing, filled)]
      /\ LotsOfFill(row.side, p, filled, taken)
      /\ freeze' = IF frz = Absent THEN freeze
                   ELSE [freeze EXCEPT ![o] = FreezeAfterFill(row, frz, filled, taken)]
      /\ crossed' = (crossed \/ /\ row.side = "sell"
                                /\ \E l \in LotId :
                                     taken[l] > (IF frz = Absent THEN 0 ELSE frz.lots[l]))
      /\ watchlist' = WatchlistAfterFill(row.code, row.side, existing)
      /\ trigger' = TriggersAfterFill(o, row, filled)
      /\ cash' = readCash + CashDelta(row.side, price, filled)
      /\ UNCHANGED <<today, season, evaluating>>

(* The end of an order that is not filled: cancel_order and expire_order. *)
CommitRelease(o, row, frz, status) ==
    /\ order' = [order EXCEPT ![o] = [row EXCEPT !.status = status]]
    /\ lot' = LotsAfterRelease(row, frz)
    /\ freeze' = IF frz = Absent THEN freeze ELSE [freeze EXCEPT ![o] = Absent]
    /\ trigger' = IF status = "expired" THEN trigger \cup {<<o, "order_expired">>}
                  ELSE trigger
    /\ UNCHANGED <<cash, position, watchlist, today, season, evaluating, crossed>>
-----------------------------------------------------------------------------
(* operate_account. *)

(* Requests that pass the checks of the handler they are made to. target is   *)
(* the position a sale is of.                                                 *)

(* place_order: a sale is of the position open in the code. *)
PlaceOrderRequests ==
    {[code |-> c, side |-> "buy", quantity |-> q, opens |-> FALSE, target |-> Absent] :
        c \in Code, q \in OrderQuantity}
    \cup
    {[code |-> position[p].code, side |-> "sell", quantity |-> q, opens |-> FALSE,
      target |-> p] : p \in OpenPositions, q \in OrderQuantity}

(* open_position: none open, no limit order that would open one still active. *)
OpenPositionRequests ==
    {[code |-> c, side |-> "buy", quantity |-> q, opens |-> TRUE, target |-> Absent] :
        q \in OrderQuantity,
        c \in {d \in Code :
                 /\ ReadOpenPosition(d) = {Absent}
                 /\ \A o \in OrderId :
                      ~ /\ IsActive(order[o])
                        /\ order[o].code = d /\ order[o].type = "limit" /\ order[o].opens}}

(* scale_position: a decrease must leave something. *)
ScalePositionRequests ==
    {r \in {[code |-> position[p].code, side |-> side, quantity |-> q, opens |-> FALSE,
             target |-> p] : p \in OpenPositions, side \in Side, q \in OrderQuantity} :
        r.side = "sell" => r.quantity < position[r.target].quantity}

(* close_position: a quantity the caller names, or all that can be sold. *)
ClosePositionRequests ==
    UNION {{[code |-> position[p].code, side |-> "sell", quantity |-> q, opens |-> FALSE,
             target |-> p] : q \in {n \in 1..position[p].quantity : n <= Sellable(p)}} :
           p \in OpenPositions}

(* handle_place_order, for an order id not used yet. *)
PlacementAllowed(o, r) ==
    /\ order[o] = Absent
    /\ r.side = "sell" => r.quantity <= Sellable(r.target)
    /\ Cardinality(OrdersToday) < MaxDailyOrders

(* execute_market_order: filled is the depth of the first level, or quantity. *)
MarketFillAllowed(r, price, filled) ==
    r.side = "buy" =>
        \E worth \in [Code -> Price] : RiskAllowsBuy(r.code, price, filled, worth)

PlaceMarketOrder(o, r) ==
    /\ PlacementAllowed(o, r)
    /\ \E price \in Price, filled \in 1..r.quantity :
         /\ MarketFillAllowed(r, price, filled)
         /\ \E existing \in ReadOpenPosition(r.code) :
              CommitMarketFill(o, r, cash, existing, price, filled)

(* create_pending_limit_order: the orders that can be created for r, and what *)
(* must be frozen for them.                                                   *)
LimitOrders(r) ==
    {[code |-> r.code, side |-> r.side, type |-> "limit", limit |-> limit,
      quantity |-> r.quantity, filled |-> 0, status |-> "pending", opens |-> r.opens,
      position |-> r.target, created |-> today, expires |-> lastDay + 1] :
        limit \in Price, lastDay \in {d \in Day : d >= today}}

LimitFreezes(row) ==
    IF row.side = "buy"
    THEN {[cash |-> EstimatedBuyCost(row.limit, row.quantity), lots |-> NoLots] :
            worth \in {w \in [Code -> Price] :
                         RiskAllowsBuy(row.code, row.limit, row.quantity, w)}}
    ELSE {[cash |-> 0, lots |-> taken] :
            taken \in {t \in TakesFifo(SellableLots(row.position), row.quantity) :
                         SumOver(t, LotId) = row.quantity}}

CommitLimitOrder(o, row, frz) ==
    /\ order' = [order EXCEPT ![o] = row]
    /\ freeze' = [freeze EXCEPT ![o] = frz]
    /\ lot' = [l \in LotId |->
                 IF frz.lots[l] > 0 THEN [lot[l] EXCEPT !.frozen = @ + frz.lots[l]]
                 ELSE lot[l]]
    /\ UNCHANGED <<cash, position, trigger, watchlist, today, season, evaluating, crossed>>

PlaceLimitOrder(o, r) ==
    /\ PlacementAllowed(o, r)
    /\ \E row \in LimitOrders(r) :
         \E frz \in LimitFreezes(row) : CommitLimitOrder(o, row, frz)

HandlePlaceOrder(o, r) == PlaceMarketOrder(o, r) \/ PlaceLimitOrder(o, r)

PlaceOrder(o)    == \E r \in PlaceOrderRequests : HandlePlaceOrder(o, r)
OpenPosition(o)  == \E r \in OpenPositionRequests : HandlePlaceOrder(o, r)
ScalePosition(o) == \E r \in ScalePositionRequests : HandlePlaceOrder(o, r)
ClosePosition(o) == \E r \in ClosePositionRequests : HandlePlaceOrder(o, r)

(* cancel_order *)
CancelOrder(o) ==
    /\ IsActive(order[o])
    /\ CommitRelease(o, order[o], freeze[o], "cancelled")
-----------------------------------------------------------------------------
(* The evaluation tick: a rebuild that fails closed, then the active orders. *)

StartEvaluation ==
    /\ ~ evaluating
    /\ Consistent
    /\ evaluating' = TRUE
    /\ UNCHANGED <<cash, tables, watchlist, today, season, crossed>>

ExpireOrder(o) ==
    /\ evaluating
    /\ IsActive(order[o])
    /\ today >= order[o].expires
    /\ CommitRelease(o, order[o], freeze[o], "expired")

Matches(row, price) ==
    IF row.side = "buy" THEN price <= row.limit ELSE price >= row.limit

FillLimitOrder(o) ==
    /\ evaluating
    /\ IsActive(order[o])
    /\ today < order[o].expires
    /\ \E price \in Price, filled \in 1..(order[o].quantity - order[o].filled) :
         /\ Matches(order[o], price)
         /\ \E existing \in ReadOpenPosition(order[o].code) :
              CommitLimitFill(o, order[o], cash, existing, freeze[o], price, filled)

FinishEvaluation ==
    /\ evaluating
    /\ evaluating' = FALSE
    /\ UNCHANGED <<cash, tables, watchlist, today, season, crossed>>
-----------------------------------------------------------------------------
(* The other writes. *)

AddToWatchlist(c) ==
    /\ watchlist' = watchlist \cup {c}
    /\ UNCHANGED <<cash, tables, today, season, evaluating, crossed>>

RemoveFromWatchlist(c) ==
    /\ watchlist' = watchlist \ {c}
    /\ UNCHANGED <<cash, tables, today, season, evaluating, crossed>>

EmptyTable(ids) == [i \in ids |-> Absent]

(* reset_account: a new season with the initial cash; the watchlist is kept. *)
ResetAccount ==
    /\ season < MaxSeason
    /\ today \in ResetDays
    /\ season' = season + 1
    /\ cash' = InitialCash
    /\ order' = EmptyTable(OrderId)
    /\ freeze' = EmptyTable(OrderId)
    /\ position' = EmptyTable(PositionId)
    /\ lot' = EmptyTable(LotId)
    /\ trigger' = {}
    /\ crossed' = FALSE
    /\ UNCHANGED <<watchlist, today, evaluating>>

NextDay ==
    /\ ~ evaluating
    /\ today + 1 \in Day
    /\ today' = today + 1
    /\ UNCHANGED <<cash, tables, watchlist, season, evaluating, crossed>>

Init ==
    /\ cash = InitialCash
    /\ order = EmptyTable(OrderId)
    /\ freeze = EmptyTable(OrderId)
    /\ position = EmptyTable(PositionId)
    /\ lot = EmptyTable(LotId)
    /\ trigger = {}
    /\ watchlist = {}
    /\ today \in {d \in Day : \A other \in Day : d <= other}
    /\ season = 0
    /\ evaluating = FALSE
    /\ crossed = FALSE

Operate ==
    \E o \in OrderId :
      \/ PlaceOrder(o)
      \/ OpenPosition(o)
      \/ ScalePosition(o)
      \/ ClosePosition(o)
      \/ CancelOrder(o)

Evaluate ==
    \/ StartEvaluation
    \/ \E o \in OrderId : ExpireOrder(o) \/ FillLimitOrder(o)
    \/ FinishEvaluation

Next ==
    \/ Operate
    \/ Evaluate
    \/ \E c \in Code : AddToWatchlist(c) \/ RemoveFromWatchlist(c)
    \/ ResetAccount
    \/ NextDay

Spec == Init /\ [][Next]_vars
-----------------------------------------------------------------------------
(* Invariants. *)

(* Every table holds rows of its type. *)
TypeOK ==
    /\ cash \in Int
    /\ order \in [OrderId -> Order \cup {Absent}]
    /\ freeze \in [OrderId -> Freeze \cup {Absent}]
    /\ position \in [PositionId -> Position \cup {Absent}]
    /\ lot \in [LotId -> Lot \cup {Absent}]
    /\ watchlist \subseteq Code
    /\ trigger \subseteq OrderId \X {"order_filled", "order_expired"}
    /\ today \in Day
    /\ season \in 0..MaxSeason
    /\ evaluating \in BOOLEAN
    /\ crossed \in BOOLEAN

(* A code has at most one open position, whichever of the market and limit   *)
(* paths opened it: find_open_position_by_ts_code takes the first it finds.  *)
OnePositionPerCode ==
    \A p, q \in OpenPositions : position[p].code = position[q].code => p = q

(* A freeze row lives exactly as long as the limit order it belongs to: every *)
(* way an order can end releases it, and no partial fill drops it.            *)
FreezeWhileActive ==
    \A o \in OrderId : freeze[o] # Absent <=> IsActive(order[o])

(* No lot is oversold and none holds more frozen shares than it has left,     *)
(* even after sales have consumed each other's frozen shares.                 *)
LotsWithinBounds ==
    \A l \in LotId : lot[l] # Absent =>
        /\ lot[l].remaining \in 0..lot[l].quantity
        /\ lot[l].frozen \in 0..lot[l].remaining

(* As long as no sale consumed lots other than those frozen for it, the       *)
(* rebuild's comparison of freezes and lots succeeds, and a sale that is still *)
(* open has frozen what it has still to sell.                                 *)
BooksAgree ==
    ~ crossed =>
        /\ FreezesMatchLots
        /\ \A o \in OrderId :
             IsActive(order[o]) /\ order[o].side = "sell" =>
                 SumOver(freeze[o].lots, LotId) = order[o].quantity - order[o].filled

(* A position holds what its lots hold, and is open while that is something.  *)
PositionsMatchLots ==
    ~ crossed => \A p \in PositionId : position[p] # Absent =>
        /\ position[p].quantity = SumOver(RemainingLots(p), LotId)
        /\ position[p].status = "open" <=> position[p].quantity > 0

(* Partial fills pay a commission each and a sale can bring in less than its   *)
(* fees, so cash can fall short of the freezes and of zero, but by no more than *)
(* a commission for each unit that a limit order bought or that was sold.       *)
ShortfallBounded ==
    TotalFrozenCash <= cash +
        SumOver([o \in OrderId |-> order[o].filled * Commission(order[o].limit)],
                {o \in OrderId : order[o] # Absent
                                 /\ (order[o].side = "sell" \/ order[o].type = "limit")})

(* An order has raised a trigger exactly when it has been filled or expired,  *)
(* and never both.                                                            *)
TriggersMatchOrders ==
    \A o \in OrderId :
        /\ <<o, "order_filled">> \in trigger <=>
             order[o] # Absent /\ order[o].status = "filled"
        /\ <<o, "order_expired">> \in trigger <=>
             order[o] # Absent /\ order[o].status = "expired"

(* Action properties. *)

(* T+1: shares are not sold before the trade date they became sellable, though *)
(* the consumption of lots does not look at dates.                             *)
NoSaleBeforeSellable ==
    [][~ crossed' => \A l \in LotId :
         lot[l] # Absent /\ lot'[l] # Absent /\ lot'[l].remaining < lot[l].remaining
            => lot[l].sellableFrom <= today]_vars

(* The account settles: once an order has ended, its row is never written      *)
(* again in its season.                                                        *)
EndedOrdersStay ==
    [][\A o \in OrderId :
         order[o] # Absent /\ ~ IsActive(order[o]) /\ season' = season
            => order'[o] = order[o]]_vars

ViewOf(row) ==
    [type |-> row.type, quantity |-> row.quantity, filled |-> row.filled,
     status |-> row.status]

OrderView ==
    [o \in OrderId |-> IF order[o] = Absent THEN Absent ELSE ViewOf(order[o])]

Lifecycle == INSTANCE OrderLifecycle WITH orders <- OrderView

(* What there is to see of each order follows OrderLifecycle: placed once,     *)
(* filled up to its quantity, ended once, then left alone.                     *)
FollowsLifecycle == Lifecycle!Spec
=============================================================================
