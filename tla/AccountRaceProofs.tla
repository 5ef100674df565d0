-------------------------- MODULE AccountRaceProofs --------------------------
(***************************************************************************)
(* What survives the evaluator outside write_lock: lots are never          *)
(* oversold, whatever was committed between a writer's reads and its        *)
(* transaction, and the books are damaged only when something was.         *)
(***************************************************************************)
EXTENDS AccountRace, AccountBooksProofs

(* What a writer holds between its reads and its transaction. *)

MarketWrite ==
    [kind : {"market"}, o : OrderId, request : Request, cash : Int,
     existing : OpenRow \cup {Absent}, price : Nat, filled : Nat]

LimitWrite == [kind : {"limit"}, o : OrderId, row : Order, freeze : Freeze]

ReleaseWrite ==
    [kind : {"release"}, o : OrderId, row : Order, freeze : Freeze \cup {Absent},
     status : OrderStatus]

FillWrite ==
    [kind : {"fill"}, o : OrderId, row : Order, cash : Int,
     existing : OpenRow \cup {Absent}, freeze : Freeze \cup {Absent},
     price : Nat, filled : Nat]

(* The lots a placement is about to freeze are there: only a reset removes     *)
(* lots, and it waits for write_lock.                                          *)
LotsToFreezeExist(w) ==
    w \in LimitWrite => \A l \in LotId : w.freeze.lots[l] > 0 => lot[l] # Absent

HandlerSound ==
    op # Absent =>
        /\ op \in MarketWrite \cup LimitWrite \cup ReleaseWrite
        /\ LotsToFreezeExist(op)

EvaluationSound == evaluation # Absent => evaluation \in ReleaseWrite \cup FillWrite

PageSound == page # NoPage => page \subseteq [o : OrderId, row : Order]

RaceInv == TypeOK /\ LotsNeverOversold /\ HandlerSound /\ EvaluationSound /\ PageSound
-----------------------------------------------------------------------------
(* The transactions keep lots from being oversold. *)

Unsold(row) == row.remaining \in 0..row.quantity

LEMMA ReleaseUnsold ==
    ASSUME NEW row \in Lot, Unsold(row), NEW released \in Nat
    PROVE  Unsold(LotAfterRelease(row, released))
  BY DEF LotAfterRelease, Lot, Unsold

(* consume_lots_fifo takes what the lots have when the transaction runs. *)
LEMMA SaleUnsold ==
    ASSUME NEW row \in Lot, Unsold(row), NEW taken \in Nat, taken <= row.remaining
    PROVE  Unsold(LotAfterSale(row, taken))
<1> DEFINE left == [row EXCEPT !.remaining = @ - taken]
<1>1. left \in Lot /\ Unsold(left)
  BY DEF Lot, Unsold
<1>2. LotAfterSale(row, taken) = LotAfterRelease(left, taken)
  BY DEF LotAfterSale
<1> HIDE DEF left
<1> QED BY <1>1, <1>2, ReleaseUnsold

LEMMA LotsOfFillUnsold ==
    ASSUME TypeOK, LotsNeverOversold, NEW side \in Side, NEW p \in PositionId,
           NEW quantity \in Nat, NEW taken, LotsOfFill(side, p, quantity, taken)
    PROVE  LotsNeverOversold'
<1>1. SUFFICES ASSUME NEW l \in LotId, lot'[l] # Absent PROVE Unsold(lot'[l])
  BY DEF LotsNeverOversold, Unsold
<1>2. CASE side = "buy"
  <2>1. PICK k \in NextLot : lot' = [lot EXCEPT ![k] = NewLot(p, quantity)]
    BY <1>2 DEF LotsOfFill
  <2>2. CASE l = k
    BY <2>1, <2>2 DEF NewLot, Unsold, TypeOK
  <2>3. CASE l # k
    BY <1>1, <2>1, <2>3 DEF LotsNeverOversold, Unsold, TypeOK
  <2> QED BY <2>2, <2>3
<1>3. CASE side = "sell"
  <2>1. /\ taken \in [LotId -> 0..quantity]
        /\ taken[l] <= RemainingLots(p)[l]
        /\ lot' = LotsAfterSale(taken)
    BY <1>3 DEF LotsOfFill, TakesFifo
  <2>2. CASE taken[l] > 0
    <3>1. lot[l] # Absent /\ taken[l] <= lot[l].remaining
      BY <2>1, <2>2 DEF RemainingLots, LotsOf
    <3>2. lot[l] \in Lot /\ Unsold(lot[l]) /\ taken[l] \in Nat
      BY <2>1, <3>1 DEF TypeOK, LotsNeverOversold, Unsold
    <3>3. lot'[l] = LotAfterSale(lot[l], taken[l])
      BY <2>1, <2>2 DEF LotsAfterSale
    <3> QED BY <3>1, <3>2, <3>3, SaleUnsold
  <2>3. CASE ~ (taken[l] > 0)
    BY <1>1, <2>1, <2>3 DEF LotsAfterSale, LotsNeverOversold, Unsold
  <2> QED BY <2>2, <2>3
<1> QED BY <1>2, <1>3 DEF Side

LEMMA LotsAfterReleaseUnsold ==
    ASSUME TypeOK, LotsNeverOversold, NEW row \in Order,
           NEW frz \in Freeze \cup {Absent}, lot' = LotsAfterRelease(row, frz)
    PROVE  LotsNeverOversold'
<1>1. SUFFICES ASSUME NEW l \in LotId, lot'[l] # Absent PROVE Unsold(lot'[l])
  BY DEF LotsNeverOversold, Unsold
<1>2. CASE frz # Absent /\ l \in LotsOf(row.position)
  <2>1. frz.lots[l] \in Nat /\ lot[l] \in Lot /\ Unsold(lot[l])
    BY <1>2 DEF TypeOK, Freeze, LotsOf, LotsNeverOversold, Unsold
  <2> QED BY <1>1, <2>1, ReleaseUnsold DEF LotsAfterRelease
<1>3. CASE ~ (frz # Absent /\ l \in LotsOf(row.position))
  BY <1>1, <1>3 DEF LotsAfterRelease, LotsNeverOversold, Unsold
<1> QED BY <1>2, <1>3

LEMMA LotsAfterFreezeUnsold ==
    ASSUME TypeOK, LotsNeverOversold, NEW o \in OrderId, NEW row, NEW frz \in Freeze,
           \A l \in LotId : frz.lots[l] > 0 => lot[l] # Absent,
           CommitLimitOrder(o, row, frz)
    PROVE  LotsNeverOversold'
<1>1. SUFFICES ASSUME NEW l \in LotId, lot'[l] # Absent PROVE Unsold(lot'[l])
  BY DEF LotsNeverOversold, Unsold
<1>2. CASE frz.lots[l] > 0
  <2>1. lot[l] \in Lot /\ Unsold(lot[l])
    BY <1>2 DEF TypeOK, LotsNeverOversold, Unsold
  <2>2. lot'[l] = [lot[l] EXCEPT !.frozen = @ + frz.lots[l]]
    BY <1>2 DEF CommitLimitOrder
  <2> QED BY <2>1, <2>2 DEF Unsold, Lot
<1>3. CASE ~ (frz.lots[l] > 0)
  BY <1>1, <1>3 DEF CommitLimitOrder, LotsNeverOversold, Unsold
<1> QED BY <1>2, <1>3
-----------------------------------------------------------------------------
(* A commit from reads of any age keeps the types and the lots. *)

LEMMA CommitSound ==
    ASSUME TypeOK, LotsNeverOversold,
           NEW w \in MarketWrite \cup LimitWrite \cup ReleaseWrite \cup FillWrite,
           LotsToFreezeExist(w), Commit(w)
    PROVE  TypeOK' /\ LotsNeverOversold'
<1>1. CASE w.kind = "market"
  <2>1. w \in MarketWrite
    BY <1>1 DEF LimitWrite, ReleaseWrite, FillWrite
  <2>2. CommitMarketFill(w.o, w.request, w.cash, w.existing, w.price, w.filled)
    BY <1>1 DEF Commit
  <2>3. /\ w.o \in OrderId /\ w.request \in Request /\ w.cash \in Int
        /\ w.existing \in OpenRow \cup {Absent} /\ w.price \in Nat /\ w.filled \in Nat
    BY <2>1 DEF MarketWrite
  <2>4. TypeOK' BY <2>2, <2>3, CommitMarketFillType
  <2>5. PICK p \in PositionId : \E taken : LotsOfFill(w.request.side, p, w.filled, taken)
    BY <2>2, <2>3, CommitMarketFillLots
  <2>6. w.request.side \in Side BY <2>3 DEF Request
  <2> QED BY <2>3, <2>4, <2>5, <2>6, LotsOfFillUnsold
<1>2. CASE w.kind = "limit"
  <2>1. w \in LimitWrite
    BY <1>2 DEF MarketWrite, ReleaseWrite, FillWrite
  <2>2. CommitLimitOrder(w.o, w.row, w.freeze)
    BY <1>2 DEF Commit
  <2>3. w.o \in OrderId /\ w.row \in Order /\ w.freeze \in Freeze
    BY <2>1 DEF LimitWrite
  <2>4. \A l \in LotId : w.freeze.lots[l] > 0 => lot[l] # Absent
    BY <2>1 DEF LotsToFreezeExist
  <2> QED BY <2>2, <2>3, <2>4, CommitLimitOrderType, LotsAfterFreezeUnsold
<1>3. CASE w.kind = "release"
  <2>1. w \in ReleaseWrite
    BY <1>3 DEF MarketWrite, LimitWrite, FillWrite
  <2>2. CommitRelease(w.o, w.row, w.freeze, w.status)
    BY <1>3 DEF Commit
  <2>3. /\ w.o \in OrderId /\ w.row \in Order /\ w.freeze \in Freeze \cup {Absent}
        /\ w.status \in OrderStatus
    BY <2>1 DEF ReleaseWrite
  <2>4. TypeOK' BY <2>2, <2>3, CommitReleaseType
  <2>5. lot' = LotsAfterRelease(w.row, w.freeze) BY <2>2 DEF CommitRelease
  <2> QED BY <2>3, <2>4, <2>5, LotsAfterReleaseUnsold
<1>4. CASE w.kind = "fill"
  <2>1. w \in FillWrite
    BY <1>4 DEF MarketWrite, LimitWrite, ReleaseWrite
  <2>2. CommitLimitFill(w.o, w.row, w.cash, w.existing, w.freeze, w.price, w.filled)
    BY <1>4 DEF Commit
  <2>3. /\ w.o \in OrderId /\ w.row \in Order /\ w.cash \in Int
        /\ w.existing \in OpenRow \cup {Absent} /\ w.freeze \in Freeze \cup {Absent}
        /\ w.price \in Nat /\ w.filled \in Nat
    BY <2>1 DEF FillWrite
  <2>4. TypeOK' BY <2>2, <2>3, CommitLimitFillType
  <2>5. PICK p \in PositionId : \E taken : LotsOfFill(w.row.side, p, w.filled, taken)
    BY <2>2, <2>3, CommitLimitFillLots
  <2>6. w.row.side \in Side BY <2>3 DEF Order
  <2> QED BY <2>3, <2>4, <2>5, <2>6, LotsOfFillUnsold
<1> QED BY <1>1, <1>2, <1>3, <1>4 DEF Commit

(* No commit of the evaluator removes a lot. *)
LEMMA CommitKeepsLots ==
    ASSUME TypeOK, NEW w \in ReleaseWrite \cup FillWrite, Commit(w),
           NEW l \in LotId, lot[l] # Absent
    PROVE  lot'[l] # Absent
<1>1. lot[l] \in Lot BY DEF TypeOK
<1>2. \A row \in Lot : row # Absent BY AbsentAssumption
<1>3. CASE w.kind = "release"
  <2>1. w \in ReleaseWrite BY <1>3 DEF FillWrite
  <2>2. lot' = LotsAfterRelease(w.row, w.freeze)
    BY <1>3 DEF Commit, CommitRelease
  <2>3. w.row \in Order /\ w.freeze \in Freeze \cup {Absent}
    BY <2>1 DEF ReleaseWrite
  <2>4. w.freeze # Absent => LotAfterRelease(lot[l], w.freeze.lots[l]) \in Lot
    BY <1>1, <2>3, LotAfterReleaseType DEF Freeze
  <2> QED BY <1>2, <2>2, <2>4 DEF LotsAfterRelease
<1>4. CASE w.kind = "fill"
  <2>1. w \in FillWrite BY <1>4 DEF ReleaseWrite
  <2>2. /\ w.row \in Order /\ w.existing \in OpenRow \cup {Absent}
        /\ CommitLimitFill(w.o, w.row, w.cash, w.existing, w.freeze, w.price, w.filled)
    BY <1>4, <2>1 DEF FillWrite, Commit
  <2>3. PICK p \in PositionId : \E taken : LotsOfFill(w.row.side, p, w.filled, taken)
    BY <2>2, CommitLimitFillLots
  <2>4. PICK taken : LotsOfFill(w.row.side, p, w.filled, taken) BY <2>3
  <2>5. CASE w.row.side = "buy"
    <3>1. PICK k \in NextLot : lot' = [lot EXCEPT ![k] = NewLot(p, w.filled)]
      BY <2>4, <2>5 DEF LotsOfFill
    <3>2. l # k BY <3>1 DEF NextLot
    <3> QED BY <3>1, <3>2 DEF TypeOK
  <2>6. CASE w.row.side = "sell"
    <3>1. taken \in [LotId -> 0..w.filled] /\ lot' = LotsAfterSale(taken)
      BY <2>4, <2>6 DEF LotsOfFill, TakesFifo
    <3>2. w.filled \in Nat BY <2>1 DEF FillWrite
    <3>3. LotAfterSale(lot[l], taken[l]) \in Lot
      BY <1>1, <3>1, <3>2, LotAfterSaleType
    <3> QED BY <1>2, <3>1, <3>3 DEF LotsAfterSale
  <2> QED BY <2>2, <2>5, <2>6 DEF Order, Side
<1> QED BY <1>3, <1>4 DEF ReleaseWrite, FillWrite
-----------------------------------------------------------------------------
(* What the writers read has the types of what they hold. *)

LEMMA HandlerReads ==
    ASSUME RaceInv, BeginOperate
    PROVE  HandlerSound'
<1>1. TypeOK /\ UNCHANGED <<vars, page, evaluation, overlapped>>
  BY DEF RaceInv, BeginOperate
<1>2. PICK o \in OrderId :
        \/ \E r \in Requests : ReadForMarketOrder(o, r)
        \/ \E r \in Requests : ReadForLimitOrder(o, r)
        \/ ReadForCancel(o)
  BY DEF BeginOperate
<1>3. ASSUME NEW r \in Requests, ReadForMarketOrder(o, r)
      PROVE  op' \in MarketWrite
  <2>1. r \in Request BY <1>1, RequestType DEF Requests
  <2>2. PICK price \in Price, filled \in 1..r.quantity, existing \in ReadOpenPosition(r.code) :
          op' = [kind |-> "market", o |-> o, request |-> r, cash |-> cash,
                 existing |-> existing, price |-> price, filled |-> filled]
    BY <1>3 DEF ReadForMarketOrder
  <2>3. existing \in OpenRow \cup {Absent}
    BY <1>1, <2>1, ReadOpenRow DEF Request
  <2>4. price \in Nat /\ filled \in Nat /\ cash \in Int
    BY <1>1, <2>1, AccountAssumption DEF Request, TypeOK
  <2> QED BY <2>1, <2>2, <2>3, <2>4 DEF MarketWrite
<1>4. ASSUME NEW r \in Requests, ReadForLimitOrder(o, r)
      PROVE  op' \in LimitWrite /\ LotsToFreezeExist(op')
  <2>1. r \in Request /\ (r.side = "sell" => r.target \in PositionId)
    BY <1>1, RequestType DEF Requests
  <2>2. PICK row \in LimitOrders(r) : \E frz \in LimitFreezes(row) :
          op' = [kind |-> "limit", o |-> o, row |-> row, freeze |-> frz]
    BY <1>4 DEF ReadForLimitOrder
  <2>3. PICK frz \in LimitFreezes(row) :
          op' = [kind |-> "limit", o |-> o, row |-> row, freeze |-> frz]
    BY <2>2
  <2>4. /\ row \in Order /\ frz \in Freeze
        /\ \A l \in LotId : frz.lots[l] > 0 => lot[l] # Absent
    BY <1>1, <2>1, LimitOrderType
  <2> QED BY <2>3, <2>4 DEF LimitWrite, LotsToFreezeExist
<1>5. ASSUME ReadForCancel(o)
      PROVE  op' \in ReleaseWrite
  <2>1. order[o] \in Order /\ freeze[o] \in Freeze \cup {Absent}
    BY <1>1, <1>5 DEF TypeOK, ReadForCancel, IsActive
  <2> QED BY <1>5, <2>1 DEF ReadForCancel, ReleaseWrite, OrderStatus
<1>6. \A w \in MarketWrite \cup ReleaseWrite : w \notin LimitWrite
  BY DEF MarketWrite, ReleaseWrite, LimitWrite
<1>7. lot' = lot BY <1>1 DEF vars, tables
<1>8. op' \in MarketWrite \cup LimitWrite \cup ReleaseWrite /\ LotsToFreezeExist(op')
  BY <1>2, <1>3, <1>4, <1>5, <1>6 DEF LotsToFreezeExist
<1> QED BY <1>7, <1>8 DEF HandlerSound, LotsToFreezeExist

LEMMA EvaluatorReads ==
    ASSUME RaceInv, EvaluateNext
    PROVE  EvaluationSound' /\ PageSound'
<1>1. TypeOK /\ page \subseteq [o : OrderId, row : Order] /\ EvaluationSound
  BY DEF RaceInv, EvaluateNext, PageSound
<1>2. PICK listed \in page :
        /\ ReadForExpiry(listed) \/ ReadForFill(listed) \/ PassOver(listed)
        /\ page' = page \ {listed}
  BY DEF EvaluateNext
<1>3. listed.o \in OrderId /\ listed.row \in Order BY <1>1, <1>2
<1>4. freeze[listed.o] \in Freeze \cup {Absent} BY <1>1, <1>3 DEF TypeOK
<1>5. CASE ReadForExpiry(listed)
  <2>1. evaluation' \in ReleaseWrite
    BY <1>3, <1>4, <1>5 DEF ReadForExpiry, ReleaseWrite, OrderStatus
  <2> QED BY <1>1, <1>2, <2>1 DEF EvaluationSound, PageSound
<1>6. CASE ReadForFill(listed)
  <2>1. PICK price \in Price, filled \in 1..(listed.row.quantity - listed.row.filled),
             existing \in ReadOpenPosition(listed.row.code) :
          evaluation' = [kind |-> "fill", o |-> listed.o, row |-> listed.row,
                         cash |-> cash, existing |-> existing,
                         freeze |-> freeze[listed.o], price |-> price, filled |-> filled]
    BY <1>6 DEF ReadForFill
  <2>2. existing \in OpenRow \cup {Absent} BY <1>1, <1>3, ReadOpenRow DEF Order
  <2>3. listed.row.quantity - listed.row.filled \in Int BY <1>3 DEF Order
  <2>4. price \in Nat /\ filled \in Nat /\ cash \in Int
    BY <1>1, <2>3, AccountAssumption DEF TypeOK
  <2>5. evaluation' \in FillWrite
    BY <1>3, <1>4, <2>1, <2>2, <2>4 DEF FillWrite
  <2> QED BY <1>1, <1>2, <2>5 DEF EvaluationSound, PageSound
<1>7. CASE PassOver(listed)
  BY <1>1, <1>2, <1>7 DEF PassOver, EvaluationSound, PageSound
<1> QED BY <1>2, <1>5, <1>6, <1>7
-----------------------------------------------------------------------------
LEMMA RaceStep ==
    ASSUME RaceInv, [RaceNext]_raceVars
    PROVE  RaceInv'
<1> USE DEF RaceInv
<1>1. CASE BeginOperate
  <2>1. UNCHANGED <<vars, page, evaluation>> BY <1>1 DEF BeginOperate
  <2>2. TypeOK' /\ LotsNeverOversold'
    BY <2>1 DEF vars, tables, TypeOK, LotsNeverOversold
  <2> QED BY <1>1, <2>1, <2>2, HandlerReads DEF EvaluationSound, PageSound
<1>2. CASE CommitOperate
  <2>1. TypeOK' /\ LotsNeverOversold'
    BY <1>2, CommitSound DEF CommitOperate, HandlerSound
  <2> QED BY <1>2, <2>1
       DEF CommitOperate, HandlerSound, EvaluationSound, PageSound
<1>3. CASE Reset
  <2>1. TypeOK' BY <1>3, ResetTyped DEF Reset
  <2>2. LotsNeverOversold'
    BY <1>3 DEF Reset, ResetAccount, EmptyTable, LotsNeverOversold
  <2> QED BY <1>3, <2>1, <2>2
       DEF Reset, race, HandlerSound, EvaluationSound, PageSound
<1>4. CASE BeginTick
  <2>1. TypeOK' /\ UNCHANGED lot /\ UNCHANGED race
    BY <1>4 DEF BeginTick, StartEvaluation, tables, TypeOK
  <2> QED BY <2>1 DEF race, LotsNeverOversold, HandlerSound,
             LotsToFreezeExist, EvaluationSound, PageSound
<1>5. CASE ListActiveOrders
  <2>1. UNCHANGED <<vars, op, evaluation>> BY <1>5 DEF ListActiveOrders
  <2>2. TypeOK' /\ lot' = lot BY <2>1 DEF vars, tables, TypeOK
  <2>3. \A o \in OrderId : IsActive(order[o]) => order[o] \in Order
    BY DEF TypeOK, IsActive
  <2>4. page' \subseteq [o : OrderId, row : Order]
    BY <1>5, <2>3 DEF ListActiveOrders
  <2> QED BY <2>1, <2>2, <2>4 DEF LotsNeverOversold, HandlerSound,
             LotsToFreezeExist, EvaluationSound, PageSound
<1>6. CASE EvaluateNext
  <2>1. UNCHANGED <<vars, op>> BY <1>6 DEF EvaluateNext
  <2>2. TypeOK' /\ lot' = lot BY <2>1 DEF vars, tables, TypeOK
  <2>3. EvaluationSound' /\ PageSound' BY <1>6, EvaluatorReads
  <2> QED BY <2>1, <2>2, <2>3
       DEF LotsNeverOversold, HandlerSound, LotsToFreezeExist
<1>7. CASE CommitEvaluation
  <2>1. evaluation \in ReleaseWrite \cup FillWrite /\ Commit(evaluation)
    BY <1>7 DEF CommitEvaluation, EvaluationSound
  <2>2. LotsToFreezeExist(evaluation)
    BY <2>1 DEF LotsToFreezeExist, LimitWrite, ReleaseWrite, FillWrite
  <2>3. TypeOK' /\ LotsNeverOversold' BY <2>1, <2>2, CommitSound
  <2>4. \A l \in LotId : lot[l] # Absent => lot'[l] # Absent
    BY <2>1, CommitKeepsLots
  <2>5. HandlerSound'
    BY <1>7, <2>4 DEF CommitEvaluation, HandlerSound, LotsToFreezeExist
  <2> QED BY <1>7, <2>3, <2>5 DEF CommitEvaluation, EvaluationSound, PageSound
<1>8. CASE EndTick
  <2>1. TypeOK' /\ lot' = lot
    BY <1>8 DEF EndTick, FinishEvaluation, tables, TypeOK
  <2>2. op' = op /\ evaluation' = evaluation /\ page' = NoPage
    BY <1>8 DEF EndTick
  <2> QED BY <2>1, <2>2 DEF LotsNeverOversold, HandlerSound,
             LotsToFreezeExist, EvaluationSound, PageSound
<1>9. CASE PassDay
  <2>1. TypeOK' /\ lot' = lot /\ UNCHANGED race
    BY <1>9 DEF PassDay, NextDay, tables, TypeOK
  <2> QED BY <2>1 DEF race, LotsNeverOversold, HandlerSound,
             LotsToFreezeExist, EvaluationSound, PageSound
<1>10. CASE UNCHANGED raceVars
  <2>1. UNCHANGED vars /\ UNCHANGED race BY <1>10 DEF raceVars
  <2>2. TypeOK' /\ lot' = lot BY <2>1 DEF vars, tables, TypeOK
  <2> QED BY <2>1, <2>2 DEF race, LotsNeverOversold, HandlerSound,
             LotsToFreezeExist, EvaluationSound, PageSound
<1> QED BY <1>1, <1>2, <1>3, <1>4, <1>5, <1>6, <1>7, <1>8, <1>9, <1>10
     DEF RaceNext

LEMMA RaceInvHolds == RaceSpec => []RaceInv
<1>1. RaceInit => RaceInv
  <2> SUFFICES ASSUME RaceInit PROVE RaceInv
    OBVIOUS
  <2>1. TypeOK BY InitTyped DEF RaceInit
  <2>2. LotsNeverOversold BY DEF RaceInit, Init, EmptyTable, LotsNeverOversold
  <2> QED BY <2>1, <2>2
       DEF RaceInit, RaceInv, HandlerSound, EvaluationSound, PageSound
<1> QED BY <1>1, RaceStep, PTL DEF RaceSpec

(* Whatever the handlers and the evaluator commit over each other, a lot is    *)
(* never sold twice: consume_lots_fifo reads it in the transaction.            *)
THEOREM LotsNeverOversoldInRace == RaceSpec => []LotsNeverOversold
<1>1. RaceInv => LotsNeverOversold BY DEF RaceInv
<1> QED BY <1>1, RaceInvHolds, PTL
-----------------------------------------------------------------------------
(* Overlap is the only cause of damage.  While every transaction commits what  *)
(* it had read unchanged, each is a step of Account; the invariants proved of   *)
(* Account then hold, and what a writer has checked since its reads stays true. *)

Sound == Grounds /\ TriggersMatchOrders /\ BooksInv /\ ShortfallInv

MarketReady(w) ==
    w \in MarketWrite =>
        /\ order[w.o] = Absent
        /\ w.price \in Price /\ w.filled \in Nat \ {0} /\ w.filled <= w.request.quantity
        /\ w.request.side = "buy" =>
             EstimatedBuyCost(w.price, w.filled) <= w.cash - Held(freeze)
        /\ w.request.side = "sell" =>
             w.existing # Absent /\ (~ crossed => w.filled <= w.existing.row.quantity)

LimitReady(w) ==
    w \in LimitWrite =>
        /\ order[w.o] = Absent
        /\ Placed(w.row) /\ IsActive(w.row) /\ FreezeFits(w.row, w.freeze)
        /\ ~ crossed => FrozenRight(w.row, w.freeze)
        /\ w.row.side = "buy" => EstimatedBuyCost(w.row.limit, w.row.quantity) <= Slack

ReleaseReady(w) ==
    w \in ReleaseWrite => IsActive(w.row) /\ w.status \in {"cancelled", "expired"}

FillReady(w) ==
    w \in FillWrite =>
        /\ IsActive(w.row)
        /\ w.price \in Price /\ w.filled \in 1..(w.row.quantity - w.row.filled)
        /\ Matches(w.row, w.price)

HandlerReady == op # Absent => MarketReady(op) /\ LimitReady(op) /\ ReleaseReady(op)

EvaluationReady == evaluation # Absent => ReleaseReady(evaluation) /\ FillReady(evaluation)

PageReady == page # NoPage => \A listed \in page : IsActive(listed.row)

SoundInv ==
    /\ RaceInv
    /\ EvaluationReady /\ PageReady
    /\ ~ overlapped => Sound /\ HandlerReady

(* What a step must leave for a handler that is between its reads and its       *)
(* transaction.                                                                *)
LEMMA HandlerStaysReady ==
    ASSUME NEW w, w \in MarketWrite \cup LimitWrite \cup ReleaseWrite,
           MarketReady(w), LimitReady(w), ReleaseReady(w),
           op' = w, w \in MarketWrite \cup LimitWrite => order'[w.o] = order[w.o],
           Held(freeze) \in Int, Held(freeze)' \in Int, Slack \in Int, Slack' \in Int,
           Relieved, today' = today, crossed => crossed', ~ crossed' => RowsStay
    PROVE  HandlerReady'
<1>1. MarketReady(op)'
  <2>1. SUFFICES ASSUME w \in MarketWrite PROVE MarketReady(op)'
    BY DEF MarketReady
  <2>2. w.price \in Nat /\ w.filled \in Nat /\ w.cash \in Int BY <2>1 DEF MarketWrite
  <2>3. EstimatedBuyCost(w.price, w.filled) \in Int BY <2>2, CostType
  <2>4. w.request.side = "buy" =>
          EstimatedBuyCost(w.price, w.filled) <= w.cash - Held(freeze)'
    BY <2>1, <2>2, <2>3 DEF MarketReady, Relieved
  <2> QED BY <2>1, <2>4 DEF MarketReady, Held
<1>2. LimitReady(op)'
  <2>1. SUFFICES ASSUME w \in LimitWrite PROVE LimitReady(op)'
    BY DEF LimitReady
  <2>2. w.row \in Order /\ w.freeze \in Freeze /\ w.freeze # Absent
    BY <2>1, AbsentAssumption DEF LimitWrite
  <2>3. EstimatedBuyCost(w.row.limit, w.row.quantity) \in Int BY <2>2, CostType DEF Order
  <2>4. w.row.side = "buy" => EstimatedBuyCost(w.row.limit, w.row.quantity) <= Slack'
    BY <2>1, <2>3 DEF LimitReady, Relieved
  <2>5. ASSUME ~ crossed' PROVE FrozenRight(w.row, w.freeze)'
    <3>1. RowsStay /\ FrozenRight(w.row, w.freeze) /\ FreezeFits(w.row, w.freeze)
      BY <2>1, <2>5 DEF LimitReady
    <3> QED BY <2>2, <3>1 DEF FrozenRight, FreezeFits, RowsStay, LotStays
  <2>6. /\ order'[w.o] = Absent /\ Placed(w.row) /\ IsActive(w.row)
        /\ FreezeFits(w.row, w.freeze)
    BY <2>1 DEF LimitReady
  <2>7. ~ crossed' => FrozenRight(op.row, op.freeze)' BY <2>5 DEF FrozenRight
  <2> QED BY <2>4, <2>6, <2>7 DEF LimitReady, Placed, IsActive, FreezeFits
<1>3. ReleaseReady(op)' BY DEF ReleaseReady, IsActive
<1> QED BY <1>1, <1>2, <1>3 DEF HandlerReady

LEMMA SlackType ==
    ASSUME Grounds
    PROVE  Held(freeze) \in Int /\ Charges(order) \in Nat /\ Slack \in Int
<1>1. Held(freeze) \in Int BY HeldType DEF Grounds, TypeOK
<1>2. Charges(order) \in Nat
  BY ChargesType, OrdersFilledNat DEF Grounds, TypeOK, OrderInv
<1> QED BY <1>1, <1>2 DEF Slack, Grounds, TypeOK

LEMMA SlackTypeNext ==
    ASSUME Grounds'
    PROVE  Held(freeze)' \in Int /\ Charges(order)' \in Nat /\ Slack' \in Int
<1>1. Held(freeze)' \in Int
  <2>1. freeze' \in [OrderId -> Freeze \cup {Absent}] BY DEF Grounds, TypeOK
  <2> QED BY <2>1, HeldType DEF Held
<1>2. Charges(order)' \in Nat
  <2>1. order' \in [OrderId -> Order \cup {Absent}] BY DEF Grounds, TypeOK
  <2>2. \A o \in OrderId : FilledNat(order'[o])
    BY DEF Grounds, OrderInv, OrdersSound, RowSound, FilledNat, IsActive
  <2> QED BY <2>1, <2>2, ChargesType DEF Charges
<1> QED BY <1>1, <1>2 DEF Slack, Grounds, TypeOK

(* What the handlers check before their transaction. *)
LEMMA MarketReads ==
    ASSUME RaceInv, Sound, NEW o \in OrderId, NEW r \in Requests, ReadForMarketOrder(o, r)
    PROVE  MarketReady(op')
<1> USE DEF RaceInv
<1>1. SUFFICES ASSUME op' \in MarketWrite PROVE MarketReady(op')
  BY DEF MarketReady
<1>2. /\ r \in Request /\ SaleAllowed(r) /\ order[o] = Absent
  BY RequestType DEF Requests, SaleAllowed, ReadForMarketOrder, PlacementAllowed
<1>3. PICK price \in Price, filled \in 1..r.quantity, existing \in ReadOpenPosition(r.code) :
        /\ MarketFillAllowed(r, price, filled)
        /\ op' = [kind |-> "market", o |-> o, request |-> r, cash |-> cash,
                  existing |-> existing, price |-> price, filled |-> filled]
  BY DEF ReadForMarketOrder
<1>4. r.quantity \in Nat \ {0} /\ filled \in Nat \ {0} /\ filled <= r.quantity
  BY <1>2 DEF Request
<1>5. ASSUME r.side = "buy" PROVE EstimatedBuyCost(price, filled) <= cash - Held(freeze)
  <2>1. AvailableCash >= EstimatedBuyCost(price, filled)
    BY <1>3, <1>5 DEF MarketFillAllowed, RiskAllowsBuy
  <2>2. AvailableCash = cash - Held(freeze)
    BY FrozenCashIs DEF AvailableCash, Sound, Grounds, OrderInv
  <2>3. Held(freeze) \in Int /\ cash \in Int BY SlackType DEF Sound, Grounds, TypeOK
  <2>4. EstimatedBuyCost(price, filled) \in Int BY <1>4, AccountAssumption, CostType
  <2> QED BY <2>1, <2>2, <2>3, <2>4
<1>6. ASSUME r.side = "sell"
      PROVE  existing # Absent /\ (~ crossed => filled <= existing.row.quantity)
  <2>1. /\ r.target \in PositionId /\ IsOpen(r.target) /\ position[r.target].code = r.code
        /\ r.quantity <= Sellable(r.target) /\ r.code \in Code
    BY <1>2, <1>6 DEF SaleAllowed, Request
  <2>2. existing # Absent /\ existing.id = r.target
    BY <2>1, <1>4, RowAfterSale DEF Sound, Grounds
  <2>3. existing.row = position[r.target] BY <2>1, <2>2, ReadOpenPositionType
  <2>4. ASSUME ~ crossed PROVE filled <= existing.row.quantity
    <3>1. position[r.target].quantity = SumOver(Left(lot, r.target), LotId)
      BY <2>1, <2>4 DEF Sound, BooksInv, Agreement, PositionsFit, IsOpen
    <3>2. /\ Sellable(r.target) \in Nat /\ SumOver(Left(lot, r.target), LotId) \in Nat
          /\ Sellable(r.target) <= SumOver(Left(lot, r.target), LotId)
      BY SellableLeft, LeftType DEF Sound, Grounds
    <3> QED BY <1>4, <2>1, <2>3, <3>1, <3>2
  <2> QED BY <2>2, <2>4
<1> QED BY <1>2, <1>3, <1>4, <1>5, <1>6 DEF MarketReady

LEMMA LimitReadsReady ==
    ASSUME RaceInv, Sound, NEW o \in OrderId, NEW r \in Requests, ReadForLimitOrder(o, r)
    PROVE  LimitReady(op')
<1> USE DEF RaceInv
<1>1. SUFFICES ASSUME op' \in LimitWrite PROVE LimitReady(op')
  BY DEF LimitReady
<1>2. /\ r \in Request /\ SaleAllowed(r) /\ order[o] = Absent
  BY RequestType DEF Requests, SaleAllowed, ReadForLimitOrder, PlacementAllowed
<1>3. PICK row \in LimitOrders(r) : \E frz \in LimitFreezes(row) :
        op' = [kind |-> "limit", o |-> o, row |-> row, freeze |-> frz]
  BY DEF ReadForLimitOrder
<1>4. PICK frz \in LimitFreezes(row) :
        op' = [kind |-> "limit", o |-> o, row |-> row, freeze |-> frz]
  BY <1>3
<1>5. /\ row \in Order /\ Placed(row) /\ IsActive(row) /\ FreezeFits(row, frz)
      /\ FrozenRight(row, frz) /\ LimitGuarded(row)
  BY <1>2, FreezesReadRight
<1>6. ASSUME row.side = "buy" PROVE EstimatedBuyCost(row.limit, row.quantity) <= Slack
  <2>1. AvailableCash >= EstimatedBuyCost(row.limit, row.quantity)
    BY <1>5, <1>6 DEF LimitGuarded
  <2>2. AvailableCash = cash - Held(freeze)
    BY FrozenCashIs DEF AvailableCash, Sound, Grounds, OrderInv
  <2>3. Held(freeze) \in Int /\ Charges(order) \in Nat /\ cash \in Int
    BY SlackType DEF Sound, Grounds, TypeOK
  <2>4. EstimatedBuyCost(row.limit, row.quantity) \in Int BY <1>5, CostType DEF Order
  <2> QED BY <2>1, <2>2, <2>3, <2>4 DEF Slack
<1> QED BY <1>2, <1>4, <1>5, <1>6 DEF LimitReady

LEMMA UnchangedStays ==
    ASSUME Grounds, UNCHANGED <<cash, tables, today, crossed>>
    PROVE  /\ Relieved /\ RowsStay
           /\ Held(freeze) \in Int /\ Held(freeze)' \in Int
           /\ Slack \in Int /\ Slack' \in Int
<1>1. Held(freeze)' = Held(freeze) BY DEF Held, tables
<1>2. Charges(order)' = Charges(order) BY DEF Charges, tables
<1>3. Slack' = Slack BY <1>1, <1>2 DEF Slack
<1>4. RowsStay BY DEF RowsStay, LotStays, tables
<1> QED BY <1>1, <1>3, <1>4, SlackType DEF Relieved

LEMMA HandlerReadsReady ==
    ASSUME RaceInv, Sound, BeginOperate
    PROVE  HandlerReady'
<1> USE DEF RaceInv
<1>1. UNCHANGED <<cash, tables, today, crossed>> BY DEF BeginOperate, vars
<1>2. PICK o \in OrderId :
        \/ \E r \in Requests : ReadForMarketOrder(o, r)
        \/ \E r \in Requests : ReadForLimitOrder(o, r)
        \/ ReadForCancel(o)
  BY DEF BeginOperate
<1>3. HandlerSound' BY HandlerReads
<1>4. SUFFICES ASSUME op' # Absent PROVE HandlerReady'
  BY DEF HandlerReady
<1>5. op' \in MarketWrite \cup LimitWrite \cup ReleaseWrite
  BY <1>3, <1>4 DEF HandlerSound, MarketWrite, LimitWrite, ReleaseWrite, Request, OpenRow
<1>6. MarketReady(op') /\ LimitReady(op') /\ ReleaseReady(op')
  <2>1. ASSUME NEW r \in Requests, ReadForMarketOrder(o, r)
        PROVE  MarketReady(op') /\ op'.kind = "market"
    BY <2>1, MarketReads DEF ReadForMarketOrder
  <2>2. ASSUME NEW r \in Requests, ReadForLimitOrder(o, r)
        PROVE  LimitReady(op') /\ op'.kind = "limit"
    BY <2>2, LimitReadsReady DEF ReadForLimitOrder
  <2>3. ASSUME ReadForCancel(o)
        PROVE  ReleaseReady(op') /\ op'.kind = "release"
    BY <2>3 DEF ReadForCancel, ReleaseReady
  <2>4. /\ op'.kind # "market" => MarketReady(op')
        /\ op'.kind # "limit" => LimitReady(op')
        /\ op'.kind # "release" => ReleaseReady(op')
    BY DEF MarketReady, LimitReady, ReleaseReady, MarketWrite, LimitWrite, ReleaseWrite
  <2> QED BY <1>2, <2>1, <2>2, <2>3, <2>4
<1>7. PICK w : w = op' OBVIOUS
<1>8. order'[w.o] = order[w.o] BY <1>1 DEF tables
<1> QED BY <1>1, <1>5, <1>6, <1>7, <1>8, UnchangedStays, HandlerStaysReady DEF Sound

(* A transaction that commits what it had read unchanged is a step of Account. *)

CommitsSoundly ==
    /\ \E o \in OrderId : Written(o)
    /\ BooksInv'
    /\ ShortfallInv'

LEMMA MarketCommitsSoundly ==
    ASSUME Sound, TypeOK', NEW w \in MarketWrite, MarketReady(w), Commit(w), ~ Changed(w)
    PROVE  CommitsSoundly
<1> USE DEF Sound
<1>1. w.kind = "market" /\ w.o \in OrderId /\ w.request \in Request BY DEF MarketWrite
<1>2. /\ cash = w.cash /\ w.existing \in ReadOpenPosition(w.request.code)
      /\ CommitMarketFill(w.o, w.request, w.cash, w.existing, w.price, w.filled)
  BY <1>1 DEF Changed, PositionChanged, Commit
<1>3. /\ order[w.o] = Absent
      /\ w.price \in Price /\ w.filled \in Nat \ {0} /\ w.filled <= w.request.quantity
      /\ w.request.side = "buy" =>
           EstimatedBuyCost(w.price, w.filled) <= cash - Held(freeze)
      /\ w.request.side = "sell" =>
           w.existing # Absent /\ (~ crossed => w.filled <= w.existing.row.quantity)
  BY <1>2 DEF MarketReady
<1>4. MarketCommit(w.o) BY <1>1, <1>2, <1>3 DEF MarketCommit
<1>5. PICK row \in Order, p \in PositionId, taken \in [LotId -> Nat] :
        /\ MarketWritten(w.o, row, p, w.price, w.filled, taken)
        /\ row.side = w.request.side
        /\ w.request.side = "sell" =>
             p = w.existing.id /\ taken \in TakesFifo(Left(lot, p), w.filled)
  BY <1>1, <1>2, <1>3, MarketCommitted
<1>6. ASSUME ~ crossed, row.side = "sell" PROVE w.filled <= SumOver(Left(lot, p), LotId)
  <2>1. /\ p = w.existing.id /\ w.filled <= w.existing.row.quantity
        /\ w.existing # Absent /\ w.request.code \in Code
    BY <1>1, <1>3, <1>5, <1>6 DEF Request
  <2>2. w.existing.row = position[p] /\ position[p] # Absent
    BY <1>2, <2>1, ReadOpenPositionType DEF Grounds, OpenPositions, IsOpen
  <2>3. position[p].quantity = SumOver(Left(lot, p), LotId)
    BY <1>6, <2>2 DEF BooksInv, Agreement, PositionsFit
  <2> QED BY <2>1, <2>2, <2>3
<1>7. BooksInv' BY <1>1, <1>3, <1>5, <1>6, MarketWrittenKeepsBooks
<1>8. ShortfallInv' BY <1>1, <1>3, <1>5, MarketKeepsShortfall
<1> QED BY <1>1, <1>4, <1>7, <1>8 DEF CommitsSoundly, Written

LEMMA LimitCommitsSoundly ==
    ASSUME Sound, TypeOK', NEW w \in LimitWrite, LotsToFreezeExist(w), LimitReady(w),
           Commit(w), ~ Changed(w)
    PROVE  CommitsSoundly
<1> USE DEF Sound
<1> DEFINE row == w.row
           frz == w.freeze
<1>1. /\ w.kind = "limit" /\ w.o \in OrderId /\ row \in Order /\ frz \in Freeze
      /\ CommitLimitOrder(w.o, row, frz)
  BY DEF LimitWrite, Commit
<1>2. /\ order[w.o] = Absent
      /\ Placed(row) /\ IsActive(row) /\ FreezeFits(row, frz)
      /\ ~ crossed => FrozenRight(row, frz)
      /\ row.side = "buy" => EstimatedBuyCost(row.limit, row.quantity) <= Slack
  BY DEF LimitReady
<1>3. RoomFor(frz)
  <2>1. SUFFICES ASSUME NEW l \in LotId, frz.lots[l] > 0
                 PROVE  lot[l] # Absent /\ frz.lots[l] <= lot[l].remaining - lot[l].frozen
    BY DEF RoomFor
  <2>2. lot[l] # Absent BY <2>1 DEF LotsToFreezeExist
  <2>3. lot[l] \in Lot /\ frz.lots[l] \in Nat BY <1>1, <2>2 DEF Grounds, TypeOK, Freeze
  <2>4. ~ (frz.lots[l] > lot[l].remaining - lot[l].frozen)
    BY <1>1, <2>1 DEF Changed
  <2> QED BY <2>2, <2>3, <2>4 DEF Lot
<1>4. LimitCommit(w.o) BY <1>1, <1>2, <1>3 DEF LimitCommit
<1>5. LimitWritten(w.o, row, frz)
  BY <1>1, <1>2 DEF LimitWritten, CommitLimitOrder
<1>6. freeze[w.o] = Absent
  BY <1>1, <1>2 DEF Grounds, OrderInv, FreezeWhileActive, IsActive
<1> HIDE DEF row, frz
<1>7. BooksInv' BY <1>1, <1>2, <1>5, LimitWrittenKeepsBooks
<1>8. ShortfallInv' BY <1>1, <1>2, <1>5, <1>6, LimitKeepsShortfall DEF Slack
<1> QED BY <1>1, <1>4, <1>7, <1>8 DEF CommitsSoundly, Written

LEMMA ReleaseCommits ==
    ASSUME NEW w \in ReleaseWrite, ReleaseReady(w), Commit(w), ~ Changed(w)
    PROVE  w.o \in OrderId /\ ReleaseStep(w.o)
<1>1. /\ w.kind = "release" /\ w.o \in OrderId
      /\ CommitRelease(w.o, w.row, w.freeze, w.status)
  BY DEF ReleaseWrite, Commit
<1>2. order[w.o] = w.row /\ freeze[w.o] = w.freeze BY <1>1 DEF Changed, RowChanged
<1> QED BY <1>1, <1>2 DEF ReleaseReady, ReleaseStep

LEMMA FillCommits ==
    ASSUME NEW w \in FillWrite, FillReady(w), Commit(w), ~ Changed(w)
    PROVE  w.o \in OrderId /\ FillStep(w.o)
<1>1. /\ w.kind = "fill" /\ w.o \in OrderId
      /\ CommitLimitFill(w.o, w.row, w.cash, w.existing, w.freeze, w.price, w.filled)
  BY DEF FillWrite, Commit
<1>2. /\ order[w.o] = w.row /\ freeze[w.o] = w.freeze /\ cash = w.cash
      /\ w.existing \in ReadOpenPosition(w.row.code)
  BY <1>1 DEF Changed, RowChanged, PositionChanged
<1> QED BY <1>1, <1>2 DEF FillReady, FillStep

LEMMA ReleaseSettles ==
    ASSUME Sound, TypeOK', NEW o \in OrderId, ReleaseStep(o)
    PROVE  CommitsSoundly /\ Relieved /\ RowsStay
<1> USE DEF Sound
<1>1. FreezesFitOrders BY DEF BooksInv
<1>2. order[o] \in Order /\ freeze[o] \in Freeze BY ReleaseBooks
<1>3. PICK row \in Order : ReleaseWritten(o, row) BY ReleaseBooks
<1>4. Relieved /\ ShortfallInv' BY <1>1, <1>2, <1>3, ReleaseRelieves
<1>5. BooksInv' BY ReleaseKeepsBooks
<1>6. RowsStay BY ReleaseStays
<1> QED BY <1>4, <1>5, <1>6 DEF CommitsSoundly, Written

LEMMA FillSettles ==
    ASSUME Sound, TypeOK', NEW o \in OrderId, FillStep(o)
    PROVE  CommitsSoundly /\ Relieved /\ (~ crossed' => RowsStay)
<1> USE DEF Sound
<1>1. FreezesFitOrders BY DEF BooksInv
<1>2. Relieved /\ ShortfallInv' BY <1>1, FillBooks, FillRelieves
<1>3. BooksInv' BY FillKeepsBooks
<1>4. ~ crossed' => RowsStay BY FillStays
<1> QED BY <1>2, <1>3, <1>4 DEF CommitsSoundly, Written

LEMMA SoundCommit ==
    ASSUME Sound, TypeOK', CommitsSoundly
    PROVE  Sound'
<1> USE DEF Sound
<1>1. PICK o \in OrderId : Written(o) BY DEF CommitsSoundly
<1>2. Grounds' BY <1>1, WrittenKeepsGrounds
<1>3. TriggersMatchOrders' BY <1>1, WrittenKeepsTriggers DEF Grounds
<1> QED BY <1>2, <1>3 DEF CommitsSoundly

LEMMA HandlerCommitsSoundly ==
    ASSUME RaceInv, TypeOK', Sound, HandlerReady, CommitOperate, ~ overlapped'
    PROVE  Sound'
<1> USE DEF RaceInv
<1>1. op # Absent /\ Commit(op) BY DEF CommitOperate
<1>2. ~ Changed(op) BY <1>1 DEF Commit
<1>3. /\ op \in MarketWrite \cup LimitWrite \cup ReleaseWrite /\ LotsToFreezeExist(op)
      /\ MarketReady(op) /\ LimitReady(op) /\ ReleaseReady(op)
  BY <1>1 DEF HandlerSound, HandlerReady
<1>4. CASE op \in MarketWrite
  BY <1>1, <1>2, <1>3, <1>4, MarketCommitsSoundly, SoundCommit
<1>5. CASE op \in LimitWrite
  BY <1>1, <1>2, <1>3, <1>5, LimitCommitsSoundly, SoundCommit
<1>6. CASE op \in ReleaseWrite
  <2>1. op.o \in OrderId /\ ReleaseStep(op.o)
    BY <1>1, <1>2, <1>3, <1>6, ReleaseCommits
  <2> QED BY <2>1, ReleaseSettles, SoundCommit
<1> QED BY <1>3, <1>4, <1>5, <1>6

LEMMA EvaluatorCommitsSoundly ==
    ASSUME RaceInv, EvaluationReady, TypeOK', Sound, HandlerReady,
           CommitEvaluation, ~ overlapped'
    PROVE  Sound' /\ HandlerReady'
<1> USE DEF RaceInv
<1>1. evaluation # Absent /\ Commit(evaluation) /\ op' = op BY DEF CommitEvaluation
<1>2. ~ Changed(evaluation) BY <1>1 DEF Commit
<1>3. /\ evaluation \in ReleaseWrite \cup FillWrite
      /\ ReleaseReady(evaluation) /\ FillReady(evaluation)
  BY <1>1 DEF EvaluationSound, EvaluationReady
<1>4. PICK o \in OrderId : ReleaseStep(o) \/ FillStep(o)
  BY <1>1, <1>2, <1>3, ReleaseCommits, FillCommits
<1>5. /\ CommitsSoundly /\ Relieved /\ (~ crossed' => RowsStay)
  BY <1>4, ReleaseSettles, FillSettles
<1>6. Sound' BY <1>5, SoundCommit
<1>7. /\ today' = today /\ (crossed => crossed')
      /\ \A i \in OrderId : i # o => order'[i] = order[i]
      /\ IsActive(order[o])
  <2>1. CASE ReleaseStep(o)
    BY <2>1 DEF ReleaseStep, CommitRelease, Grounds, TypeOK
  <2>2. CASE FillStep(o)
    BY <2>2 DEF FillStep, CommitLimitFill, Grounds, TypeOK
  <2> QED BY <1>4, <2>1, <2>2
<1>8. /\ Held(freeze) \in Int /\ Held(freeze)' \in Int /\ Slack \in Int /\ Slack' \in Int
  BY <1>6, SlackType, SlackTypeNext DEF Sound
<1>9. SUFFICES ASSUME op # Absent PROVE HandlerReady'
  BY <1>1, <1>6 DEF HandlerReady
<1>10. PICK w : w = op OBVIOUS
<1>11. /\ w \in MarketWrite \cup LimitWrite \cup ReleaseWrite
       /\ MarketReady(w) /\ LimitReady(w) /\ ReleaseReady(w) /\ op' = w
  BY <1>1, <1>9, <1>10 DEF HandlerSound, HandlerReady
<1>12. ASSUME w \in MarketWrite \cup LimitWrite PROVE order'[w.o] = order[w.o]
  <2>1. w.o \in OrderId /\ order[w.o] = Absent
    BY <1>11, <1>12 DEF MarketReady, LimitReady, MarketWrite, LimitWrite
  <2>2. w.o # o BY <1>7, <2>1 DEF IsActive
  <2> QED BY <1>7, <2>1, <2>2
<1> QED BY <1>5, <1>7, <1>8, <1>11, <1>12, HandlerStaysReady

(* The steps that write no row of an order, a position or a lot. *)
LEMMA QuietStaysSound ==
    ASSUME Sound, TypeOK', QuietStep
    PROVE  Sound'
<1> USE DEF Sound, Grounds
<1>1. UNCHANGED <<cash, tables, crossed>> BY DEF QuietStep
<1>2. LotsWithinBounds' /\ OnePositionPerCode'
  BY <1>1, SamePositionsKeepOne DEF tables, LotsWithinBounds
<1>3. OrderInv'
  BY <1>1 DEF tables, OrderInv, FreezeWhileActive, OrdersSound, RowSound, IsActive
<1>4. TriggersMatchOrders' BY <1>1 DEF tables, TriggersMatchOrders
<1>5. BooksInv' BY QuietKeepsBooks
<1>6. ShortfallInv' BY <1>1 DEF tables, ShortfallInv, Held, Charges
<1> QED BY <1>2, <1>3, <1>4, <1>5, <1>6

LEMMA EmptyIsSound ==
    ASSUME TypeOK', cash' \in Nat, EmptyBooks', trigger' = {}
    PROVE  Sound'
<1>1. /\ \A o \in OrderId : order'[o] = Absent /\ freeze'[o] = Absent
      /\ \A l \in LotId : lot'[l] = Absent
      /\ \A p \in PositionId : position'[p] = Absent
  BY DEF EmptyBooks, EmptyTable
<1>2. LotsWithinBounds' BY <1>1 DEF LotsWithinBounds
<1>3. OnePositionPerCode' BY <1>1 DEF OnePositionPerCode, OpenPositions, IsOpen
<1>4. OrderInv' BY <1>1 DEF OrderInv, FreezeWhileActive, OrdersSound, IsActive
<1>5. TriggersMatchOrders' BY <1>1 DEF TriggersMatchOrders
<1>6. BooksInv' BY EmptyBooksAgreeNext
<1>7. ShortfallInv'
  <2>1. Held(freeze)' = Held(freeze') /\ Charges(order)' = Charges(order') BY DEF Held, Charges
  <2>2. order' = EmptyTable(OrderId) /\ freeze' = EmptyTable(OrderId) BY DEF EmptyBooks
  <2>3. Held(freeze)' = 0 /\ Charges(order)' = 0 BY <2>1, <2>2, NothingHeld
  <2>4. Held(freeze)' <= cash' + Charges(order)'
    <3> DEFINE held == Held(freeze)'
               charged == Charges(order)'
               after == cash'
    <3>1. held = 0 /\ charged = 0 /\ after \in Nat BY <2>3
    <3> HIDE DEF held, charged, after
    <3>2. held <= after + charged BY <3>1
    <3> QED BY <3>2 DEF held, charged, after
  <2> QED BY <2>4 DEF ShortfallInv
<1> QED BY <1>2, <1>3, <1>4, <1>5, <1>6, <1>7 DEF Sound, Grounds

LEMMA EmptyStartIsSound ==
    ASSUME RaceInit
    PROVE  Sound
<1>1. TypeOK BY InitTyped DEF RaceInit
<1>2. /\ EmptyBooks /\ trigger = {} /\ cash = InitialCash
      /\ order = EmptyTable(OrderId) /\ freeze = EmptyTable(OrderId)
  BY DEF RaceInit, Init, EmptyBooks
<1>3. /\ \A o \in OrderId : order[o] = Absent /\ freeze[o] = Absent
      /\ \A l \in LotId : lot[l] = Absent
      /\ \A p \in PositionId : position[p] = Absent
  BY <1>2 DEF EmptyBooks, EmptyTable
<1>4. LotsWithinBounds BY <1>3 DEF LotsWithinBounds
<1>5. OnePositionPerCode BY <1>3 DEF OnePositionPerCode, OpenPositions, IsOpen
<1>6. OrderInv BY <1>3 DEF OrderInv, FreezeWhileActive, OrdersSound, IsActive
<1>7. TriggersMatchOrders BY <1>2, <1>3 DEF TriggersMatchOrders
<1>8. BooksInv BY <1>2, EmptyBooksAgree
<1>9. ShortfallInv
  <2>1. Held(freeze) = 0 /\ Charges(order) = 0 BY <1>2, NothingHeld
  <2> QED BY <1>2, <2>1, AccountAssumption DEF ShortfallInv
<1> QED BY <1>1, <1>4, <1>5, <1>6, <1>7, <1>8, <1>9 DEF Sound, Grounds

(* What the evaluator has read. *)
LEMMA EvaluatorReadsReady ==
    ASSUME RaceInv, EvaluationReady, PageReady, [RaceNext]_raceVars
    PROVE  EvaluationReady' /\ PageReady'
<1> USE DEF RaceInv
<1>1. CASE ListActiveOrders
  <2>1. evaluation' = evaluation
        /\ \A listed \in page' : \E o \in OrderId : listed.row = order[o] /\ IsActive(order[o])
    BY <1>1 DEF ListActiveOrders
  <2>2. PageReady' BY <2>1 DEF PageReady, IsActive
  <2>3. EvaluationReady' BY <2>1 DEF EvaluationReady, ReleaseReady, FillReady, IsActive, Matches
  <2> QED BY <2>2, <2>3
<1>2. CASE EvaluateNext
  <2>1. page # NoPage /\ evaluation = Absent BY <1>2 DEF EvaluateNext
  <2>2. PICK listed \in page :
          /\ ReadForExpiry(listed) \/ ReadForFill(listed) \/ PassOver(listed)
          /\ page' = page \ {listed}
    BY <1>2 DEF EvaluateNext
  <2>3. IsActive(listed.row) BY <2>1, <2>2 DEF PageReady
  <2>4. PageReady' BY <2>1, <2>2 DEF PageReady, IsActive
  <2>5. CASE ReadForExpiry(listed)
    <3>1. /\ evaluation'.kind = "release" /\ evaluation'.row = listed.row
          /\ evaluation'.status = "expired"
      BY <2>5 DEF ReadForExpiry
    <3>2. evaluation' \notin FillWrite BY <3>1 DEF FillWrite
    <3> QED BY <2>3, <2>4, <3>1, <3>2 DEF EvaluationReady, ReleaseReady, FillReady, IsActive
  <2>6. CASE ReadForFill(listed)
    <3>1. PICK price \in Price, filled \in 1..(listed.row.quantity - listed.row.filled),
               existing \in ReadOpenPosition(listed.row.code) :
            /\ Matches(listed.row, price)
            /\ evaluation' = [kind |-> "fill", o |-> listed.o, row |-> listed.row,
                              cash |-> cash, existing |-> existing,
                              freeze |-> freeze[listed.o], price |-> price,
                              filled |-> filled]
      BY <2>6 DEF ReadForFill
    <3>2. /\ evaluation'.kind = "fill" /\ evaluation'.row = listed.row
          /\ evaluation'.price = price /\ evaluation'.filled = filled
      BY <3>1
    <3>3. evaluation' \notin ReleaseWrite BY <3>2 DEF ReleaseWrite
    <3> QED BY <2>3, <2>4, <3>1, <3>2, <3>3
         DEF EvaluationReady, ReleaseReady, FillReady, IsActive, Matches
  <2>7. CASE PassOver(listed)
    BY <2>1, <2>4, <2>7 DEF PassOver, EvaluationReady
  <2> QED BY <2>2, <2>5, <2>6, <2>7
<1>3. CASE CommitEvaluation
  <2>1. evaluation' = Absent /\ page' = page BY <1>3 DEF CommitEvaluation
  <2> QED BY <2>1 DEF EvaluationReady, PageReady, IsActive
<1>4. CASE EndTick
  <2>1. evaluation' = evaluation /\ page' = NoPage BY <1>4 DEF EndTick
  <2> QED BY <2>1 DEF EvaluationReady, ReleaseReady, FillReady, PageReady, IsActive, Matches
<1>5. CASE BeginOperate \/ CommitOperate \/ Reset \/ BeginTick \/ PassDay \/ UNCHANGED raceVars
  <2>1. evaluation' = evaluation /\ page' = page
    BY <1>5 DEF BeginOperate, CommitOperate, Reset, BeginTick, PassDay, race, raceVars
  <2> QED BY <2>1 DEF EvaluationReady, ReleaseReady, FillReady, PageReady, IsActive, Matches
<1> QED BY <1>1, <1>2, <1>3, <1>4, <1>5 DEF RaceNext

LEMMA SoundStep ==
    ASSUME SoundInv, RaceInv', [RaceNext]_raceVars
    PROVE  SoundInv'
<1> USE DEF SoundInv
<1>1. TypeOK /\ TypeOK' BY DEF RaceInv
<1>2. EvaluationReady' /\ PageReady' BY EvaluatorReadsReady
<1>3. SUFFICES ASSUME ~ overlapped' PROVE Sound' /\ HandlerReady'
  BY <1>2
<1>4. overlapped => overlapped'
  BY DEF RaceNext, BeginOperate, CommitOperate, Reset, BeginTick, ListActiveOrders,
         EvaluateNext, CommitEvaluation, EndTick, PassDay, Commit, race, raceVars
<1>5. Sound /\ HandlerReady BY <1>3, <1>4
<1>6. CASE BeginOperate
  <2>1. UNCHANGED vars BY <1>6 DEF BeginOperate
  <2> QED BY <1>1, <1>5, <1>6, <2>1, QuietSteps, QuietStaysSound, HandlerReadsReady
<1>7. CASE CommitOperate
  <2>1. op' = Absent BY <1>7 DEF CommitOperate
  <2> QED BY <1>1, <1>3, <1>5, <1>7, <2>1, HandlerCommitsSoundly DEF HandlerReady
<1>8. CASE Reset
  <2>1. op' = Absent /\ ResetAccount BY <1>8 DEF Reset, race
  <2>2. cash' \in Nat /\ EmptyBooks' /\ trigger' = {}
    BY <2>1, AccountAssumption DEF ResetAccount, EmptyBooks
  <2> QED BY <1>1, <2>1, <2>2, EmptyIsSound DEF HandlerReady
<1>9. CASE BeginTick \/ PassDay
  <2>1. op' = Absent /\ (StartEvaluation \/ NextDay)
    BY <1>9 DEF BeginTick, PassDay, race
  <2> QED BY <1>1, <1>5, <2>1, QuietSteps, QuietStaysSound DEF HandlerReady
<1>10. CASE CommitEvaluation
  BY <1>1, <1>3, <1>5, <1>10, EvaluatorCommitsSoundly
<1>11. CASE ListActiveOrders \/ EvaluateNext \/ EndTick \/ UNCHANGED raceVars
  <2>1. op' = op /\ (FinishEvaluation \/ UNCHANGED vars)
    BY <1>11 DEF ListActiveOrders, EvaluateNext, EndTick, race, raceVars
  <2>2. Sound' BY <1>1, <1>5, <2>1, QuietSteps, QuietStaysSound
  <2>3. UNCHANGED <<cash, tables, today, crossed>>
    BY <2>1 DEF FinishEvaluation, vars
  <2>4. ASSUME op # Absent PROVE HandlerReady'
    <3>1. PICK w : w = op OBVIOUS
    <3>2. /\ w \in MarketWrite \cup LimitWrite \cup ReleaseWrite
          /\ MarketReady(w) /\ LimitReady(w) /\ ReleaseReady(w) /\ op' = w
      BY <1>5, <2>1, <2>4, <3>1 DEF HandlerReady, RaceInv, HandlerSound
    <3>3. order'[w.o] = order[w.o] BY <2>3 DEF tables
    <3> QED BY <1>5, <2>3, <3>2, <3>3, UnchangedStays, HandlerStaysReady DEF Sound
  <2> QED BY <2>1, <2>2, <2>4 DEF HandlerReady
<1> QED BY <1>6, <1>7, <1>8, <1>9, <1>10, <1>11 DEF RaceNext

LEMMA SoundInvHolds == RaceSpec => []SoundInv
<1>1. RaceInit => EvaluationReady /\ PageReady /\ HandlerReady
  BY DEF RaceInit, EvaluationReady, PageReady, HandlerReady
<1>2. RaceInit /\ RaceInv => SoundInv
  BY <1>1, EmptyStartIsSound DEF SoundInv
<1>3. SoundInv /\ RaceInv' /\ [RaceNext]_raceVars => SoundInv'
  BY SoundStep
<1> QED BY <1>2, <1>3, RaceInvHolds, PTL DEF RaceSpec

(* However the handlers of operate_account and the evaluator read and commit    *)
(* between each other, the tables stay as a single writer would leave them for   *)
(* as long as no transaction was committed from reads that had changed: what a   *)
(* handler had checked before the evaluator's transaction stays true after it.   *)
THEOREM OverlapIsTheOnlyHarm == RaceSpec => []SoundWithoutOverlap
<1>1. SoundInv => SoundWithoutOverlap
  <2>1. SUFFICES ASSUME SoundInv, ~ overlapped
                 PROVE  /\ OnePositionPerCode /\ FreezeWhileActive /\ PositionsMatchLots
                        /\ TriggersMatchOrders /\ BooksAgree /\ ShortfallBounded
    BY DEF SoundWithoutOverlap
  <2>2. Grounds /\ TriggersMatchOrders /\ BooksInv /\ ShortfallInv
    BY <2>1 DEF SoundInv, Sound
  <2>3. PositionsMatchLots BY <2>2, PositionsFitIs DEF BooksInv, Agreement
  <2>4. BooksAgree BY <2>2, AgreementShows
  <2>5. ShortfallBounded BY <2>2, ShortfallIs DEF Grounds
  <2> QED BY <2>2, <2>3, <2>4, <2>5 DEF Grounds, OrderInv
<1> QED BY <1>1, SoundInvHolds, PTL
=============================================================================
