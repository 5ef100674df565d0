---------------------------- MODULE AccountRace ----------------------------
(***************************************************************************)
(* The account as the code runs it.  The handlers of operate_account hold  *)
(* write_lock; the evaluator does not.  Both read what they need with      *)
(* database calls of their own and then commit one transaction, so the     *)
(* other can commit between the reads and the transaction.                 *)
(*                                                                         *)
(* The transactions are Account's; what is added is when they read.  The   *)
(* reads of one handler, or of one order's evaluation, are one step here.  *)
(***************************************************************************)
EXTENDS Account

VARIABLES
    op,          \* the handler that holds write_lock, with what it read
    page,        \* the rows list_active_orders returned that are not done yet
    evaluation,  \* the order being evaluated, with what was read for it
    overlapped   \* history: a transaction was committed from reads that had changed

race == <<op, page, evaluation, overlapped>>
raceVars == <<vars, race>>

NoPage == Absent
-----------------------------------------------------------------------------
(* Whether what a writer read differs from what it would read now. *)

PositionChanged(c, existing) == existing \notin ReadOpenPosition(c)

RowChanged(w) == order[w.o] # w.row \/ freeze[w.o] # w.freeze

Changed(w) ==
    CASE w.kind = "market" -> cash # w.cash \/ PositionChanged(w.request.code, w.existing)
      [] w.kind = "limit"  -> \E l \in LotId :
                                /\ w.freeze.lots[l] > 0
                                /\ w.freeze.lots[l] > lot[l].remaining - lot[l].frozen
      [] w.kind = "release" -> RowChanged(w)
      [] w.kind = "fill"   -> \/ RowChanged(w)
                              \/ cash # w.cash
                              \/ PositionChanged(w.row.code, w.existing)

Commit(w) ==
    /\ overlapped' = (overlapped \/ Changed(w))
    /\ \/ /\ w.kind = "market"
          /\ CommitMarketFill(w.o, w.request, w.cash, w.existing, w.price, w.filled)
       \/ /\ w.kind = "limit"
          /\ CommitLimitOrder(w.o, w.row, w.freeze)
       \/ /\ w.kind = "release"
          /\ CommitRelease(w.o, w.row, w.freeze, w.status)
       \/ /\ w.kind = "fill"
          /\ CommitLimitFill(w.o, w.row, w.cash, w.existing, w.freeze, w.price, w.filled)
-----------------------------------------------------------------------------
(* The handlers, under write_lock. *)

Requests ==
    PlaceOrderRequests \cup OpenPositionRequests
        \cup ScalePositionRequests \cup ClosePositionRequests

ReadForMarketOrder(o, r) ==
    /\ PlacementAllowed(o, r)
    /\ \E price \in Price, filled \in 1..r.quantity, existing \in ReadOpenPosition(r.code) :
         /\ MarketFillAllowed(r, price, filled)
         /\ op' = [kind |-> "market", o |-> o, request |-> r, cash |-> cash,
                   existing |-> existing, price |-> price, filled |-> filled]

ReadForLimitOrder(o, r) ==
    /\ PlacementAllowed(o, r)
    /\ \E row \in LimitOrders(r) : \E frz \in LimitFreezes(row) :
         op' = [kind |-> "limit", o |-> o, row |-> row, freeze |-> frz]

ReadForCancel(o) ==
    /\ IsActive(order[o])
    /\ op' = [kind |-> "release", o |-> o, row |-> order[o], freeze |-> freeze[o],
              status |-> "cancelled"]

BeginOperate ==
    /\ op = Absent
    /\ \E o \in OrderId :
         \/ \E r \in Requests : ReadForMarketOrder(o, r)
         \/ \E r \in Requests : ReadForLimitOrder(o, r)
         \/ ReadForCancel(o)
    /\ UNCHANGED <<vars, page, evaluation, overlapped>>

CommitOperate ==
    /\ op # Absent
    /\ Commit(op)
    /\ op' = Absent
    /\ UNCHANGED <<page, evaluation>>

Reset ==
    /\ op = Absent
    /\ ResetAccount
    /\ UNCHANGED race
-----------------------------------------------------------------------------
(* The evaluator, without the lock: only its rebuild takes it. *)

BeginTick ==
    /\ op = Absent
    /\ StartEvaluation
    /\ UNCHANGED race

ListActiveOrders ==
    /\ evaluating
    /\ page = NoPage
    /\ page' = {[o |-> o, row |-> order[o]] : o \in {i \in OrderId : IsActive(order[i])}}
    /\ UNCHANGED <<vars, op, evaluation, overlapped>>

ReadForExpiry(listed) ==
    /\ today >= listed.row.expires
    /\ evaluation' = [kind |-> "release", o |-> listed.o, row |-> listed.row,
                      freeze |-> freeze[listed.o], status |-> "expired"]

ReadForFill(listed) ==
    /\ today < listed.row.expires
    /\ \E price \in Price, filled \in 1..(listed.row.quantity - listed.row.filled),
          existing \in ReadOpenPosition(listed.row.code) :
         /\ Matches(listed.row, price)
         /\ evaluation' = [kind |-> "fill", o |-> listed.o, row |-> listed.row,
                           cash |-> cash, existing |-> existing,
                           freeze |-> freeze[listed.o], price |-> price, filled |-> filled]

(* An order without a matching quote is passed over. *)
PassOver(listed) ==
    /\ today < listed.row.expires
    /\ UNCHANGED evaluation

EvaluateNext ==
    /\ page # NoPage
    /\ evaluation = Absent
    /\ \E listed \in page :
         /\ \/ ReadForExpiry(listed)
            \/ ReadForFill(listed)
            \/ PassOver(listed)
         /\ page' = page \ {listed}
    /\ UNCHANGED <<vars, op, overlapped>>

CommitEvaluation ==
    /\ evaluation # Absent
    /\ Commit(evaluation)
    /\ evaluation' = Absent
    /\ UNCHANGED <<op, page>>

EndTick ==
    /\ page = {}
    /\ evaluation = Absent
    /\ FinishEvaluation
    /\ page' = NoPage
    /\ UNCHANGED <<op, evaluation, overlapped>>
-----------------------------------------------------------------------------
PassDay ==
    /\ op = Absent
    /\ NextDay
    /\ UNCHANGED race

RaceInit ==
    /\ Init
    /\ op = Absent
    /\ page = NoPage
    /\ evaluation = Absent
    /\ overlapped = FALSE

RaceNext ==
    \/ BeginOperate
    \/ CommitOperate
    \/ Reset
    \/ BeginTick
    \/ ListActiveOrders
    \/ EvaluateNext
    \/ CommitEvaluation
    \/ EndTick
    \/ PassDay

RaceSpec == RaceInit /\ [][RaceNext]_raceVars
-----------------------------------------------------------------------------
(* A lot is never sold twice: consume_lots_fifo reads the lots inside the      *)
(* transaction that writes them, whatever the writer had read before.          *)
LotsNeverOversold ==
    \A l \in LotId : lot[l] # Absent => lot[l].remaining \in 0..lot[l].quantity

(* Overlapping transactions are the only cause of damage: while every          *)
(* transaction committed what it had read unchanged, the tables fit together   *)
(* as they do under a single writer, though an order's checks are made before  *)
(* the evaluator's transaction.                                                *)
SoundWithoutOverlap ==
    ~ overlapped =>
        /\ OnePositionPerCode
        /\ FreezeWhileActive
        /\ PositionsMatchLots
        /\ TriggersMatchOrders
        /\ BooksAgree
        /\ ShortfallBounded
=============================================================================
