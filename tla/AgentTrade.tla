----------------------------- MODULE AgentTrade -----------------------------
(***************************************************************************)
(* The trades of agent runs, beside the delivery of triggers.  The handler *)
(* of operate_account writes a trade row, calls the account, settles the   *)
(* row and indexes the order; the account raises the trigger of an order   *)
(* that is filled while it is called.  At startup the trades that are      *)
(* still submitting are compared with the account.  The two writes that    *)
(* follow the account's answer may fail, and so may the recovery at any    *)
(* step: the program goes on after each of these errors.                   *)
(*                                                                         *)
(* A trigger is named by the order whose end raised it.  The account is    *)
(* reduced to the orders it has, and refuses a request at will.  Every     *)
(* call generates a clientOrderId of its own, here the trade itself, so    *)
(* the account's table of operations never answers a call.                 *)
(***************************************************************************)
EXTENDS TriggerDelivery

CONSTANTS
    Trade,     \* ids of trades, used once
    Dialogue,  \* a run that no trigger started: of a conversation, or of the news
    Absent     \* no such row

VARIABLES
    trade,      \* agent_trades
    order,      \* account_orders, with the trade that made and that cancelled each
    index,      \* agent_order_run_index: the trade an order is attributed to
    operating,  \* the holder of operate_lock, or the recovery's current trade
    origin,     \* what the run of a trigger found out about its origin
    lapse       \* history: the error or crash that a trade's rows last suffered

tradeVars == <<trade, order, index, operating, origin, lapse>>
allVars == <<vars, tradeVars>>

Order == Trigger
Run == {Dialogue} \cup Route \X Trigger
-----------------------------------------------------------------------------
AgentTrade == [run : Run, action : {"place", "cancel"}, status : {"submitting", "settled"},
               accepted : BOOLEAN]

AccountOrder == [madeBy : Trade, cancelledBy : Trade \cup {Absent},
                 status : {"active", "filled", "cancelled"}]

(* accepted and order are the account's answer once there is one. *)
Operation == [trade : Trade, stage : {"submitted", "emitting", "answered", "settled"},
              accepted : BOOLEAN, order : Order \cup {Absent}]

Lapse == {"none", "unsettled", "misread", "unindexed"}

ASSUME AbsentAssumption ==
    Absent \notin Trade \cup Order \cup AgentTrade \cup AccountOrder \cup Operation

(* The call of d has begun and not returned; or the recovery is at d. *)
UnderWay(d) == operating # Absent /\ operating.trade = d

RunsNow(run) ==
    /\ running
    /\ run # Dialogue => worker[run] = "running"

(* find_order_by_client_order_id *)
OrdersMadeBy(d) == {o \in Order : order[o] # Absent /\ order[o].madeBy = d}

Settled(d, accepted) ==
    [trade EXCEPT ![d] = [@ EXCEPT !.status = "settled", !.accepted = accepted]]

(* Mutant: with the settling of a trade its call is over. *)
AfterSettlingOnly(d, accepted, o) == Absent

(* What follows the settling of d: the index, when there is an order to index. *)
AfterSettling(d, accepted, o) ==
    IF accepted /\ o # Absent
    THEN [trade |-> d, stage |-> "settled", accepted |-> TRUE, order |-> o]
    ELSE Absent
-----------------------------------------------------------------------------
(* The handler of operate_account, under operate_lock. *)

RecordSubmitting(d, run) ==
    /\ operating = Absent
    /\ trade[d] = Absent
    /\ RunsNow(run)
    /\ \E action \in {"place", "cancel"} :
         trade' = [trade EXCEPT ![d] = [run |-> run, action |-> action,
                                        status |-> "submitting", accepted |-> FALSE]]
    /\ operating' = [trade |-> d, stage |-> "submitted", accepted |-> FALSE, order |-> Absent]
    /\ UNCHANGED <<vars, order, index, origin, lapse>>

Answered(stage, accepted, o) ==
    operating' = [operating EXCEPT !.stage = stage, !.accepted = accepted, !.order = o]

Called == operating # Absent /\ operating.stage = "submitted"

AccountRefuses ==
    /\ Called
    /\ Answered("answered", FALSE, Absent)
    /\ UNCHANGED <<vars, trade, order, index, origin, lapse>>

(* A limit order waits; a market order is filled at once and raises its trigger, *)
(* or is filled in part and raises none, here like an order nothing ends.        *)
AccountPlaces(o) ==
    /\ Called
    /\ trade[operating.trade].action = "place"
    /\ order[o] = Absent
    /\ \E status \in {"active", "filled"} :
         /\ order' = [order EXCEPT ![o] = [madeBy |-> operating.trade, cancelledBy |-> Absent,
                                           status |-> status]]
         /\ \/ /\ status = "active"
               /\ Answered("answered", TRUE, o)
               /\ UNCHANGED vars
            \/ /\ status = "filled"
               /\ Answered("emitting", TRUE, o)
               /\ RaiseTrigger(o)
    /\ UNCHANGED <<trade, index, origin, lapse>>

(* The account calls the sink before it returns. *)
AccountEmits ==
    /\ operating # Absent
    /\ operating.stage = "emitting"
    /\ EmitTriggered(operating.order)
    /\ Answered("answered", TRUE, operating.order)
    /\ UNCHANGED <<trade, order, index, origin, lapse>>

AccountCancels(o) ==
    /\ Called
    /\ trade[operating.trade].action = "cancel"
    /\ order[o] # Absent
    /\ order[o].status = "active"
    /\ order' = [order EXCEPT ![o] = [@ EXCEPT !.status = "cancelled",
                                               !.cancelledBy = operating.trade]]
    /\ Answered("answered", TRUE, o)
    /\ UNCHANGED <<vars, trade, index, origin, lapse>>

(* When the write fails the handler returns an error, and leaves the trade to the *)
(* next recovery.                                                                 *)
SettleTrade ==
    /\ operating # Absent
    /\ operating.stage = "answered"
    /\ \/ /\ trade' = Settled(operating.trade, operating.accepted)
          /\ operating' = AfterSettling(operating.trade, operating.accepted, operating.order)
          /\ UNCHANGED lapse
       \/ /\ lapse' = [lapse EXCEPT ![operating.trade] = "unsettled"]
          /\ operating' = Absent
          /\ UNCHANGED trade
    /\ UNCHANGED <<vars, order, index, origin>>

IndexLost(d) == [lapse EXCEPT ![d] = "unindexed"]

(* Nothing writes the index of a settled trade again.  In the recovery an error is *)
(* its end: RestartWithTrades.                                                     *)
UpsertOrderRunIndex ==
    /\ operating # Absent
    /\ operating.stage = "settled"
    /\ operating' = Absent
    /\ \/ /\ index' = [index EXCEPT ![operating.order] = operating.trade]
          /\ UNCHANGED lapse
       \/ /\ running
          /\ lapse' = IndexLost(operating.trade)
          /\ UNCHANGED index
    /\ UNCHANGED <<vars, trade, order, origin>>
-----------------------------------------------------------------------------
(* The evaluator of the account ends a limit order: a fill, or an expiry, whose   *)
(* trigger is delivered in the same way.                                         *)
EvaluatorFills(o) ==
    /\ order[o] # Absent
    /\ order[o].status = "active"
    /\ order' = [order EXCEPT ![o] = [@ EXCEPT !.status = "filled"]]
    /\ RaiseTrigger(o)
    /\ UNCHANGED <<trade, index, operating, origin, lapse>>

(* The run of a trigger looks up the origin of its order before it starts. *)
ResolvedOrigin(o) == IF index[o] # Absent THEN "found" ELSE "missing"

StartTriggerRun(r, t) ==
    /\ RunStarts(r, t)
    /\ origin' = [origin EXCEPT ![t] =
                    IF worker'[<<r, t>>] = "running" THEN ResolvedOrigin(t) ELSE @]
    /\ UNCHANGED <<trade, order, index, operating, lapse>>

(* A run ends after the calls it has made. *)
EndTriggerRun(r, t) ==
    /\ operating # Absent => trade[operating.trade].run # <<r, t>>
    /\ RunEnds(r, t)
    /\ UNCHANGED tradeVars

EmittedByEvaluator(t) ==
    operating # Absent => ~ (operating.stage = "emitting" /\ operating.order = t)

DeliveryStep ==
    /\ \/ \E t \in Trigger :
            \/ UserMarksHandled(t)
            \/ EmittedByEvaluator(t) /\ EmitTriggered(t)
            \/ RescanNext(t)
            \/ \E r \in Route : MarkHandled(r, t) \/ MarkConsumption(r, t)
       \/ ListUnhandled
       \/ SwitchChannel
    /\ UNCHANGED tradeVars
-----------------------------------------------------------------------------
(* A crash, of the program or of its recovery. *)

AtIndex == operating # Absent /\ operating.stage = "settled"

CrashWithTrades ==
    /\ Crash
    /\ operating' = Absent
    /\ lapse' = IF AtIndex THEN IndexLost(operating.trade) ELSE lapse
    /\ UNCHANGED <<trade, order, index, origin>>

(* Mutant: recovery has no reconciler to ask. *)
ReconciledWithoutAccount(d) == {Absent}

(* What the reconciler finds for a trade: an order, or nothing. *)
ReconciledOrders(d) == IF OrdersMadeBy(d) = {} THEN {Absent} ELSE OrdersMadeBy(d)

(* Mutant: the trades of the conversation are left to it. *)
SubmittingTriggerTrades ==
    {d \in Trade : trade[d] # Absent /\ trade[d].status = "submitting"
                   /\ trade[d].run # Dialogue}

(* list_submitting_trades *)
SubmittingTrades == {d \in Trade : trade[d] # Absent /\ trade[d].status = "submitting"}

(* The reconciler takes an error of its read for an order that is not there. *)
Reconcile(d) ==
    /\ ~ running
    /\ operating = Absent
    /\ d \in SubmittingTrades
    /\ \/ \E o \in ReconciledOrders(d) :
            /\ trade' = Settled(d, o # Absent)
            /\ operating' = AfterSettling(d, o # Absent, o)
            /\ lapse' = [lapse EXCEPT ![d] = "none"]
       \/ /\ OrdersMadeBy(d) # {}
          /\ trade' = Settled(d, FALSE)
          /\ lapse' = [lapse EXCEPT ![d] = "misread"]
          /\ UNCHANGED operating
    /\ UNCHANGED <<vars, order, index, origin>>

(* Trades are reconciled before the records of consumptions are reset. *)
RecoverDelivery ==
    /\ operating = Absent
    /\ SubmittingTrades = {}
    /\ \E t \in Trigger : RecoverRecord(t)
    /\ UNCHANGED tradeVars

(* An error in any step of the recovery ends it, and the program starts. *)
RestartWithTrades ==
    /\ Restart
    /\ operating' = Absent
    /\ lapse' = [d \in Trade |-> IF d \in SubmittingTrades THEN "unsettled"
                                ELSE IF AtIndex /\ UnderWay(d) THEN "unindexed"
                                ELSE lapse[d]]
    /\ UNCHANGED <<trade, order, index, origin>>

TradeInit ==
    /\ Init
    /\ trade = [d \in Trade |-> Absent]
    /\ order = [o \in Order |-> Absent]
    /\ index = [o \in Order |-> Absent]
    /\ operating = Absent
    /\ origin = [t \in Trigger |-> "none"]
    /\ lapse = [d \in Trade |-> "none"]

TradeNext ==
    \/ \E d \in Trade : (\E run \in Run : RecordSubmitting(d, run)) \/ Reconcile(d)
    \/ AccountRefuses
    \/ AccountEmits
    \/ \E o \in Order : AccountPlaces(o) \/ AccountCancels(o) \/ EvaluatorFills(o)
    \/ SettleTrade
    \/ UpsertOrderRunIndex
    \/ \E r \in Route, t \in Trigger : StartTriggerRun(r, t) \/ EndTriggerRun(r, t)
    \/ DeliveryStep
    \/ CrashWithTrades
    \/ RecoverDelivery
    \/ RestartWithTrades

TradeSpec == TradeInit /\ [][TradeNext]_allVars
-----------------------------------------------------------------------------
(* However a call to place an order ended, in a crash or with an error, its row   *)
(* says once settled what the account did, unless the reconciler could not read   *)
(* the order.                                                                     *)
SettledAgreesWithAccount ==
    \A d \in Trade :
        trade[d] # Absent /\ trade[d].status = "settled" /\ trade[d].action = "place" =>
            (trade[d].accepted <=> OrdersMadeBy(d) # {}) \/ lapse[d] = "misread"

(* While the program runs, a trade that says submitting is under way, or its       *)
(* settling failed, or the last recovery ended with an error: no crash leaves one. *)
NothingLeftSubmitting ==
    running =>
        \A d \in Trade : trade[d] # Absent /\ trade[d].status = "submitting" =>
            UnderWay(d) \/ lapse[d] = "unsettled"

(* An entry of the index names a trade that made or cancelled the order.  While   *)
(* the program runs an order lacks its entry only as long as the call that placed *)
(* it is under way, or for good when an error or a crash fell between the         *)
(* settling and the entry, when its row was misread, or could not be settled yet. *)
IndexKept ==
    \A o \in Order :
        /\ index[o] # Absent =>
             order[o] # Absent /\ index[o] \in {order[o].madeBy, order[o].cancelledBy}
        /\ running /\ order[o] # Absent /\ index[o] = Absent =>
             UnderWay(order[o].madeBy) \/ lapse[order[o].madeBy] # "none"

(* Only in those cases does the run of a trigger look up its origin in vain. *)
MissesOrigin(o) == origin[o] # "missing" /\ origin'[o] = "missing"

OriginsFound ==
    \A o \in Order : MissesOrigin(o) =>
        UnderWay(order[o].madeBy) \/ lapse[order[o].madeBy] # "none"

(* Every step keeps the index, and the run of a trigger that it starts finds it. *)
OrdersIndexed == [][IndexKept' /\ OriginsFound]_allVars

(* A cancellation that the account carried out is on record as accepted, once its *)
(* trade is settled.                                                              *)
CancellationsOnRecord ==
    \A o \in Order :
        /\ order[o] # Absent /\ order[o].cancelledBy # Absent
        /\ trade[order[o].cancelledBy].status = "settled"
        => trade[order[o].cancelledBy].accepted
=============================================================================
