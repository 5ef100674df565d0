---------------------------- MODULE TriggerScan ----------------------------
(***************************************************************************)
(* The evaluation tick of the account, page by page, beside the commands   *)
(* that set and watch protections.  A tick reads the active orders and the *)
(* protected positions once per page and works on these copies; the        *)
(* commands, under a lock the tick does not take, change the rows between  *)
(* its steps.                                                              *)
(*                                                                         *)
(* The sort key (updated_at, order_id) is the place in `book`: an update   *)
(* moves an order to its end.  Left out: money (see Account), what the     *)
(* sink does with a trigger (see TriggerDelivery), a placement whose clock *)
(* is older than the page's, and a day that ends within a page.            *)
(***************************************************************************)
EXTENDS Naturals, Sequences, FiniteSets, SequencesExt

CONSTANTS
    Order,          \* ids of limit orders, all placed at the start
    Positions,      \* how many positions there are, named by their opening
    OpenAtStart,    \* the first of them are open at the start
    Expires,        \* the day each order expires
    Quantity,       \* what each order asks for
    Condition,      \* what a protection may say
    Price,          \* prices of the quotes
    Signal,         \* what an agent may report
    BatchSize,      \* account_trigger_eval_batch_size
    DrainBatches,   \* MAX_EVAL_DRAIN_BATCHES
    MaxMoves,       \* bound: commands and changes of a quote
    MaxDay,         \* bound: trade dates
    MaxFaults       \* bound: failed reads and transactions

NoPrice == 0
NoDay == 0
NoProtection == [revision |-> 0]
Position == 1..Positions

ASSUME ScanAssumption ==
    /\ Positions \in Nat
    /\ OpenAtStart \in 0..Positions
    /\ Price \subseteq Nat \ {NoPrice}
    /\ {BatchSize, DrainBatches, MaxDay} \subseteq Nat \ {0}
    /\ {MaxMoves, MaxFaults} \subseteq Nat
    /\ IsFiniteSet(Order)
    /\ Quantity \in [Order -> Nat \ {0}]
    /\ Order \cap Position = {}
    /\ Condition \subseteq [stop : Price \cup {NoPrice}, take : Price \cup {NoPrice},
                            time : Nat, signals : SUBSET Signal]

VARIABLES
    today,      \* the trade date
    left,       \* what each order still has to fill, 0 when it has ended
    book,       \* active orders by (updated_at, order_id)
    status,     \* of the positions: "none", "open" or "closed"
    protection, \* account_protections
    quote,      \* the price to display, by position
    opening,    \* the condition an open_position under way still has to write
    raised,     \* account_triggers: the keys behind their ids
    phase,      \* "idle", or where the tick is
    todo,       \* copies of the rows a page has read and not looked at yet
    processed,  \* rows of this page
    batches,    \* pages of this tick
    passed,     \* rows at or before the anchor of the cursor
    moves,      \* commands and changes of a quote so far
    faults,
    outcome,    \* history: how the last tick ended
    steady,     \* history: rows active and unchanged since this tick began
    visited,    \* history: rows this tick has evaluated
    misread     \* history: a read of this tick failed

rows == <<today, left, book, status, protection, opening,
          quote, raised>>
tick == <<phase, todo, processed, batches, passed>>
history == <<outcome, steady, visited, misread>>
vars == <<rows, tick, moves, faults, history>>
-----------------------------------------------------------------------------
(* Protections and the triggers they raise. *)

IsEmpty(c) == c.stop = NoPrice /\ c.take = NoPrice /\ c.time = NoDay /\ c.signals = {}

(* handle_adjust_protection and initial protection on open: long positions only. *)
AcceptsReference(c, price) ==
    /\ c.stop # NoPrice => c.stop < price
    /\ c.take # NoPrice => c.take > price

(* create_protection_trigger: a price condition raises once a day, a time stop once. *)
PriceKey(type, p, pr, threshold, day) ==
    [type |-> type, position |-> p, revision |-> pr.revision, at |-> threshold, day |-> day]

TimeKey(p, pr) ==
    [type |-> "time_stop", position |-> p, revision |-> pr.revision, at |-> pr.is.time,
     day |-> NoDay]

SignalKey(p, pr, s) ==
    [type |-> "invalidated", position |-> p, revision |-> pr.revision, at |-> s,
     day |-> NoDay]

StopHit(c, price) == c.stop # NoPrice /\ price # NoPrice /\ price <= c.stop

TakeHit(c, price) == c.take # NoPrice /\ price # NoPrice /\ price >= c.take

TimeHit(c, day) == c.time # NoDay /\ day >= c.time

(* evaluate_protection: the keys of the conditions that hold.  The time stop needs *)
(* no quote.                                                                       *)
Hits(p, pr, price, day) ==
    LET time == TimeKey(p, pr)
        stop == PriceKey("stop_loss", p, pr, pr.is.stop, day)
        take == PriceKey("take_profit", p, pr, pr.is.take, day)
    IN  {k \in {time, stop, take} :
           \/ k = time /\ TimeHit(pr.is, day)
           \/ k = stop /\ StopHit(pr.is, price)
           \/ k = take /\ TakeHit(pr.is, price)}

(* Mutant: only the first protection of a position gets a revision. *)
FirstRevision(pr) == IF pr = NoProtection THEN 1 ELSE pr.revision

NextRevision(pr) == pr.revision + 1

Protected == {p \in Position : /\ status[p] = "open"
                               /\ protection[p] # NoProtection
                               /\ protection[p].enabled}
-----------------------------------------------------------------------------
(* Commands: one at a time, under write_lock. *)

(* The active orders once o has left its place among them. *)
Without(list, o) ==
    IF o \in Range(list)
    THEN RemoveAt(list, CHOOSE i \in DOMAIN list : list[i] = o)
    ELSE list

(* No other command is under way. *)
Command ==
    /\ opening = <<>>
    /\ moves < MaxMoves
    /\ moves' = moves + 1

CancelOrder(o) ==
    /\ Command
    /\ left[o] > 0
    /\ left' = [left EXCEPT ![o] = 0]
    /\ book' = Without(book, o)
    /\ steady' = steady \ {o}
    /\ UNCHANGED <<today, status, protection, opening, quote, raised, tick, faults,
                   outcome, visited, misread>>

(* handle_open_position at the market.  Its protection is checked before the order *)
(* is placed and written in a transaction after it.                                *)
OpenPosition(p) ==
    /\ Command
    /\ status[p] = "none"
    /\ \A q \in 1..(p - 1) : status[q] # "none"
    /\ status' = [status EXCEPT ![p] = "open"]
    /\ \/ UNCHANGED opening
       \/ \E c \in Condition :
            /\ c.signals = {}
            /\ ~ IsEmpty(c)
            /\ c.stop # NoPrice \/ c.take # NoPrice =>
                 quote[p] # NoPrice /\ AcceptsReference(c, quote[p])
            /\ opening' = <<p, c>>
    /\ UNCHANGED <<today, left, book, protection, quote, raised, tick, faults, history>>

(* apply_initial_protection, whose error is dropped. *)
ApplyInitialProtection ==
    /\ opening # <<>>
    /\ opening' = <<>>
    /\ \/ /\ protection' = [protection EXCEPT ![opening[1]] =
                              [revision |-> 1, is |-> opening[2], enabled |-> TRUE]]
          /\ UNCHANGED faults
       \/ /\ faults < MaxFaults
          /\ faults' = faults + 1
          /\ UNCHANGED protection
    /\ UNCHANGED <<moves, today, left, book, status, quote, raised, tick, history>>

(* handle_adjust_protection *)
AdjustProtection(p, c, enabled) ==
    /\ Command
    /\ status[p] = "open"
    /\ protection[p] = NoProtection => ~ IsEmpty(c)
    /\ protection[p] # NoProtection => <<c, enabled>> # <<protection[p].is, protection[p].enabled>>
    /\ c.stop # NoPrice \/ c.take # NoPrice =>
         quote[p] # NoPrice /\ AcceptsReference(c, quote[p])
    /\ protection' = [protection EXCEPT ![p] =
                        [revision |-> NextRevision(@), is |-> c, enabled |-> enabled]]
    /\ steady' = steady \ {p}
    /\ UNCHANGED <<today, left, book, status, opening, quote, raised, tick, faults,
                   outcome, visited, misread>>

(* handle_record_invalidation_signal: exact match with an enabled protection. *)
RecordSignal(p, s) ==
    /\ Command
    /\ p \in Protected
    /\ s \in protection[p].is.signals
    /\ raised' = raised \cup {SignalKey(p, protection[p], s)}
    /\ UNCHANGED <<today, left, book, status, protection, opening, quote, tick, faults,
                   history>>

(* The last sale of a position, by a command. *)
ClosePosition(p) ==
    /\ Command
    /\ status[p] = "open"
    /\ status' = [status EXCEPT ![p] = "closed"]
    /\ steady' = steady \ {p}
    /\ UNCHANGED <<today, left, book, protection, opening, quote, raised, tick, faults,
                   outcome, visited, misread>>
-----------------------------------------------------------------------------
(* The market. *)

QuoteChanges(p) ==
    /\ moves < MaxMoves
    /\ moves' = moves + 1
    /\ quote' \in {[quote EXCEPT ![p] = price] : price \in Price \cup {NoPrice}}
    /\ UNCHANGED <<today, left, book, status, protection, opening, raised, tick, faults,
                   history>>

NextDay ==
    /\ today < MaxDay
    /\ phase \in {"idle", "page"}
    /\ today' = today + 1
    /\ UNCHANGED <<moves, left, book, status, protection, opening, quote, raised, tick, faults,
                   history>>
-----------------------------------------------------------------------------
(* The tick. *)

(* run_account_eval_tick.  Codes to refresh there always are: the indexes. *)
StartTick ==
    /\ phase = "idle"
    /\ phase' = "page"
    /\ outcome' = "running"
    /\ steady' = Range(book) \cup Protected
    /\ UNCHANGED <<moves, rows, todo, processed, batches, passed, faults, visited, misread>>

EndTick ==
    /\ phase' = "idle"
    /\ batches' = 0
    /\ passed' = {}
    /\ steady' = {}
    /\ visited' = {}
    /\ misread' = FALSE

(* A failed rebuild ends the tick before its first page. *)
RebuildFails ==
    /\ phase = "page"
    /\ batches = 0
    /\ faults < MaxFaults
    /\ faults' = faults + 1
    /\ outcome' = "failed"
    /\ EndTick
    /\ UNCHANGED <<moves, rows, todo, processed>>

(* An error of the read counts as an empty list. *)
Read(copies) ==
    \/ todo' = copies /\ UNCHANGED <<faults, misread>>
    \/ /\ faults < MaxFaults
       /\ faults' = faults + 1
       /\ todo' = {}
       /\ misread' = TRUE

(* Active orders past the anchor, each copied with its place in the list. *)
OrderCopies ==
    {[row |-> book[i], at |-> i, left |-> left[book[i]]] :
        i \in {j \in DOMAIN book : book[j] \notin passed}}

ProtectionCopies(S) == {[row |-> p, at |-> p, is |-> protection[p]] : p \in S}

(* Mutant: the anchor of an order holds back positions too. *)
NoPositionsAfterOrders ==
    ProtectionCopies({p \in Protected : \A q \in passed : q \in Position /\ q < p})

(* list_open_positions_with_protection, past the anchor. *)
PositionCopies ==
    ProtectionCopies({p \in Protected : \A q \in passed \cap Position : q < p})

(* The rows of a page are looked at in the order of their sort key. *)
First == CHOOSE c \in todo : \A d \in todo : c.at <= d.at

StartPage ==
    /\ phase = "page"
    /\ IF passed \cap Position = {}
       THEN phase' = "orders" /\ Read(OrderCopies)
       ELSE phase' = "positions" /\ Read(PositionCopies)
    /\ UNCHANGED <<moves, rows, processed, batches, passed, outcome, steady, visited>>

Visit(o) ==
    /\ todo' = todo \ {First}
    /\ processed' = processed + 1
    /\ visited' = visited \cup {o}
    /\ UNCHANGED <<moves, today, status, protection, opening, quote, phase, batches, outcome,
                   steady, misread>>

(* Mutant: an order that has ended stays among the active ones. *)
CommitAsActive(o, rest) ==
    /\ left' = [left EXCEPT ![o] = rest]
    /\ book' = Append(Without(book, o), o)
    /\ passed' = IF rest = 0 THEN passed \cup {o} ELSE passed \ {o}
    /\ UNCHANGED <<raised, faults>>

(* Mutant: the anchor is the key of the row as the fill has left it. *)
CommitWithNewAnchor(o, rest) ==
    /\ left' = [left EXCEPT ![o] = rest]
    /\ book' = IF rest = 0 THEN Without(book, o) ELSE Append(Without(book, o), o)
    /\ passed' = IF rest = 0 THEN passed \cup {o} ELSE passed \cup Range(book)
    /\ UNCHANGED <<raised, faults>>

(* The end of an order, or the new rest after a fill, from the copy.  The anchor is *)
(* the key the copy was read with.                                                  *)
CommitOrder(o, rest) ==
    /\ left' = [left EXCEPT ![o] = rest]
    /\ book' = IF rest = 0 THEN Without(book, o) ELSE Append(Without(book, o), o)
    /\ passed' = IF rest = 0 THEN passed \cup {o} ELSE passed \ {o}
    /\ UNCHANGED <<raised, faults>>

VisitOrder ==
    /\ phase = "orders"
    /\ todo # {}
    /\ processed < BatchSize
    /\ LET o == First.row
           rest == First.left
       IN  /\ Visit(o)
           /\ \/ /\ today >= Expires[o]
                 /\ CommitOrder(o, 0)
              \/ /\ today < Expires[o]
                 /\ \E filled \in 1..rest : CommitOrder(o, rest - filled)
              \/ /\ today < Expires[o]      \* not eligible, or no quote
                 /\ passed' = passed \cup {o}
                 /\ UNCHANGED <<left, book, raised, faults>>
              \/ /\ faults < MaxFaults
                 /\ faults' = faults + 1
                 /\ passed' = passed \cup {o}
                 /\ UNCHANGED <<left, book, raised>>

OrdersDone ==
    /\ phase = "orders"
    /\ todo = {}
    /\ phase' = "positions"
    /\ Read(PositionCopies)
    /\ UNCHANGED <<moves, rows, processed, batches, passed, outcome, steady, visited>>

VisitPosition ==
    /\ phase = "positions"
    /\ todo # {}
    /\ processed < BatchSize
    /\ LET p == First.row
           hits == Hits(p, First.is, quote[p], today)
       IN  /\ Visit(p)
           /\ passed' = passed \cup {p}
           /\ \/ /\ raised' = raised \cup hits
                 /\ UNCHANGED faults
              \/ /\ hits \ raised # {}
                 /\ faults < MaxFaults
                 /\ faults' = faults + 1
                 /\ UNCHANGED raised
    /\ UNCHANGED <<left, book>>

HasMore == todo # {} /\ processed = BatchSize

EndPage ==
    /\ phase \in {"orders", "positions"}
    /\ \/ HasMore
       \/ phase = "positions" /\ todo = {}
    /\ todo' = {}
    /\ processed' = 0
    /\ IF HasMore /\ batches + 1 < DrainBatches
       THEN /\ phase' = "page"
            /\ batches' = batches + 1
            /\ UNCHANGED <<passed, history>>
       ELSE /\ outcome' = IF HasMore THEN "exhausted" ELSE "drained"
            /\ EndTick
    /\ UNCHANGED <<moves, rows, faults>>
-----------------------------------------------------------------------------
Init ==
    /\ today = 1
    /\ left = Quantity
    /\ book \in SetToSeqs(Order)
    /\ status = [p \in Position |-> IF p <= OpenAtStart THEN "open" ELSE "none"]
    /\ protection = [p \in Position |-> NoProtection]
    /\ opening = <<>>
    /\ quote \in {[p \in Position |-> price] : price \in Price \cup {NoPrice}}
    /\ raised = {}
    /\ phase = "idle"
    /\ todo = {}
    /\ processed = 0
    /\ batches = 0
    /\ passed = {}
    /\ moves = 0
    /\ faults = 0
    /\ outcome = "none"
    /\ steady = {}
    /\ visited = {}
    /\ misread = FALSE

Page == StartPage \/ VisitOrder \/ OrdersDone \/ VisitPosition \/ EndPage

Next ==
    \/ \E o \in Order : CancelOrder(o)
    \/ \E p \in Position :
         \/ OpenPosition(p)
         \/ ClosePosition(p)
         \/ QuoteChanges(p)
         \/ \E c \in Condition, enabled \in BOOLEAN : AdjustProtection(p, c, enabled)
         \/ \E s \in Signal : RecordSignal(p, s)
    \/ ApplyInitialProtection
    \/ NextDay
    \/ StartTick
    \/ RebuildFails
    \/ Page

Spec == Init /\ [][Next]_vars

(* One task runs the ticks, one after the other, every ten seconds. *)
FairSpec == Spec /\ WF_vars(StartTick) /\ WF_vars(Page)
-----------------------------------------------------------------------------
Protection == [revision : 1..MaxMoves, is : Condition, enabled : BOOLEAN]

(* The rows and the state of the tick hold values of their types, and the list of *)
(* active orders holds each order that still has something to fill once.          *)
TypeOK ==
    /\ today \in 1..MaxDay
    /\ DOMAIN left = Order /\ \A o \in Order : left[o] \in 0..Quantity[o]
    /\ book \in Seq(Order) /\ IsInjective(book)
    /\ Range(book) = {o \in Order : left[o] > 0}
    /\ status \in [Position -> {"none", "open", "closed"}]
    /\ protection \in [Position -> {NoProtection} \cup Protection]
    /\ quote \in [Position -> Price \cup {NoPrice}]
    /\ opening \in {<<>>} \cup (Position \X Condition)
    /\ phase \in {"idle", "page", "orders", "positions"}
    /\ phase \in {"idle", "page"} => todo = {}
    /\ phase = "orders" => \A c \in todo : c.row \in Order /\ c.left \in 1..Quantity[c.row]
    /\ phase = "positions" => todo \subseteq [row : Position, at : Position, is : Protection]
    /\ processed \in 0..BatchSize
    /\ batches \in 0..DrainBatches
    /\ passed \cup steady \cup visited \subseteq Order \cup Position
    /\ moves \in 0..MaxMoves
    /\ faults \in 0..MaxFaults

(* A tick that says it is through has evaluated every order and protected position *)
(* that was there from its start to its end: no page border, and no order that a   *)
(* fill moved, makes the cursor pass one over.                                     *)
DrainedVisitsAll ==
    [][outcome = "running" /\ outcome' = "drained" /\ ~ misread
         => steady \subseteq visited]_vars

(* A protection that is set anew has a revision under which nothing was raised yet: *)
(* else the id of an earlier trigger would keep the new condition silent.           *)
FreshRevision ==
    [][\A p \in Position : protection'[p] # protection[p] =>
         \A k \in raised' : k.position = p => k.revision < protection'[p].revision]_vars

Due(p) == IF p \in Protected THEN Hits(p, protection[p], quote[p], today) ELSE {}

(* While ticks get through, no condition that holds stays without its trigger, on *)
(* whatever page the position is and whatever is changed during the tick.         *)
AlarmsRaised ==
    []<>(outcome = "drained") => \A p \in Position : []<>(Due(p) \subseteq raised)
=============================================================================
