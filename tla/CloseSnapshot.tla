--------------------------- MODULE CloseSnapshot ----------------------------
(* The close snapshot of the quotes service: the refresh of the whole market  *)
(* that the scheduler starts at 15:30 and retries, that a start of the        *)
(* program makes up for, that resumes from the rows already stored, and whose *)
(* fallback goes on in the background. The process may end between two steps. *)
EXTENDS Integers, FiniteSets

CONSTANTS
    Code,          (* the instruments of the universe *)
    Bj,            (* those the main source does not serve *)
    TradeDay,      (* the trade days among 0..LastDay *)
    LastDay,       (* bound: the days that pass; the program is installed on day 1 *)
    MaxRetries,    (* attempts of the retry helper, 6 in the code *)
    MaxFaults      (* bound: failed answers, reads and writes, and crashes *)

ASSUME CodeAssumption ==
    IsFiniteSet(Code) /\ Code # {} /\ Bj \subseteq Code
ASSUME DayAssumption ==
    LastDay \in Nat \ {0} /\ TradeDay \subseteq 0..LastDay /\ 0 \in TradeDay
ASSUME BoundAssumption ==
    MaxRetries \in Nat /\ MaxFaults \in Nat

VARIABLES
    now,        (* the part of a day the clock is in *)
    up,         (* "off", "starting" (the catch-up is to be decided) or "up" *)
    row,        (* quote_close_snapshot: when the quote of a day was captured *)
    recorded,   (* quote_refresh_state of kind close *)
    refresh,    (* refresh_market_quotes(universe, close), by caller *)
    fallback,   (* run_universe_fallback_bg of that refresh *)
    lastClose,  (* last_run_close_for *)
    retry,      (* the retry helper *)
    lost,       (* history: rows whose write failed *)
    faults      (* faults so far *)

store == <<row, recorded, lost>>
tasks == <<refresh, fallback, lastClose, retry>>
vars  == <<now, up, store, tasks, faults>>
-----------------------------------------------------------------------------
Absent == -1
Date   == 0..LastDay

(* A day in five parts: before 09:30, to 15:00, to 15:30, to 16:00, the rest. *)
Part == [night |-> 0, trading |-> 1, tail |-> 2, halfPast |-> 3, evening |-> 4]
Instant   == 5 .. 5 * LastDay + 4
Day(t)    == t \div 5
PartOf(t) == t % 5

(* resolve_market_time_with_calendar *)
LatestCompleted(t) ==
    LET over == {d \in TradeDay : d < Day(t) \/ (d = Day(t) /\ PartOf(t) >= Part.tail)}
    IN  CHOOSE d \in over : \A e \in over : e <= d

(* eligible_trade_date *)
Eligible(t) ==
    IF Day(t) \in TradeDay /\ PartOf(t) = Part.trading THEN Day(t) ELSE LatestCompleted(t)

(* The callers: the daily job, the attempts of its retry helper, the catch-up. *)
DailyJob == 0
Attempt  == 1..MaxRetries
CatchUp  == MaxRetries + 1
Caller   == DailyJob..CatchUp

NoRefresh  == [pc |-> "idle"]
NoFallback == [pc |-> "idle"]
NoRetry    == [date |-> Absent, left |-> 0]

Count == 0..Cardinality(Code)

(* A refresh has counted, queued or still to ask every code of its total. *)
Refresh ==
    {NoRefresh} \cup
    {r \in [pc : {"fetch", "record"}, date : Date, at : Instant, todo : SUBSET Code,
            queue : SUBSET Code, total : Count, success : Count] :
        r.success + Cardinality(r.todo) + Cardinality(r.queue) = r.total}

Fallback ==
    {NoFallback} \cup
    [pc : {"fetch"}, date : Date, at : Instant, queue : SUBSET Code,
     total : Count, success : Count]

(* A fault happens or not, as long as there are any left. *)
Pay(fault) ==
    /\ fault => faults < MaxFaults
    /\ faults' = IF fault THEN faults + 1 ELSE faults
-----------------------------------------------------------------------------
(* list_close_snapshot_ts_codes *)
Stored(d) == {c \in Code : row[d][c] # Absent}

(* Mutant: one success is enough. *)
CompleteOnceStored(d, universe) == recorded[d].success > 0

(* close_snapshot_complete, with the size of the universe it could read *)
CloseComplete(d, universe) ==
    /\ recorded[d].total # Absent
    /\ IF universe = 0
       THEN recorded[d].total > 0 /\ recorded[d].success * 100 >= 95 * recorded[d].total
       ELSE recorded[d].success * 100 >= 95 * universe

(* After an error its size is taken as 0. *)
Readable == {0, Cardinality(Code)}

(* Mutant: a date that has rows is not refreshed again. *)
TargetsOfNewDate(d, read) ==
    IF Stored(d) = {} THEN Code ELSE {}

(* The codes to refresh: the missing ones, all if the rows cannot be read,     *)
(* none if the instruments cannot.                                             *)
Targets(d, read) ==
    CASE read = "both"        -> Code \ Stored(d)
      [] read = "instruments" -> Code
      [] read = "neither"     -> {}

Begin(j, d) ==
    \E read \in {"both", "instruments", "neither"} :
        /\ Pay(read # "both")
        /\ refresh[j] = NoRefresh
        /\ refresh' = [refresh EXCEPT ![j] =
              [pc |-> "fetch", date |-> d, at |-> now,
               todo |-> Targets(d, read) \ Bj, queue |-> Targets(d, read) \cap Bj,
               total |-> Cardinality(Targets(d, read)), success |-> 0]]

(* upsert_close_snapshot: its error is dropped, and the code counted *)
StoreRow(d, c, at, written) ==
    /\ row'  = IF written THEN [row EXCEPT ![d][c] = at] ELSE row
    /\ lost' = IF written THEN lost ELSE lost \cup {<<d, c>>}

(* Mutant: codes without an answer are counted as well. *)
SuccessOfAll(n, answered) == n + 1

Counted(n, answered) == IF answered THEN n + 1 ELSE n

(* An answer of the main source, complete or not, in the order they arrive. *)
Fetch(j) ==
    \E c \in Code, answered, written \in BOOLEAN :
        LET r == refresh[j]
        IN  /\ r.pc = "fetch"
            /\ c \in r.todo
            /\ answered \/ written
            /\ Pay(~ (answered /\ written))
            /\ IF answered THEN StoreRow(r.date, c, r.at, written) ELSE UNCHANGED <<row, lost>>
            /\ refresh' = [refresh EXCEPT
                  ![j].todo    = @ \ {c},
                  ![j].queue   = IF answered THEN @ ELSE @ \cup {c},
                  ![j].success = Counted(@, answered)]
            /\ UNCHANGED <<now, up, recorded, fallback, lastClose, retry>>

(* The fallback is spawned before the refresh records its own result. *)
SpawnFallback(j) ==
    LET r == refresh[j]
    IN  /\ r.pc = "fetch"
        /\ r.todo = {}
        /\ fallback[j] = NoFallback
        /\ fallback' = IF r.queue = {} THEN fallback
                       ELSE [fallback EXCEPT ![j] =
                               [pc |-> "fetch", date |-> r.date, at |-> r.at,
                                queue |-> r.queue, total |-> r.total,
                                success |-> r.success]]
        /\ refresh' = [refresh EXCEPT ![j].pc = "record"]
        /\ UNCHANGED <<now, up, store, lastClose, retry, faults>>

(* record_refresh_state: the row of the date is replaced *)
Recorded(r) == [recorded EXCEPT ![r.date] = [total |-> r.total, success |-> r.success]]

(* The daily job goes on to start its retry helper. *)
Record(j) ==
    LET r == refresh[j]
    IN  /\ r.pc = "record"
        /\ recorded' = Recorded(r)
        /\ refresh' = [refresh EXCEPT ![j] = NoRefresh]
        /\ IF j = DailyJob
           THEN /\ lastClose' = r.date
                /\ retry' = [date |-> r.date, left |-> MaxRetries]
           ELSE UNCHANGED <<lastClose, retry>>
        /\ UNCHANGED <<now, up, row, lost, fallback, faults>>

FallbackAnswer(j) ==
    \E c \in Code, answered, written \in BOOLEAN :
        LET f == fallback[j]
        IN  /\ f.pc = "fetch"
            /\ c \in f.queue
            /\ answered \/ written
            /\ Pay(~ (answered /\ written))
            /\ IF answered THEN StoreRow(f.date, c, f.at, written) ELSE UNCHANGED <<row, lost>>
            /\ fallback' = [fallback EXCEPT
                  ![j].queue   = @ \ {c},
                  ![j].success = Counted(@, answered)]
            /\ UNCHANGED <<now, up, recorded, refresh, lastClose, retry>>

EndFallback(j) ==
    /\ fallback[j].pc = "fetch"
    /\ fallback[j].queue = {}
    /\ recorded' = Recorded(fallback[j])
    /\ fallback' = [fallback EXCEPT ![j] = NoFallback]
    /\ UNCHANGED <<now, up, row, lost, refresh, lastClose, retry, faults>>

Task(j) == Fetch(j) \/ SpawnFallback(j) \/ Record(j) \/ FallbackAnswer(j) \/ EndFallback(j)
-----------------------------------------------------------------------------
(* The daily tick between 15:30 and 16:00. *)
StartDaily ==
    /\ up # "off"
    /\ Day(now) \in TradeDay
    /\ PartOf(now) = Part.halfPast
    /\ lastClose # Day(now)
    /\ Begin(DailyJob, Eligible(now))
    /\ UNCHANGED <<now, up, store, fallback, lastClose, retry>>

(* The retry helper wakes: the snapshot is judged complete, or another attempt *)
(* is made.                                                                    *)
WakeRetry ==
    LET attempt == MaxRetries + 1 - retry.left
    IN  /\ retry.left > 0
        /\ \A a \in Attempt : refresh[a] = NoRefresh
        /\ \E universe \in Readable :
             \/ /\ CloseComplete(retry.date, universe)
                /\ retry' = NoRetry
                /\ UNCHANGED <<refresh, faults>>
             \/ /\ ~ CloseComplete(retry.date, universe)
                /\ Begin(attempt, retry.date)
                /\ retry' = [retry EXCEPT !.left = @ - 1]
        /\ UNCHANGED <<now, up, store, fallback, lastClose>>

(* The last step of the startup task. *)
DecideCatchUp ==
    /\ up = "starting"
    /\ up' = "up"
    /\ \E universe \in Readable :
         \/ /\ CloseComplete(LatestCompleted(now), universe)
            /\ UNCHANGED <<refresh, faults>>
         \/ /\ ~ CloseComplete(LatestCompleted(now), universe)
            /\ Begin(CatchUp, LatestCompleted(now))
    /\ UNCHANGED <<now, store, fallback, lastClose, retry>>

Start ==
    /\ up = "off"
    /\ up' = "starting"
    /\ UNCHANGED <<now, store, tasks, faults>>

Crash ==
    /\ up # "off"
    /\ Pay(TRUE)
    /\ up' = "off"
    /\ refresh' = [j \in Caller |-> NoRefresh]
    /\ fallback' = [j \in Caller |-> NoFallback]
    /\ lastClose' = Absent
    /\ retry' = NoRetry
    /\ UNCHANGED <<now, store>>

(* The evening is long enough for the refreshes and the retries of its day. *)
Quiet ==
    /\ retry.left = 0
    /\ \A j \in Caller : refresh[j] = NoRefresh /\ fallback[j] = NoFallback

Tick ==
    /\ now + 1 \in Instant
    /\ PartOf(now) = Part.evening => Quiet
    /\ now' = now + 1
    /\ UNCHANGED <<up, store, tasks, faults>>
-----------------------------------------------------------------------------
Init ==
    /\ now = 5
    /\ up = "off"
    /\ row = [d \in Date |-> [c \in Code |-> Absent]]
    /\ recorded = [d \in Date |-> [total |-> Absent, success |-> 0]]
    /\ refresh = [j \in Caller |-> NoRefresh]
    /\ fallback = [j \in Caller |-> NoFallback]
    /\ lastClose = Absent
    /\ retry = NoRetry
    /\ lost = {}
    /\ faults = 0

Next ==
    \/ \E j \in Caller : Task(j)
    \/ StartDaily
    \/ WakeRetry
    \/ DecideCatchUp
    \/ Start
    \/ Crash
    \/ Tick

Spec == Init /\ [][Next]_vars

(* Requests end by their timeouts, and a sleeping task wakes. *)
FairSpec == Spec /\ WF_vars(WakeRetry) /\ \A j \in Caller : WF_vars(Task(j))
-----------------------------------------------------------------------------
(* The tables and the tasks hold values of their types; a refresh accounts for every *)
(* code of its total.                                                              *)
TypeOK ==
    /\ now \in Instant
    /\ up \in {"off", "starting", "up"}
    /\ row \in [Date -> [Code -> Instant \cup {Absent}]]
    /\ recorded \in [Date -> [total : Count \cup {Absent}, success : Count]]
    /\ refresh \in [Caller -> Refresh]
    /\ fallback \in [Caller -> Fallback]
    /\ lastClose \in Date \cup {Absent}
    /\ retry \in [date : Date \cup {Absent}, left : 0..MaxRetries]
    /\ lost \subseteq Date \X Code
    /\ faults \in 0..MaxFaults

Missing(d) == {c \in Code : row[d][c] = Absent /\ <<d, c>> \notin lost}

(* 95 percent of the universe is enough *)
Few == {s \in SUBSET Code : 100 * Cardinality(s) <= 5 * Cardinality(Code)}

Covered(d) == Missing(d) \in Few

(* The record says complete only of a snapshot whose rows are there, whichever *)
(* refresh recorded last, resumed or not: only a write that failed can be       *)
(* missing. The retries and the catch-up stop at this record.                  *)
CompleteMeansRows ==
    \A d \in Date : CloseComplete(d, Cardinality(Code)) => Covered(d)

UnderWay(d) == refresh[DailyJob] # NoRefresh /\ refresh[DailyJob].date = d

(* A day whose close refresh has begun gets its rows while the program runs,   *)
(* as long as no more things fail than there are retries: by the daily job, its *)
(* fallback or one of the retries.                                             *)
EveningCovered ==
    \A d \in Date : UnderWay(d) ~> (up = "off" \/ Covered(d))

(* A row of a trade day holds the last quotes of that day: it was captured     *)
(* between its close and the opening of a later day.                           *)
CloseRowsFinal ==
    \A d \in Date, c \in Code : row[d][c] # Absent =>
        /\ row[d][c] >= 5 * d + Part.tail
        /\ \A e \in TradeDay : e > d => row[d][c] < 5 * e + Part.trading
=============================================================================
