------------------------ MODULE CloseSnapshotProofs -------------------------
(***************************************************************************)
(* Theorems about CloseSnapshot: the types of its tables and callers, and  *)
(* that a record that says complete is of a snapshot whose rows are there. *)
(***************************************************************************)
EXTENDS CloseSnapshot, FiniteSetTheorems, WellFoundedInduction, TLAPS

(* A helper that has attempts left knows the day they are for. *)
RetryTyped ==
    /\ retry \in [date : Date \cup {Absent}, left : 0..MaxRetries]
    /\ retry.left > 0 => retry.date \in Date

SnapshotTyped ==
    /\ now \in Instant
    /\ row \in [Date -> [Code -> Instant \cup {Absent}]]
    /\ recorded \in [Date -> [total : Int, success : Nat]]
    /\ refresh \in [Caller -> {NoRefresh} \cup
          [pc : {"fetch", "record"}, date : Date, at : Instant, todo : SUBSET Code,
           queue : SUBSET Code, total : Int, success : Nat]]
    /\ fallback \in [Caller -> {NoFallback} \cup
          [pc : {"fetch"}, date : Date, at : Instant, queue : SUBSET Code,
           total : Int, success : Nat]]
    /\ RetryTyped

(* The codes a success can have been counted for *)
Accounted(rows, losses, d) == {c \in Code : rows[d][c] # Absent \/ <<d, c>> \in losses}

(* n successes, counted for codes of the day other than those still open *)
CountedFor(n, d, open) == n <= Cardinality(Accounted(row, lost, d) \ open)

(* A refresh counts a code once: it is not both queued and to be asked. *)
RefreshSound ==
    \A j \in Caller : refresh[j] # NoRefresh =>
        /\ refresh[j].todo \cap refresh[j].queue = {}
        /\ CountedFor(refresh[j].success, refresh[j].date, refresh[j].todo \cup refresh[j].queue)

FallbackSound ==
    \A j \in Caller : fallback[j] # NoFallback =>
        CountedFor(fallback[j].success, fallback[j].date, fallback[j].queue)

RecordSound == \A d \in Date : CountedFor(recorded[d].success, d, {})

SnapshotInv == SnapshotTyped /\ RefreshSound /\ FallbackSound /\ RecordSound

(* Rows are only added. *)
Grows == \A d \in Date : Accounted(row, lost, d) \subseteq Accounted(row', lost', d)

(* CountedFor after the step, of what was there before it *)
StillCounted(n, d, open) == n <= Cardinality(Accounted(row', lost', d) \ open)
-----------------------------------------------------------------------------
(* The days *)

LEMMA Least ==
    ASSUME NEW T \in SUBSET Nat, T # {}
    PROVE  \E k \in T : \A m \in T : k <= m
<1> DEFINE R == {ss \in Nat \X Nat : ss[1] < ss[2]}
<1>1. IsWellFoundedOn(R, Nat) BY NatLessThanWellFounded DEF OpToRel
<1>2. PICK k \in T : \A m \in T : <<m, k>> \notin R
  <2> HIDE DEF R
  <2> QED BY <1>1, WFMin
<1>3. ASSUME NEW m \in T PROVE k <= m
  <2>1. <<m, k>> \in Nat \X Nat /\ <<m, k>>[1] = m /\ <<m, k>>[2] = k OBVIOUS
  <2>2. ~ (m < k) BY <1>2, <2>1
  <2> QED BY <2>2
<1> QED BY <1>3

LEMMA Latest ==
    ASSUME NEW n \in Nat, NEW S \in SUBSET (0..n), S # {}
    PROVE  \E d \in S : \A e \in S : e <= d
<1> DEFINE T == {n - d : d \in S}
<1>1. T \in SUBSET Nat /\ T # {}
  <2>1. \A d \in S : d \in Int /\ n - d \in Nat OBVIOUS
  <2> QED BY <2>1
<1>2. PICK k \in T : \A m \in T : k <= m BY <1>1, Least
<1>3. PICK d \in S : k = n - d BY <1>2
<1>4. ASSUME NEW e \in S PROVE e <= d
  <2>1. n - e \in T OBVIOUS
  <2>2. n - d <= n - e BY <1>2, <1>3, <2>1
  <2>3. d \in Int /\ e \in Int OBVIOUS
  <2> QED BY <2>2, <2>3
<1> QED BY <1>4

(* A trade day has been completed before any instant: day 0 was, at the installation. *)
LEMMA LatestIsDate == \A t \in Instant : LatestCompleted(t) \in Date
<1> SUFFICES ASSUME NEW t \in Instant PROVE LatestCompleted(t) \in Date OBVIOUS
<1> DEFINE over == {d \in TradeDay : d < Day(t) \/ (d = Day(t) /\ PartOf(t) >= Part.tail)}
<1>1. 0 < Day(t) BY DayAssumption DEF Instant, Day
<1>2. over \in SUBSET (0..LastDay) /\ over # {} BY <1>1, DayAssumption
<1>3. LastDay \in Nat BY DayAssumption
<1>4. LatestCompleted(t) = CHOOSE d \in over : \A e \in over : e <= d BY DEF LatestCompleted
<1> HIDE DEF over
<1>5. \E d \in over : \A e \in over : e <= d BY <1>2, <1>3, Latest
<1>6. LatestCompleted(t) \in over BY <1>4, <1>5
<1> QED BY <1>2, <1>6 DEF Date
-----------------------------------------------------------------------------
(* Counting *)

LEMMA CountGrows ==
    ASSUME NEW A, NEW B, A \subseteq B, B \subseteq Code
    PROVE  Cardinality(A) \in Nat /\ Cardinality(B) \in Nat /\ Cardinality(A) <= Cardinality(B)
<1>1. IsFiniteSet(B) BY FS_Subset, CodeAssumption
<1>2. IsFiniteSet(A) /\ Cardinality(A) <= Cardinality(B) BY <1>1, FS_Subset
<1> QED BY <1>1, <1>2, FS_CardinalityType

LEMMA CountAdds ==
    ASSUME NEW A, NEW B, NEW c, c \notin A, A \cup {c} \subseteq B, B \subseteq Code
    PROVE  Cardinality(A) + 1 <= Cardinality(B)
<1>1. IsFiniteSet(A) BY FS_Subset, CodeAssumption
<1>2. Cardinality(A \cup {c}) = Cardinality(A) + 1 BY <1>1, FS_AddElement
<1> QED BY <1>2, CountGrows

(* What was counted stays counted while rows are only added and codes only closed. *)
LEMMA CountKept ==
    ASSUME NEW n \in Nat, NEW A, NEW B, A \subseteq B, B \subseteq Code,
           NEW open, NEW later, later \subseteq open, n <= Cardinality(A \ open)
    PROVE  n <= Cardinality(B \ later)
<1>1. A \ open \subseteq B \ later /\ B \ later \subseteq Code OBVIOUS
<1> QED BY <1>1, CountGrows

(* One more is counted for a code that was open and has its row. *)
LEMMA CountRises ==
    ASSUME NEW n \in Nat, NEW A, NEW B, A \subseteq B, B \subseteq Code,
           NEW open, NEW c \in open \cap B, NEW later, later \subseteq open \ {c},
           n <= Cardinality(A \ open)
    PROVE  n + 1 <= Cardinality(B \ later)
<1> DEFINE C == A \ open
           D == B \ later
<1>1. c \notin C /\ C \cup {c} \subseteq D /\ D \subseteq Code OBVIOUS
<1>2. Cardinality(C) + 1 <= Cardinality(D) BY <1>1, CountAdds
<1>3. Cardinality(C) \in Nat /\ Cardinality(D) \in Nat BY <1>1, CountGrows
<1>4. n <= Cardinality(C) OBVIOUS
<1> HIDE DEF C, D
<1>5. n + 1 <= Cardinality(D) BY <1>2, <1>3, <1>4
<1> QED BY <1>5 DEF D

(* A row that is written, or whose write failed, accounts for its code. *)
LEMMA StoreAccounts ==
    ASSUME SnapshotTyped, NEW d0 \in Date, NEW c \in Code, NEW at \in Instant,
           NEW written \in BOOLEAN, StoreRow(d0, c, at, written)
    PROVE  /\ row' \in [Date -> [Code -> Instant \cup {Absent}]]
           /\ Grows
           /\ c \in Accounted(row', lost', d0)
<1>1. at # Absent BY DayAssumption DEF Instant, Absent
<1>2. row' = IF written THEN [row EXCEPT ![d0][c] = at] ELSE row BY DEF StoreRow
<1>3. row \in [Date -> [Code -> Instant \cup {Absent}]] BY DEF SnapshotTyped
<1>4. row' \in [Date -> [Code -> Instant \cup {Absent}]] BY <1>2, <1>3
<1>5. \A d \in Date, k \in Code : row[d][k] # Absent => row'[d][k] # Absent
  BY <1>1, <1>2, <1>3
<1>6. lost \subseteq lost' /\ (~ written => <<d0, c>> \in lost') BY DEF StoreRow
<1>7. written => row'[d0][c] = at BY <1>2, <1>3
<1> QED BY <1>1, <1>4, <1>5, <1>6, <1>7 DEF Accounted, Grows

(* Every count that a step leaves alone stays sound. *)
LEMMA CountsKept ==
    ASSUME SnapshotInv, Grows
    PROVE  /\ \A j \in Caller : refresh[j] # NoRefresh =>
                 StillCounted(refresh[j].success, refresh[j].date,
                              refresh[j].todo \cup refresh[j].queue)
           /\ \A j \in Caller : fallback[j] # NoFallback =>
                 StillCounted(fallback[j].success, fallback[j].date, fallback[j].queue)
           /\ \A d \in Date : StillCounted(recorded[d].success, d, {})
<1>0. SnapshotTyped /\ RefreshSound /\ FallbackSound /\ RecordSound BY DEF SnapshotInv
<1>1. ASSUME NEW n \in Nat, NEW d \in Date, NEW open, CountedFor(n, d, open)
      PROVE  StillCounted(n, d, open)
  <2> DEFINE A == Accounted(row, lost, d)
             B == Accounted(row', lost', d)
  <2>1. A \subseteq B /\ B \subseteq Code BY DEF Accounted, Grows
  <2>2. n <= Cardinality(A \ open) BY <1>1 DEF CountedFor
  <2> HIDE DEF A, B
  <2>3. n <= Cardinality(B \ open) BY <2>1, <2>2, CountKept
  <2> QED BY <2>3 DEF B, StillCounted
<1>2. ASSUME NEW j \in Caller, refresh[j] # NoRefresh
      PROVE  refresh[j].success \in Nat /\ refresh[j].date \in Date
  BY <1>0, <1>2 DEF SnapshotTyped
<1>3. ASSUME NEW j \in Caller, fallback[j] # NoFallback
      PROVE  fallback[j].success \in Nat /\ fallback[j].date \in Date
  BY <1>0, <1>3 DEF SnapshotTyped
<1>4. \A d \in Date : recorded[d].success \in Nat BY <1>0 DEF SnapshotTyped
<1> QED BY <1>0, <1>1, <1>2, <1>3, <1>4 DEF RefreshSound, FallbackSound, RecordSound
-----------------------------------------------------------------------------
(* The steps *)

LEMMA InitSnapshot == Init => SnapshotInv
<1> SUFFICES ASSUME Init PROVE SnapshotInv OBVIOUS
<1>1. SnapshotTyped
  <2>1. now \in Instant BY DayAssumption DEF Init, Instant
  <2>2. RetryTyped
    BY BoundAssumption DEF Init, NoRetry, RetryTyped
  <2>3. Absent \in Int BY DEF Absent
  <2> QED BY <2>1, <2>2, <2>3 DEF Init, SnapshotTyped
<1>2. RefreshSound /\ FallbackSound BY DEF Init, RefreshSound, FallbackSound
<1>3. RecordSound
  <2> SUFFICES ASSUME NEW d \in Date PROVE 0 <= Cardinality(Accounted(row, lost, d) \ {})
    BY DEF RecordSound, CountedFor, Init
  <2>1. Accounted(row, lost, d) \ {} \subseteq Code BY DEF Accounted
  <2>2. Cardinality(Accounted(row, lost, d) \ {}) \in Nat BY <2>1, CountGrows
  <2> QED BY <2>2
<1> QED BY <1>1, <1>2, <1>3 DEF SnapshotInv

(* A refresh begins with nothing counted and every code in one of its two lists. *)
LEMMA BeginKeeps ==
    ASSUME SnapshotInv, NEW j \in Caller, NEW d \in Date, Begin(j, d),
           UNCHANGED <<now, row, recorded, lost, fallback>>,
           RetryTyped'
    PROVE  SnapshotInv'
<1>0. SnapshotTyped /\ RefreshSound /\ FallbackSound /\ RecordSound BY DEF SnapshotInv
<1>1. PICK T \in SUBSET Code : refresh' = [refresh EXCEPT ![j] =
              [pc |-> "fetch", date |-> d, at |-> now, todo |-> T \ Bj, queue |-> T \cap Bj,
               total |-> Cardinality(T), success |-> 0]]
  BY DEF Begin, Targets, Stored
<1>2. Cardinality(T) \in Nat BY CountGrows
<1>3. SnapshotTyped' BY <1>0, <1>1, <1>2 DEF SnapshotTyped
<1>4. RefreshSound'
  <2> SUFFICES ASSUME NEW i \in Caller, refresh'[i] # NoRefresh
               PROVE  /\ refresh'[i].todo \cap refresh'[i].queue = {}
                      /\ CountedFor(refresh[i].success, refresh[i].date,
                                    refresh[i].todo \cup refresh[i].queue)'
    BY DEF RefreshSound
  <2>1. CASE i = j
    <3>1. refresh'[i] = [pc |-> "fetch", date |-> d, at |-> now, todo |-> T \ Bj,
                         queue |-> T \cap Bj, total |-> Cardinality(T), success |-> 0]
      BY <1>0, <1>1, <2>1 DEF SnapshotTyped
    <3> DEFINE S == Accounted(row', lost', d) \ ((T \ Bj) \cup (T \cap Bj))
    <3>2. S \subseteq Code BY DEF Accounted
    <3>3. Cardinality(S) \in Nat BY <3>2, CountGrows
    <3>4. 0 <= Cardinality(S) BY <3>3
    <3> QED BY <3>1, <3>4 DEF CountedFor
  <2>2. CASE i # j
    <3>1. refresh'[i] = refresh[i] BY <1>0, <1>1, <2>2 DEF SnapshotTyped
    <3> QED BY <3>1, <1>0 DEF RefreshSound, CountedFor
  <2> QED BY <2>1, <2>2
<1>5. FallbackSound' /\ RecordSound' BY <1>0 DEF FallbackSound, RecordSound, CountedFor
<1> QED BY <1>3, <1>4, <1>5 DEF SnapshotInv

(* The clock, the end and the start of the program *)
LEMMA OutsideKeeps ==
    ASSUME SnapshotInv, Start \/ Crash \/ Tick \/ UNCHANGED vars
    PROVE  SnapshotInv'
<1>0. SnapshotTyped /\ RefreshSound /\ FallbackSound /\ RecordSound BY DEF SnapshotInv
<1>1. UNCHANGED <<row, recorded, lost>> BY DEF Start, Crash, Tick, vars, store
<1>2. now' \in Instant BY <1>0 DEF Start, Crash, Tick, vars, store, SnapshotTyped
<1>3. retry' = retry \/ retry' = NoRetry BY DEF Start, Crash, Tick, vars, tasks
<1>4. RetryTyped'
  BY <1>0, <1>3, BoundAssumption DEF SnapshotTyped, RetryTyped, NoRetry
<1>5. \/ UNCHANGED <<refresh, fallback>>
      \/ /\ refresh' = [j \in Caller |-> NoRefresh]
         /\ fallback' = [j \in Caller |-> NoFallback]
  BY DEF Start, Crash, Tick, vars, tasks
<1>6. SnapshotTyped' BY <1>0, <1>1, <1>2, <1>4, <1>5 DEF SnapshotTyped
<1>7. RecordSound' BY <1>0, <1>1 DEF RecordSound, CountedFor
<1>8. RefreshSound' /\ FallbackSound'
  BY <1>0, <1>1, <1>5 DEF RefreshSound, FallbackSound, CountedFor
<1> QED BY <1>6, <1>7, <1>8 DEF SnapshotInv

(* StartDaily, WakeRetry and DecideCatchUp begin a refresh or none. *)
LEMMA SchedulerKeeps ==
    ASSUME SnapshotInv, StartDaily \/ WakeRetry \/ DecideCatchUp
    PROVE  SnapshotInv'
<1>0. SnapshotTyped BY DEF SnapshotInv
<1>2. CASE StartDaily
  <2>1. Eligible(now) \in Date
    <3>1. now \in Instant BY <1>0 DEF SnapshotTyped
    <3>2. Day(now) \in TradeDay => Day(now) \in Date BY DayAssumption DEF Date
    <3> QED BY <3>1, <3>2, LatestIsDate DEF Eligible
  <2>2. DailyJob \in Caller BY BoundAssumption DEF Caller, DailyJob, CatchUp
  <2>3. /\ Begin(DailyJob, Eligible(now)) /\ UNCHANGED <<now, row, recorded, lost, fallback>>
        /\ RetryTyped'
    BY <1>0, <1>2 DEF StartDaily, store, SnapshotTyped, RetryTyped
  <2> QED BY <2>1, <2>2, <2>3, BeginKeeps
<1>3. CASE WakeRetry
  <2>1. UNCHANGED <<now, row, recorded, lost, fallback, up, lastClose>>
    BY <1>3 DEF WakeRetry, store
  <2>2. RetryTyped BY <1>0 DEF SnapshotTyped
  <2>3. CASE retry' = NoRetry /\ UNCHANGED <<refresh, faults>>
    <3>1. RetryTyped'
      BY <2>3, BoundAssumption DEF NoRetry, RetryTyped
    <3> QED BY <2>1, <2>3, <3>1
           DEF SnapshotInv, SnapshotTyped, RefreshSound, FallbackSound, RecordSound, CountedFor
  <2>4. CASE /\ Begin(MaxRetries + 1 - retry.left, retry.date)
             /\ retry' = [retry EXCEPT !.left = @ - 1]
    <3>1. retry.left > 0 BY <1>3 DEF WakeRetry
    <3>2. retry.date \in Date /\ retry.left \in 1..MaxRetries
      BY <2>2, <3>1, BoundAssumption DEF RetryTyped
    <3>3. retry.left - 1 \in 0..MaxRetries /\ MaxRetries + 1 - retry.left \in 0..(MaxRetries + 1)
      BY <3>2, BoundAssumption
    <3>4. RetryTyped' BY <2>2, <2>4, <3>2, <3>3 DEF RetryTyped
    <3>5. MaxRetries + 1 - retry.left \in Caller BY <3>3 DEF Caller, DailyJob, CatchUp
    <3> QED BY <2>1, <2>4, <3>2, <3>4, <3>5, BeginKeeps
  <2> QED BY <1>3, <2>3, <2>4 DEF WakeRetry
<1>4. CASE DecideCatchUp
  <2>1. UNCHANGED <<now, row, recorded, lost, fallback, retry>>
    BY <1>4 DEF DecideCatchUp, store
  <2>2. CASE UNCHANGED <<refresh, faults>>
    BY <2>1, <2>2 DEF SnapshotInv, SnapshotTyped, RetryTyped, RefreshSound, FallbackSound,
                      RecordSound, CountedFor
  <2>3. CASE Begin(CatchUp, LatestCompleted(now))
    <3>1. CatchUp \in Caller BY BoundAssumption DEF Caller, DailyJob, CatchUp
    <3>2. /\ LatestCompleted(now) \in Date
          /\ RetryTyped'
      BY <1>0, <2>1, LatestIsDate DEF SnapshotTyped, RetryTyped
    <3> QED BY <2>1, <2>3, <3>1, <3>2, BeginKeeps
  <2> QED BY <1>4, <2>2, <2>3 DEF DecideCatchUp
<1> QED BY <1>2, <1>3, <1>4

(* An answer of the main source *)
LEMMA FetchKeeps ==
    ASSUME SnapshotInv, NEW j \in Caller, Fetch(j)
    PROVE  SnapshotInv'
<1>0. SnapshotTyped /\ RefreshSound /\ FallbackSound /\ RecordSound BY DEF SnapshotInv
<1> DEFINE r == refresh[j]
<1>1. PICK c \in Code, answered \in BOOLEAN, written \in BOOLEAN :
        /\ r.pc = "fetch" /\ c \in r.todo
        /\ IF answered THEN StoreRow(r.date, c, r.at, written) ELSE UNCHANGED <<row, lost>>
        /\ refresh' = [refresh EXCEPT
              ![j].todo    = @ \ {c},
              ![j].queue   = IF answered THEN @ ELSE @ \cup {c},
              ![j].success = Counted(@, answered)]
        /\ UNCHANGED <<now, up, recorded, fallback, lastClose, retry>>
  BY DEF Fetch
<1>2. r # NoRefresh BY <1>1 DEF NoRefresh
<1>3. r \in [pc : {"fetch", "record"}, date : Date, at : Instant, todo : SUBSET Code,
             queue : SUBSET Code, total : Int, success : Nat]
  BY <1>0, <1>2 DEF SnapshotTyped
<1>4. /\ row' \in [Date -> [Code -> Instant \cup {Absent}]]
      /\ Grows
      /\ answered => c \in Accounted(row', lost', r.date)
  <2>1. CASE answered
    <3>1. StoreRow(r.date, c, r.at, written) BY <1>1, <2>1
    <3>2. r.date \in Date /\ r.at \in Instant BY <1>3
    <3> HIDE DEF r
    <3> QED BY <1>0, <3>1, <3>2, StoreAccounts
  <2>2. CASE ~ answered BY <1>0, <1>1, <2>2 DEF SnapshotTyped, Grows
  <2> QED BY <2>1, <2>2
<1>5. refresh' = [refresh EXCEPT ![j] =
         [r EXCEPT !.todo = @ \ {c}, !.queue = IF answered THEN @ ELSE @ \cup {c},
                   !.success = Counted(@, answered)]]
  BY <1>0, <1>1 DEF SnapshotTyped
<1> DEFINE s == refresh'[j]
<1>6. /\ s = [r EXCEPT !.todo = @ \ {c}, !.queue = IF answered THEN @ ELSE @ \cup {c},
                       !.success = Counted(@, answered)]
  BY <1>0, <1>5 DEF SnapshotTyped
<1>10. c \in r.todo BY <1>1
<1>11. r.todo \cap r.queue = {} BY <1>0, <1>2 DEF RefreshSound
<1>12. r.success <= Cardinality(Accounted(row, lost, r.date) \ (r.todo \cup r.queue))
  BY <1>0, <1>2 DEF RefreshSound, CountedFor
<1>13. /\ s.todo = r.todo \ {c}
       /\ s.queue = (IF answered THEN r.queue ELSE r.queue \cup {c})
       /\ s.success = (IF answered THEN r.success + 1 ELSE r.success)
       /\ s.date = r.date
       /\ s \in [pc : {"fetch", "record"}, date : Date, at : Instant, todo : SUBSET Code,
                 queue : SUBSET Code, total : Int, success : Nat]
  <2> DEFINE queue == IF answered THEN r.queue ELSE r.queue \cup {c}
             success == IF answered THEN r.success + 1 ELSE r.success
  <2>1. queue \in SUBSET Code /\ success \in Nat BY <1>3
  <2>2. s = [r EXCEPT !.todo = r.todo \ {c}, !.queue = queue, !.success = success]
    BY <1>6 DEF Counted
  <2> HIDE DEF r, s, queue, success
  <2>3. /\ s.todo = r.todo \ {c} /\ s.queue = queue /\ s.success = success /\ s.date = r.date
        /\ s \in [pc : {"fetch", "record"}, date : Date, at : Instant, todo : SUBSET Code,
                  queue : SUBSET Code, total : Int, success : Nat]
    BY <1>3, <2>1, <2>2
  <2> QED BY <2>3 DEF queue, success
<1>7. SnapshotTyped'
  BY <1>0, <1>1, <1>4, <1>5, <1>13 DEF SnapshotTyped, RetryTyped
<1>8. RefreshSound'
  <2> SUFFICES ASSUME NEW i \in Caller, refresh'[i] # NoRefresh
               PROVE  /\ refresh'[i].todo \cap refresh'[i].queue = {}
                      /\ CountedFor(refresh[i].success, refresh[i].date,
                                    refresh[i].todo \cup refresh[i].queue)'
    BY DEF RefreshSound
  <2>1. CASE i # j
    <3>1. refresh'[i] = refresh[i] BY <1>0, <1>5, <2>1 DEF SnapshotTyped
    <3> QED BY <3>1, <1>0, <1>4, CountsKept DEF RefreshSound, CountedFor, StillCounted
  <2>2. CASE i = j
    <3> DEFINE open == r.todo \cup r.queue
               later == s.todo \cup s.queue
    <3>1. s.todo \cap s.queue = {} BY <1>11, <1>13
    <3>2. (answered => later \subseteq open \ {c}) /\ later \subseteq open /\ c \in open
      <4> HIDE DEF r, s
      <4> QED BY <1>10, <1>11, <1>13
    <3>3. s.success <= Cardinality(Accounted(row', lost', r.date) \ later)
      <4> DEFINE A == Accounted(row, lost, r.date)
                 B == Accounted(row', lost', r.date)
                 n == r.success
      <4>1. A \subseteq B /\ B \subseteq Code BY <1>3, <1>4 DEF Accounted, Grows
      <4>2. n \in Nat /\ n <= Cardinality(A \ open) BY <1>3, <1>12
      <4>3. answered => c \in B BY <1>4
      <4>4. s.success = IF answered THEN n + 1 ELSE n BY <1>13
      <4> HIDE DEF A, B, n, open, later, r, s
      <4>5. CASE answered
        <5>1. n + 1 <= Cardinality(B \ later) BY <3>2, <4>1, <4>2, <4>3, <4>5, CountRises
        <5> QED BY <5>1, <4>4, <4>5 DEF B
      <4>6. CASE ~ answered
        <5>1. n <= Cardinality(B \ later) BY <3>2, <4>1, <4>2, CountKept
        <5> QED BY <5>1, <4>4, <4>6 DEF B
      <4> QED BY <4>5, <4>6
    <3> QED BY <2>2, <3>1, <3>3, <1>13 DEF CountedFor
  <2> QED BY <2>1, <2>2
<1>9. FallbackSound' /\ RecordSound'
  BY <1>1, <1>4, CountsKept DEF FallbackSound, RecordSound, CountedFor, StillCounted
<1> QED BY <1>7, <1>8, <1>9 DEF SnapshotInv

(* An answer of the fallback *)
LEMMA FallbackAnswerKeeps ==
    ASSUME SnapshotInv, NEW j \in Caller, FallbackAnswer(j)
    PROVE  SnapshotInv'
<1>0. SnapshotTyped /\ RefreshSound /\ FallbackSound /\ RecordSound BY DEF SnapshotInv
<1> DEFINE f == fallback[j]
           g == fallback'[j]
<1>1. PICK c \in Code, answered \in BOOLEAN, written \in BOOLEAN :
        /\ f.pc = "fetch" /\ c \in f.queue
        /\ IF answered THEN StoreRow(f.date, c, f.at, written) ELSE UNCHANGED <<row, lost>>
        /\ fallback' = [fallback EXCEPT
              ![j].queue   = @ \ {c},
              ![j].success = Counted(@, answered)]
        /\ UNCHANGED <<now, up, recorded, refresh, lastClose, retry>>
  BY DEF FallbackAnswer
<1>2. f # NoFallback BY <1>1 DEF NoFallback
<1>3. f \in [pc : {"fetch"}, date : Date, at : Instant, queue : SUBSET Code,
             total : Int, success : Nat]
  BY <1>0, <1>2 DEF SnapshotTyped
<1>4. /\ row' \in [Date -> [Code -> Instant \cup {Absent}]]
      /\ Grows
      /\ answered => c \in Accounted(row', lost', f.date)
  <2>1. CASE answered
    <3>1. StoreRow(f.date, c, f.at, written) BY <1>1, <2>1
    <3>2. f.date \in Date /\ f.at \in Instant BY <1>3
    <3> HIDE DEF f
    <3> QED BY <1>0, <3>1, <3>2, StoreAccounts
  <2>2. CASE ~ answered BY <1>0, <1>1, <2>2 DEF SnapshotTyped, Grows
  <2> QED BY <2>1, <2>2
<1>5. fallback' = [fallback EXCEPT ![j] =
         [f EXCEPT !.queue = @ \ {c}, !.success = Counted(@, answered)]]
  BY <1>0, <1>1 DEF SnapshotTyped
<1>6. g = [f EXCEPT !.queue = @ \ {c}, !.success = Counted(@, answered)]
  BY <1>0, <1>5 DEF SnapshotTyped
<1>7. c \in f.queue BY <1>1
<1>8. f.success <= Cardinality(Accounted(row, lost, f.date) \ f.queue)
  BY <1>0, <1>2 DEF FallbackSound, CountedFor
<1>9. /\ g.queue = f.queue \ {c}
      /\ g.success = (IF answered THEN f.success + 1 ELSE f.success)
      /\ g.date = f.date
      /\ g \in [pc : {"fetch"}, date : Date, at : Instant, queue : SUBSET Code,
                total : Int, success : Nat]
  <2> DEFINE success == IF answered THEN f.success + 1 ELSE f.success
  <2>1. success \in Nat BY <1>3
  <2>2. g = [f EXCEPT !.queue = f.queue \ {c}, !.success = success] BY <1>6 DEF Counted
  <2> HIDE DEF f, g, success
  <2>3. /\ g.queue = f.queue \ {c} /\ g.success = success /\ g.date = f.date
        /\ g \in [pc : {"fetch"}, date : Date, at : Instant, queue : SUBSET Code,
                  total : Int, success : Nat]
    BY <1>3, <2>1, <2>2
  <2> QED BY <2>3 DEF success
<1>10. SnapshotTyped' BY <1>0, <1>1, <1>4, <1>5, <1>9 DEF SnapshotTyped, RetryTyped
<1>11. FallbackSound'
  <2> SUFFICES ASSUME NEW i \in Caller, fallback'[i] # NoFallback
               PROVE  CountedFor(fallback[i].success, fallback[i].date, fallback[i].queue)'
    BY DEF FallbackSound
  <2>1. CASE i # j
    <3>1. fallback'[i] = fallback[i] BY <1>0, <1>5, <2>1 DEF SnapshotTyped
    <3> QED BY <3>1, <1>4, CountsKept DEF CountedFor, StillCounted
  <2>2. CASE i = j
    <3>1. g.success <= Cardinality(Accounted(row', lost', f.date) \ g.queue)
      <4> DEFINE A == Accounted(row, lost, f.date)
                 B == Accounted(row', lost', f.date)
                 n == f.success
                 open == f.queue
                 later == g.queue
      <4>1. A \subseteq B /\ B \subseteq Code BY <1>3, <1>4 DEF Accounted, Grows
      <4>2. n \in Nat /\ n <= Cardinality(A \ open) BY <1>3, <1>8
      <4>3. answered => c \in B BY <1>4
      <4>4. g.success = IF answered THEN n + 1 ELSE n BY <1>9
      <4>5. c \in open /\ later = open \ {c} BY <1>7, <1>9
      <4> HIDE DEF A, B, n, open, later, f, g
      <4>6. CASE answered
        <5>1. n + 1 <= Cardinality(B \ later) BY <4>1, <4>2, <4>3, <4>5, <4>6, CountRises
        <5> QED BY <5>1, <4>4, <4>6 DEF B, later
      <4>7. CASE ~ answered
        <5>1. n <= Cardinality(B \ later) BY <4>1, <4>2, <4>5, CountKept
        <5> QED BY <5>1, <4>4, <4>7 DEF B, later
      <4> QED BY <4>6, <4>7
    <3> QED BY <2>2, <3>1, <1>9 DEF CountedFor
  <2> QED BY <2>1, <2>2
<1>12. RefreshSound' /\ RecordSound'
  BY <1>0, <1>1, <1>4, CountsKept DEF RefreshSound, RecordSound, CountedFor, StillCounted
<1> QED BY <1>10, <1>11, <1>12 DEF SnapshotInv

(* The fallback goes on with the count of its refresh. *)
LEMMA SpawnKeeps ==
    ASSUME SnapshotInv, NEW j \in Caller, SpawnFallback(j)
    PROVE  SnapshotInv'
<1>0. SnapshotTyped /\ RefreshSound /\ FallbackSound /\ RecordSound BY DEF SnapshotInv
<1> DEFINE r == refresh[j]
           new == [pc |-> "fetch", date |-> r.date, at |-> r.at, queue |-> r.queue,
                   total |-> r.total, success |-> r.success]
<1>1. /\ r.pc = "fetch" /\ r.todo = {}
      /\ fallback' = fallback \/ fallback' = [fallback EXCEPT ![j] = new]
      /\ refresh' = [refresh EXCEPT ![j].pc = "record"]
      /\ UNCHANGED <<now, row, recorded, lost, retry>>
  BY DEF SpawnFallback, store
<1>2. r # NoRefresh BY <1>1 DEF NoRefresh
<1>3. r \in [pc : {"fetch", "record"}, date : Date, at : Instant, todo : SUBSET Code,
             queue : SUBSET Code, total : Int, success : Nat]
  BY <1>0, <1>2 DEF SnapshotTyped
<1>4. /\ refresh' \in [Caller -> {NoRefresh} \cup
            [pc : {"fetch", "record"}, date : Date, at : Instant, todo : SUBSET Code,
             queue : SUBSET Code, total : Int, success : Nat]]
      /\ \A i \in Caller : /\ refresh'[i].todo = refresh[i].todo
                           /\ refresh'[i].queue = refresh[i].queue
                           /\ refresh'[i].date = refresh[i].date
                           /\ refresh'[i].success = refresh[i].success
                           /\ refresh'[i] # NoRefresh => refresh[i] # NoRefresh
  <2>1. refresh' = [refresh EXCEPT ![j] = [r EXCEPT !.pc = "record"]]
    BY <1>0, <1>1 DEF SnapshotTyped
  <2>2. \A i \in Caller : i # j => refresh'[i] = refresh[i]
    BY <1>0, <2>1 DEF SnapshotTyped
  <2>3. refresh'[j] = [r EXCEPT !.pc = "record"] BY <1>0, <2>1 DEF SnapshotTyped
  <2>4. /\ refresh'[j].todo = r.todo /\ refresh'[j].queue = r.queue
        /\ refresh'[j].date = r.date /\ refresh'[j].success = r.success
        /\ refresh'[j] \in [pc : {"fetch", "record"}, date : Date, at : Instant,
                            todo : SUBSET Code, queue : SUBSET Code, total : Int,
                            success : Nat]
    BY <1>3, <2>3
  <2> QED BY <1>0, <1>2, <2>1, <2>2, <2>4 DEF SnapshotTyped
<1>5. SnapshotTyped'
  <2>1. new \in [pc : {"fetch"}, date : Date, at : Instant, queue : SUBSET Code,
                 total : Int, success : Nat]
    BY <1>3
  <2>2. RetryTyped' BY <1>0, <1>1 DEF SnapshotTyped, RetryTyped
  <2>3. now' \in Instant /\ row' \in [Date -> [Code -> Instant \cup {Absent}]]
        /\ recorded' \in [Date -> [total : Int, success : Nat]]
    BY <1>0, <1>1 DEF SnapshotTyped
  <2> HIDE DEF new
  <2>4. fallback' \in [Caller -> {NoFallback} \cup
            [pc : {"fetch"}, date : Date, at : Instant, queue : SUBSET Code,
             total : Int, success : Nat]]
    BY <1>0, <1>1, <2>1 DEF SnapshotTyped
  <2> QED BY <1>4, <2>2, <2>3, <2>4 DEF SnapshotTyped
<1>6. RefreshSound' BY <1>0, <1>1, <1>4 DEF RefreshSound, CountedFor
<1>7. FallbackSound'
  <2>1. CountedFor(r.success, r.date, r.queue)
    <3>1. CountedFor(r.success, r.date, r.todo \cup r.queue) BY <1>0, <1>2 DEF RefreshSound
    <3>2. r.todo \cup r.queue = r.queue BY <1>1
    <3> QED BY <3>1, <3>2 DEF CountedFor
  <2>2. new.success = r.success /\ new.date = r.date /\ new.queue = r.queue OBVIOUS
  <2> HIDE DEF new, r
  <2> SUFFICES ASSUME NEW i \in Caller, fallback'[i] # NoFallback
               PROVE  CountedFor(fallback[i].success, fallback[i].date, fallback[i].queue)'
    BY DEF FallbackSound
  <2>3. fallback'[i] = fallback[i] \/ fallback'[i] = new
    BY <1>0, <1>1 DEF SnapshotTyped
  <2> QED BY <1>0, <1>1, <2>1, <2>2, <2>3 DEF FallbackSound, CountedFor
<1>8. RecordSound' BY <1>0, <1>1 DEF RecordSound, CountedFor
<1> QED BY <1>5, <1>6, <1>7, <1>8 DEF SnapshotInv

(* What is recorded was counted. *)
LEMMA RecordKeeps ==
    ASSUME SnapshotInv, NEW j \in Caller, Record(j) \/ EndFallback(j)
    PROVE  SnapshotInv'
<1>0. SnapshotTyped /\ RefreshSound /\ FallbackSound /\ RecordSound BY DEF SnapshotInv
<1>1. Grows BY DEF Record, EndFallback, Grows
<1>2. UNCHANGED <<now, row, lost>> BY DEF Record, EndFallback
<1>3. PICK d \in Date, total \in Int, success \in Nat, open \in SUBSET Code :
        /\ CountedFor(success, d, open)
        /\ recorded' = [recorded EXCEPT ![d] = [total |-> total, success |-> success]]
        /\ \/ /\ refresh' = [refresh EXCEPT ![j] = NoRefresh] /\ fallback' = fallback
              /\ \/ retry' = retry
                 \/ retry' = [date |-> d, left |-> MaxRetries]
           \/ /\ fallback' = [fallback EXCEPT ![j] = NoFallback]
              /\ UNCHANGED <<refresh, retry>>
  <2>1. CASE Record(j)
    <3>1. refresh[j] # NoRefresh BY <2>1 DEF Record, NoRefresh
    <3>2. /\ refresh[j].date \in Date /\ refresh[j].total \in Int
          /\ refresh[j].success \in Nat
          /\ refresh[j].todo \cup refresh[j].queue \in SUBSET Code
      BY <1>0, <3>1 DEF SnapshotTyped
    <3>3. CountedFor(refresh[j].success, refresh[j].date, refresh[j].todo \cup refresh[j].queue)
      BY <1>0, <3>1 DEF RefreshSound
    <3> QED BY <2>1, <3>2, <3>3 DEF Record, Recorded
  <2>2. CASE EndFallback(j)
    <3>1. fallback[j] # NoFallback BY <2>2 DEF EndFallback, NoFallback
    <3>2. /\ fallback[j].date \in Date /\ fallback[j].total \in Int
          /\ fallback[j].success \in Nat /\ fallback[j].queue \in SUBSET Code
      BY <1>0, <3>1 DEF SnapshotTyped
    <3>3. CountedFor(fallback[j].success, fallback[j].date, fallback[j].queue)
      BY <1>0, <3>1 DEF FallbackSound
    <3> QED BY <2>2, <3>2, <3>3 DEF EndFallback, Recorded
  <2> QED BY <2>1, <2>2
<1>4. RetryTyped'
  BY <1>0, <1>3, BoundAssumption DEF SnapshotTyped, RetryTyped
<1>5. SnapshotTyped' BY <1>0, <1>2, <1>3, <1>4 DEF SnapshotTyped
<1>6. RefreshSound' /\ FallbackSound'
  BY <1>0, <1>2, <1>3 DEF SnapshotTyped, RefreshSound, FallbackSound, CountedFor
<1>7. RecordSound'
  <2> SUFFICES ASSUME NEW e \in Date PROVE CountedFor(recorded[e].success, e, {})'
    BY DEF RecordSound
  <2>1. CASE e = d
    <3> DEFINE A == Accounted(row, lost, d)
    <3>1. recorded'[e].success = success BY <1>0, <1>3, <2>1 DEF SnapshotTyped
    <3>2. A \subseteq Code /\ success <= Cardinality(A \ open)
      BY <1>3, <2>1 DEF CountedFor, Accounted
    <3> HIDE DEF A
    <3>3. success <= Cardinality(A \ {}) BY <3>2, CountKept
    <3> QED BY <1>2, <2>1, <3>1, <3>3 DEF A, CountedFor
  <2>2. CASE e # d
    <3>1. recorded'[e] = recorded[e] BY <1>0, <1>3, <2>2 DEF SnapshotTyped
    <3> QED BY <1>0, <1>2, <3>1 DEF RecordSound, CountedFor
  <2> QED BY <2>1, <2>2
<1> QED BY <1>5, <1>6, <1>7 DEF SnapshotInv

LEMMA SnapshotStep == SnapshotInv /\ [Next]_vars => SnapshotInv'
<1> SUFFICES ASSUME SnapshotInv, [Next]_vars PROVE SnapshotInv' OBVIOUS
<1>1. CASE \E j \in Caller : Task(j)
  BY <1>1, FetchKeeps, SpawnKeeps, RecordKeeps, FallbackAnswerKeeps DEF Task
<1> QED BY <1>1, SchedulerKeeps, OutsideKeeps DEF Next

LEMMA SnapshotInvariant == Spec => []SnapshotInv
BY InitSnapshot, SnapshotStep, PTL DEF Spec
(* The rest of the types *)

(* A refresh has counted, queued or still to ask each code of its total. *)
RefreshTotals ==
    \A j \in Caller : refresh[j] # NoRefresh =>
        /\ refresh[j].total \in Count
        /\ refresh[j].success + Cardinality(refresh[j].todo) + Cardinality(refresh[j].queue)
             = refresh[j].total

FallbackTotals == \A j \in Caller : fallback[j] # NoFallback => fallback[j].total \in Count

RecordTotals == \A d \in Date : recorded[d].total \in Count \cup {Absent}

OthersTyped ==
    /\ up \in {"off", "starting", "up"}
    /\ lastClose \in Date \cup {Absent}
    /\ lost \subseteq Date \X Code
    /\ faults \in 0..MaxFaults

TypesInv == RefreshTotals /\ FallbackTotals /\ RecordTotals /\ OthersTyped

(* No success is counted twice, so that there are no more than codes. *)
LEMMA SuccessesAreCounts ==
    ASSUME SnapshotInv
    PROVE  /\ \A j \in Caller : refresh[j] # NoRefresh => refresh[j].success \in Count
           /\ \A j \in Caller : fallback[j] # NoFallback => fallback[j].success \in Count
           /\ \A d \in Date : recorded[d].success \in Count
<1>0. SnapshotTyped /\ RefreshSound /\ FallbackSound /\ RecordSound BY DEF SnapshotInv
<1>1. ASSUME NEW n \in Nat, NEW d, NEW open, CountedFor(n, d, open)
      PROVE  n \in Count
  <2> DEFINE A == Accounted(row, lost, d) \ open
  <2>1. A \subseteq Code BY DEF Accounted
  <2>2. n <= Cardinality(A) BY <1>1 DEF CountedFor
  <2> HIDE DEF A
  <2> QED BY <2>1, <2>2, CountGrows DEF Count
<1>2. ASSUME NEW j \in Caller, refresh[j] # NoRefresh PROVE refresh[j].success \in Nat
  BY <1>0, <1>2 DEF SnapshotTyped
<1>3. ASSUME NEW j \in Caller, fallback[j] # NoFallback PROVE fallback[j].success \in Nat
  BY <1>0, <1>3 DEF SnapshotTyped
<1>4. \A d \in Date : recorded[d].success \in Nat BY <1>0 DEF SnapshotTyped
<1> QED BY <1>0, <1>1, <1>2, <1>3, <1>4 DEF RefreshSound, FallbackSound, RecordSound

LEMMA TypeOKIs == SnapshotInv /\ TypesInv => TypeOK
<1> SUFFICES ASSUME SnapshotInv, TypesInv PROVE TypeOK OBVIOUS
<1>0. SnapshotTyped /\ RefreshTotals /\ FallbackTotals /\ RecordTotals /\ OthersTyped
  BY DEF SnapshotInv, TypesInv
<1>1. recorded \in [Date -> [total : Count \cup {Absent}, success : Count]]
  <2> SUFFICES ASSUME NEW d \in Date
               PROVE  recorded[d] \in [total : Count \cup {Absent}, success : Count]
    BY <1>0 DEF SnapshotTyped
  <2> QED BY <1>0, SuccessesAreCounts DEF SnapshotTyped, RecordTotals
<1>2. refresh \in [Caller -> Refresh]
  <2> SUFFICES ASSUME NEW j \in Caller, refresh[j] # NoRefresh PROVE refresh[j] \in Refresh
    BY <1>0 DEF SnapshotTyped, Refresh
  <2> QED BY <1>0, SuccessesAreCounts DEF SnapshotTyped, RefreshTotals, Refresh
<1>3. fallback \in [Caller -> Fallback]
  <2> SUFFICES ASSUME NEW j \in Caller, fallback[j] # NoFallback PROVE fallback[j] \in Fallback
    BY <1>0 DEF SnapshotTyped, Fallback
  <2> QED BY <1>0, SuccessesAreCounts DEF SnapshotTyped, FallbackTotals, Fallback
<1>4. now \in Instant /\ row \in [Date -> [Code -> Instant \cup {Absent}]]
      /\ retry \in [date : Date \cup {Absent}, left : 0..MaxRetries]
  BY <1>0 DEF SnapshotTyped, RetryTyped
<1> QED BY <1>0, <1>1, <1>2, <1>3, <1>4 DEF OthersTyped, TypeOK

LEMMA InitTypes == Init => TypesInv
<1> SUFFICES ASSUME Init PROVE TypesInv OBVIOUS
<1>1. RefreshTotals /\ FallbackTotals BY DEF Init, RefreshTotals, FallbackTotals
<1>2. RecordTotals BY DEF Init, RecordTotals
<1>3. OthersTyped BY BoundAssumption DEF Init, OthersTyped
<1> QED BY <1>1, <1>2, <1>3 DEF TypesInv

LEMMA PayCounts ==
    ASSUME NEW fault \in BOOLEAN, faults \in 0..MaxFaults, Pay(fault)
    PROVE  faults' \in 0..MaxFaults
BY BoundAssumption DEF Pay

(* A code is to be asked of the main source or of the fallback, not of both. *)
LEMMA SplitCounts ==
    ASSUME NEW T \in SUBSET Code
    PROVE  0 + Cardinality(T \ Bj) + Cardinality(T \cap Bj) = Cardinality(T)
<1>1. IsFiniteSet(T) BY FS_Subset, CodeAssumption
<1>2. Cardinality(T \ Bj) = Cardinality(T) - Cardinality(T \cap Bj) BY <1>1, FS_Difference
<1>3. Cardinality(T) \in Nat /\ Cardinality(T \cap Bj) \in Nat
  <2>1. T \cap Bj \subseteq T OBVIOUS
  <2> QED BY <2>1, CountGrows
<1> QED BY <1>2, <1>3

LEMMA BeginTypes ==
    ASSUME SnapshotInv, TypesInv, NEW j \in Caller, NEW d \in Date, Begin(j, d),
           UNCHANGED <<recorded, lost, fallback, lastClose>>,
           up' \in {"off", "starting", "up"}
    PROVE  TypesInv'
<1>0. SnapshotTyped /\ RefreshTotals /\ FallbackTotals /\ RecordTotals /\ OthersTyped
  BY DEF SnapshotInv, TypesInv
<1>1. PICK T \in SUBSET Code : refresh' = [refresh EXCEPT ![j] =
              [pc |-> "fetch", date |-> d, at |-> now, todo |-> T \ Bj, queue |-> T \cap Bj,
               total |-> Cardinality(T), success |-> 0]]
  BY DEF Begin, Targets, Stored
<1>2. Cardinality(T) \in Count BY CountGrows DEF Count
<1>3. RefreshTotals'
  <2> SUFFICES ASSUME NEW i \in Caller, refresh'[i] # NoRefresh
               PROVE  /\ refresh'[i].total \in Count
                      /\ refresh'[i].success + Cardinality(refresh'[i].todo)
                           + Cardinality(refresh'[i].queue) = refresh'[i].total
    BY DEF RefreshTotals, Count
  <2>1. CASE i = j
    <3>1. refresh'[i] = [pc |-> "fetch", date |-> d, at |-> now, todo |-> T \ Bj,
                         queue |-> T \cap Bj, total |-> Cardinality(T), success |-> 0]
      BY <1>0, <1>1, <2>1 DEF SnapshotTyped
    <3> QED BY <1>2, <3>1, SplitCounts
  <2>2. CASE i # j
    <3>1. refresh'[i] = refresh[i] BY <1>0, <1>1, <2>2 DEF SnapshotTyped
    <3> QED BY <3>1, <1>0 DEF RefreshTotals
  <2> QED BY <2>1, <2>2
<1>4. faults' \in 0..MaxFaults
  <2>1. PICK fault \in BOOLEAN : Pay(fault) BY DEF Begin
  <2> QED BY <1>0, <2>1, PayCounts DEF OthersTyped
<1>5. OthersTyped' BY <1>0, <1>4 DEF OthersTyped
<1>6. FallbackTotals' /\ RecordTotals' BY <1>0 DEF FallbackTotals, RecordTotals, Count
<1> QED BY <1>3, <1>5, <1>6 DEF TypesInv

LEMMA SchedulerTypes ==
    ASSUME SnapshotInv, TypesInv, StartDaily \/ WakeRetry \/ DecideCatchUp
    PROVE  TypesInv'
<1>0. SnapshotTyped /\ OthersTyped BY DEF SnapshotInv, TypesInv
<1>1. now \in Instant /\ RetryTyped BY <1>0 DEF SnapshotTyped
<1>2. /\ UNCHANGED <<recorded, lost, fallback, lastClose>>
      /\ up' \in {"off", "starting", "up"}
  BY <1>0 DEF StartDaily, WakeRetry, DecideCatchUp, store, OthersTyped
<1>3. CASE UNCHANGED <<refresh, faults>>
  BY <1>2, <1>3 DEF TypesInv, RefreshTotals, FallbackTotals, RecordTotals, OthersTyped, Count
<1>4. CASE \E j \in Caller, d \in Date : Begin(j, d) BY <1>2, <1>4, BeginTypes
<1>5. CASE StartDaily
  <2>1. Day(now) \in TradeDay => Day(now) \in Date BY DayAssumption DEF Date
  <2>2. Eligible(now) \in Date BY <1>1, <2>1, LatestIsDate DEF Eligible
  <2>3. DailyJob \in Caller BY BoundAssumption DEF Caller, DailyJob, CatchUp
  <2> QED BY <1>4, <1>5, <2>2, <2>3 DEF StartDaily
<1>6. CASE WakeRetry
  <2>1. retry.left \in 1..MaxRetries /\ retry.date \in Date
    BY <1>1, <1>6, BoundAssumption DEF WakeRetry, RetryTyped
  <2>2. MaxRetries + 1 - retry.left \in Caller
    BY <2>1, BoundAssumption DEF Caller, DailyJob, CatchUp
  <2> QED BY <1>3, <1>4, <1>6, <2>1, <2>2 DEF WakeRetry
<1>7. CASE DecideCatchUp
  <2>1. CatchUp \in Caller BY BoundAssumption DEF Caller, DailyJob, CatchUp
  <2> QED BY <1>1, <1>3, <1>4, <1>7, <2>1, LatestIsDate DEF DecideCatchUp
<1> QED BY <1>5, <1>6, <1>7

LEMMA OutsideTypes ==
    ASSUME SnapshotInv, TypesInv, Start \/ Crash \/ Tick \/ UNCHANGED vars
    PROVE  TypesInv'
<1>0. RefreshTotals /\ FallbackTotals /\ RecordTotals /\ OthersTyped BY DEF TypesInv
<1>1. UNCHANGED <<recorded, lost>> BY DEF Start, Crash, Tick, vars, store
<1>2. \/ UNCHANGED <<refresh, fallback, lastClose>>
      \/ /\ refresh' = [j \in Caller |-> NoRefresh]
         /\ fallback' = [j \in Caller |-> NoFallback]
         /\ lastClose' = Absent
  BY DEF Start, Crash, Tick, vars, tasks
<1>3. up' \in {"off", "starting", "up"} BY <1>0 DEF Start, Crash, Tick, vars, OthersTyped
<1>4. faults' \in 0..MaxFaults
  BY <1>0, PayCounts DEF Start, Crash, Tick, vars, OthersTyped
<1>5. OthersTyped' BY <1>0, <1>1, <1>2, <1>3, <1>4 DEF OthersTyped
<1>6. RecordTotals' BY <1>0, <1>1 DEF RecordTotals, Count
<1>7. RefreshTotals' /\ FallbackTotals'
  BY <1>0, <1>2 DEF RefreshTotals, FallbackTotals, Count
<1> QED BY <1>5, <1>6, <1>7 DEF TypesInv

LEMMA StoreTypes ==
    ASSUME OthersTyped, NEW d \in Date, NEW c \in Code, NEW at, NEW answered \in BOOLEAN,
           NEW written \in BOOLEAN, Pay(~ (answered /\ written)),
           IF answered THEN StoreRow(d, c, at, written) ELSE UNCHANGED <<row, lost>>,
           UNCHANGED <<up, lastClose>>
    PROVE  OthersTyped'
<1>1. faults' \in 0..MaxFaults BY PayCounts DEF OthersTyped
<1>2. lost' \subseteq Date \X Code BY DEF StoreRow, OthersTyped
<1> QED BY <1>1, <1>2 DEF OthersTyped

(* An answer is counted, or its code is queued: the total accounts for it either way. *)
LEMMA AnswerCounts ==
    ASSUME NEW n \in Nat, NEW todo \in SUBSET Code, NEW queue \in SUBSET Code,
           NEW c \in todo, todo \cap queue = {}, NEW total,
           n + Cardinality(todo) + Cardinality(queue) = total
    PROVE  /\ (n + 1) + Cardinality(todo \ {c}) + Cardinality(queue) = total
           /\ n + Cardinality(todo \ {c}) + Cardinality(queue \cup {c}) = total
<1>1. IsFiniteSet(todo) /\ IsFiniteSet(queue) BY FS_Subset, CodeAssumption
<1>2. Cardinality(todo \ {c}) = Cardinality(todo) - 1 BY <1>1, FS_RemoveElement
<1>3. Cardinality(queue \cup {c}) = Cardinality(queue) + 1 BY <1>1, FS_AddElement
<1>4. Cardinality(todo) \in Nat /\ Cardinality(queue) \in Nat BY CountGrows
<1> QED BY <1>2, <1>3, <1>4

LEMMA FetchTypes ==
    ASSUME SnapshotInv, TypesInv, NEW j \in Caller, Fetch(j)
    PROVE  TypesInv'
<1>0. SnapshotTyped /\ RefreshSound /\ RefreshTotals /\ FallbackTotals /\ RecordTotals
      /\ OthersTyped
  BY DEF SnapshotInv, TypesInv
<1> DEFINE r == refresh[j]
<1>1. PICK c \in Code, answered \in BOOLEAN, written \in BOOLEAN :
        /\ r.pc = "fetch" /\ c \in r.todo
        /\ Pay(~ (answered /\ written))
        /\ IF answered THEN StoreRow(r.date, c, r.at, written) ELSE UNCHANGED <<row, lost>>
        /\ refresh' = [refresh EXCEPT
              ![j].todo    = @ \ {c},
              ![j].queue   = IF answered THEN @ ELSE @ \cup {c},
              ![j].success = Counted(@, answered)]
        /\ UNCHANGED <<now, up, recorded, fallback, lastClose, retry>>
  BY DEF Fetch
<1>2. r # NoRefresh BY <1>1 DEF NoRefresh
<1>3. r \in [pc : {"fetch", "record"}, date : Date, at : Instant, todo : SUBSET Code,
             queue : SUBSET Code, total : Int, success : Nat]
  BY <1>0, <1>2 DEF SnapshotTyped
<1>4. OthersTyped' BY <1>0, <1>1, <1>3, StoreTypes
<1>5. /\ r.todo \cap r.queue = {} /\ r.total \in Count
      /\ r.success + Cardinality(r.todo) + Cardinality(r.queue) = r.total
  BY <1>0, <1>2 DEF RefreshSound, RefreshTotals
<1>6. \A i \in Caller : i # j => refresh'[i] = refresh[i] BY <1>0, <1>1 DEF SnapshotTyped
<1>7. refresh'[j] = [r EXCEPT !.todo = r.todo \ {c},
                              !.queue = IF answered THEN r.queue ELSE r.queue \cup {c},
                              !.success = IF answered THEN r.success + 1 ELSE r.success]
  BY <1>0, <1>1 DEF SnapshotTyped, Counted
<1>8. /\ refresh'[j].total \in Count
      /\ refresh'[j].success + Cardinality(refresh'[j].todo) + Cardinality(refresh'[j].queue)
           = refresh'[j].total
  <2> DEFINE success == IF answered THEN r.success + 1 ELSE r.success
             queue == IF answered THEN r.queue ELSE r.queue \cup {c}
             todo == r.todo \ {c}
  <2>1. c \in r.todo BY <1>1
  <2>2. success + Cardinality(todo) + Cardinality(queue) = r.total
    <3>1. r.success \in Nat /\ r.todo \in SUBSET Code /\ r.queue \in SUBSET Code BY <1>3
    <3> HIDE DEF r
    <3>2. /\ (r.success + 1) + Cardinality(todo) + Cardinality(r.queue) = r.total
          /\ r.success + Cardinality(todo) + Cardinality(r.queue \cup {c}) = r.total
      BY <2>1, <3>1, <1>5, AnswerCounts
    <3> QED BY <3>2
  <2>3. /\ refresh'[j].success = success /\ refresh'[j].queue = queue
        /\ refresh'[j].todo = todo /\ refresh'[j].total = r.total
    <3> HIDE DEF r, success, queue, todo
    <3> QED BY <1>3, <1>7 DEF success, queue, todo
  <2> QED BY <1>5, <2>2, <2>3
<1>9. RefreshTotals' BY <1>0, <1>6, <1>8 DEF RefreshTotals, Count
<1>10. FallbackTotals' /\ RecordTotals' BY <1>0, <1>1 DEF FallbackTotals, RecordTotals, Count
<1> QED BY <1>4, <1>9, <1>10 DEF TypesInv

LEMMA FallbackAnswerTypes ==
    ASSUME SnapshotInv, TypesInv, NEW j \in Caller, FallbackAnswer(j)
    PROVE  TypesInv'
<1>0. SnapshotTyped /\ RefreshTotals /\ FallbackTotals /\ RecordTotals /\ OthersTyped
  BY DEF SnapshotInv, TypesInv
<1> DEFINE f == fallback[j]
<1>1. PICK c \in Code, answered \in BOOLEAN, written \in BOOLEAN :
        /\ f.pc = "fetch"
        /\ Pay(~ (answered /\ written))
        /\ IF answered THEN StoreRow(f.date, c, f.at, written) ELSE UNCHANGED <<row, lost>>
        /\ fallback' = [fallback EXCEPT
              ![j].queue   = @ \ {c},
              ![j].success = Counted(@, answered)]
        /\ UNCHANGED <<now, up, recorded, refresh, lastClose, retry>>
  BY DEF FallbackAnswer
<1>2. f # NoFallback BY <1>1 DEF NoFallback
<1>3. f \in [pc : {"fetch"}, date : Date, at : Instant, queue : SUBSET Code,
             total : Int, success : Nat]
  BY <1>0, <1>2 DEF SnapshotTyped
<1>4. OthersTyped' BY <1>0, <1>1, <1>3, StoreTypes
<1>5. \A i \in Caller : i # j => fallback'[i] = fallback[i] BY <1>0, <1>1 DEF SnapshotTyped
<1>6. fallback'[j] = [f EXCEPT !.queue = f.queue \ {c}, !.success = Counted(f.success, answered)]
  BY <1>0, <1>1 DEF SnapshotTyped
<1>7. fallback'[j].total = f.total
  <2> HIDE DEF f
  <2> QED BY <1>3, <1>6
<1>8. FallbackTotals' BY <1>0, <1>2, <1>5, <1>7 DEF FallbackTotals, Count
<1>9. RefreshTotals' /\ RecordTotals' BY <1>0, <1>1 DEF RefreshTotals, RecordTotals, Count
<1> QED BY <1>4, <1>8, <1>9 DEF TypesInv

LEMMA SpawnTypes ==
    ASSUME SnapshotInv, TypesInv, NEW j \in Caller, SpawnFallback(j)
    PROVE  TypesInv'
<1>0. SnapshotTyped /\ RefreshTotals /\ FallbackTotals /\ RecordTotals /\ OthersTyped
  BY DEF SnapshotInv, TypesInv
<1> DEFINE r == refresh[j]
           new == [pc |-> "fetch", date |-> r.date, at |-> r.at, queue |-> r.queue,
                   total |-> r.total, success |-> r.success]
<1>1. /\ r.pc = "fetch"
      /\ fallback' = fallback \/ fallback' = [fallback EXCEPT ![j] = new]
      /\ refresh' = [refresh EXCEPT ![j].pc = "record"]
      /\ UNCHANGED <<up, recorded, lost, lastClose, faults>>
  BY DEF SpawnFallback, store
<1>2. r # NoRefresh BY <1>1 DEF NoRefresh
<1>3. r \in [pc : {"fetch", "record"}, date : Date, at : Instant, todo : SUBSET Code,
             queue : SUBSET Code, total : Int, success : Nat]
  BY <1>0, <1>2 DEF SnapshotTyped
<1>4. r.total \in Count BY <1>0, <1>2 DEF RefreshTotals
<1>5. \A i \in Caller : /\ refresh'[i].todo = refresh[i].todo
                        /\ refresh'[i].queue = refresh[i].queue
                        /\ refresh'[i].total = refresh[i].total
                        /\ refresh'[i].success = refresh[i].success
                        /\ refresh'[i] # NoRefresh => refresh[i] # NoRefresh
  <2>1. \A i \in Caller : i # j => refresh'[i] = refresh[i] BY <1>0, <1>1 DEF SnapshotTyped
  <2>2. refresh'[j] = [r EXCEPT !.pc = "record"] BY <1>0, <1>1 DEF SnapshotTyped
  <2>3. /\ refresh'[j].todo = r.todo /\ refresh'[j].queue = r.queue
        /\ refresh'[j].total = r.total /\ refresh'[j].success = r.success
    <3> HIDE DEF r
    <3> QED BY <1>3, <2>2
  <2> QED BY <1>2, <2>1, <2>3
<1>6. RefreshTotals' BY <1>0, <1>5 DEF RefreshTotals, Count
<1>7. FallbackTotals'
  <2>1. new.total = r.total OBVIOUS
  <2> HIDE DEF new, r
  <2> SUFFICES ASSUME NEW i \in Caller, fallback'[i] # NoFallback
               PROVE  fallback'[i].total \in Count
    BY DEF FallbackTotals, Count
  <2>2. fallback'[i] = fallback[i] \/ fallback'[i] = new BY <1>0, <1>1 DEF SnapshotTyped
  <2> QED BY <1>0, <1>4, <2>1, <2>2 DEF FallbackTotals
<1>8. RecordTotals' /\ OthersTyped' BY <1>0, <1>1 DEF RecordTotals, OthersTyped, Count
<1> QED BY <1>6, <1>7, <1>8 DEF TypesInv

LEMMA RecordTypes ==
    ASSUME SnapshotInv, TypesInv, NEW j \in Caller, Record(j) \/ EndFallback(j)
    PROVE  TypesInv'
<1>0. SnapshotTyped /\ RefreshTotals /\ FallbackTotals /\ RecordTotals /\ OthersTyped
  BY DEF SnapshotInv, TypesInv
<1>1. PICK d \in Date, total \in Count, success \in Nat :
        /\ recorded' = [recorded EXCEPT ![d] = [total |-> total, success |-> success]]
        /\ lastClose' = lastClose \/ lastClose' = d
        /\ \/ refresh' = [refresh EXCEPT ![j] = NoRefresh] /\ fallback' = fallback
           \/ fallback' = [fallback EXCEPT ![j] = NoFallback] /\ refresh' = refresh
  <2>1. CASE Record(j)
    <3>1. refresh[j] # NoRefresh BY <2>1 DEF Record, NoRefresh
    <3>2. refresh[j].date \in Date /\ refresh[j].total \in Count /\ refresh[j].success \in Nat
      BY <1>0, <3>1 DEF SnapshotTyped, RefreshTotals
    <3> QED BY <2>1, <3>2 DEF Record, Recorded
  <2>2. CASE EndFallback(j)
    <3>1. fallback[j] # NoFallback BY <2>2 DEF EndFallback, NoFallback
    <3>2. fallback[j].date \in Date /\ fallback[j].total \in Count /\ fallback[j].success \in Nat
      BY <1>0, <3>1 DEF SnapshotTyped, FallbackTotals
    <3> QED BY <2>2, <3>2 DEF EndFallback, Recorded
  <2> QED BY <2>1, <2>2
<1>2. UNCHANGED <<up, lost, faults>> BY DEF Record, EndFallback
<1>3. OthersTyped' BY <1>0, <1>1, <1>2 DEF OthersTyped
<1>4. RecordTotals' BY <1>0, <1>1 DEF SnapshotTyped, RecordTotals, Count
<1>5. RefreshTotals' /\ FallbackTotals'
  BY <1>0, <1>1 DEF SnapshotTyped, RefreshTotals, FallbackTotals, Count
<1> QED BY <1>3, <1>4, <1>5 DEF TypesInv

LEMMA TypesStep == SnapshotInv /\ TypesInv /\ [Next]_vars => TypesInv'
<1> SUFFICES ASSUME SnapshotInv, TypesInv, [Next]_vars PROVE TypesInv' OBVIOUS
<1>1. CASE \E j \in Caller : Task(j)
  BY <1>1, FetchTypes, SpawnTypes, RecordTypes, FallbackAnswerTypes DEF Task
<1> QED BY <1>1, SchedulerTypes, OutsideTypes DEF Next

(* Every table and task of the snapshot keeps its type, and a refresh accounts for every  *)
(* code of its total: what it has not counted is queued for the fallback or still to ask  *)
(* (refresh_market_quotes), so that no successes are recorded beyond the universe.        *)
THEOREM SnapshotTyping == Spec => []TypeOK
<1>1. Spec => []TypesInv
  BY InitTypes, SnapshotInvariant, TypesStep, PTL DEF Spec
<1> QED BY <1>1, SnapshotInvariant, TypeOKIs, PTL
-----------------------------------------------------------------------------
(* What the retries and the catch-up take for complete (close_snapshot_complete) has its *)
(* rows: in whatever order refreshes and fallbacks of a day record, a success is counted *)
(* for a code of its own whose row is there or whose write failed.                        *)
THEOREM CompleteHasRows == Spec => []CompleteMeansRows
<1>1. SnapshotInv => CompleteMeansRows
  <2> SUFFICES ASSUME SnapshotInv, NEW d \in Date, CloseComplete(d, Cardinality(Code))
               PROVE  Missing(d) \in Few
    BY DEF CompleteMeansRows, Covered
  <2> DEFINE A == Accounted(row, lost, d)
             M == Missing(d)
             n == recorded[d].success
             size == Cardinality(Code)
  <2>1. IsFiniteSet(Code) /\ size \in Nat /\ size # 0
    BY CodeAssumption, FS_CardinalityType, FS_EmptySet
  <2>2. n * 100 >= 95 * size BY <2>1 DEF CloseComplete
  <2>3. n \in Nat /\ n <= Cardinality(A)
    <3>1. CountedFor(n, d, {}) /\ A \ {} = A BY DEF SnapshotInv, RecordSound
    <3> QED BY <3>1 DEF SnapshotInv, SnapshotTyped, CountedFor
  <2>4. A \subseteq Code /\ M = Code \ A BY DEF Accounted, Missing
  <2> HIDE DEF A, M, n
  <2>5. Cardinality(M) = size - Cardinality(Code \cap A) BY <2>1, <2>4, FS_Difference
  <2>6. Code \cap A = A BY <2>4
  <2>7. Cardinality(A) \in Nat BY <2>4, CountGrows
  <2>8. \A k, a, s \in Nat : k * 100 >= 95 * s /\ k <= a => 100 * (s - a) <= 5 * s OBVIOUS
  <2>9. 100 * (size - Cardinality(A)) <= 5 * size BY <2>1, <2>2, <2>3, <2>7, <2>8
  <2>10. 100 * Cardinality(M) <= 5 * size BY <2>5, <2>6, <2>9
  <2> QED BY <2>4, <2>10 DEF Few, M, size
<1> QED BY <1>1, SnapshotInvariant, PTL
=============================================================================
