-------------------------- MODULE AgentTradeProofs --------------------------
(***************************************************************************)
(* Proofs about TriggerDelivery and about AgentTrade, which extends it.     *)
(* First the delivery: its types, that one route at a time works on a      *)
(* trigger, and that it implements AtLeastOnce.  Then, for any number of   *)
(* trades, orders and crashes, that the trades' rows and the order index   *)
(* agree with the account.                                                 *)
(***************************************************************************)
EXTENDS AgentTrade, TLAPS

(* Nothing of what a crash loses is there while the process is down. *)
DownIsIdle ==
    ~ running => emitting = {} /\ unrouted = {} /\ worker = Idle

(* A route works on triggers the account has raised, and records are of those. *)
WorkersRaised ==
    /\ \A r \in Route, t \in Trigger : worker[<<r, t>>] # "idle" => t \in raised
    /\ \A t \in Trigger : consumption[t] # "none" => t \in raised

(* Marking a trigger, and its record, come after a completed run. *)
AnsweredFirst ==
    \A t \in Trigger :
        /\ \A r \in Route : worker[<<r, t>>] \in {"completed", "handled"} => completed[t] > 0
        /\ consumption[t] = "consumed" => completed[t] > 0

(* ProcessingHasWorker, trigger by trigger. *)
RecordWorked(t) ==
    /\ consumption[t] = "processing" <=>
         (\E r \in Route : worker[<<r, t>>] # "idle") \/ t \in stuck
    /\ t \in stuck => \A r \in Route : worker[<<r, t>>] = "idle"

RecordsWorked == running => \A t \in Trigger : RecordWorked(t)

(* OneRunPerTrigger and RecordsWorked are inductive only together, and with  *)
(* DownIsIdle: what is begun is begun by a process that runs.                *)
DeliveryInv ==
    TypeOK /\ OneRunPerTrigger /\ RecordsWorked /\ DownIsIdle /\ WorkersRaised
        /\ AnsweredFirst
-----------------------------------------------------------------------------
LEMMA InitDelivery == Init => DeliveryInv
BY DeliveryAssumption
   DEF Init, DeliveryInv, TypeOK, OneRunPerTrigger, RecordsWorked, RecordWorked, DownIsIdle,
       WorkersRaised, AnsweredFirst, Idle, Route, Stage, Consumption

(* What Begin does to the record and the worker of its own trigger. *)
LEMMA BeginKeeps ==
    ASSUME DeliveryInv, running, NEW r \in Route, NEW t \in raised, Begin(r, t),
           UNCHANGED <<running, raised, completed, stuck>>
    PROVE  /\ consumption' \in [Trigger -> Consumption]
           /\ worker' \in [Route \X Trigger -> Stage]
           /\ tried' \cup missed' \subseteq raised'
           /\ OneRunPerTrigger' /\ RecordsWorked' /\ WorkersRaised' /\ AnsweredFirst'
<1>1. t \in Trigger BY DEF DeliveryInv, TypeOK
<1>2. tried' \cup missed' \subseteq raised' BY DEF Begin, DeliveryInv, TypeOK
<1>3. CASE /\ consumption[t] \in BeginAllowed
           /\ consumption' = [consumption EXCEPT ![t] = "processing"]
           /\ worker' = [worker EXCEPT ![<<r, t>>] = "begun"]
  <2>1. /\ consumption' = [consumption EXCEPT ![t] = "processing"]
        /\ worker' = [worker EXCEPT ![<<r, t>>] = "begun"]
    BY <1>3 DEF Begin
  <2>2. \A q \in Route : worker[<<q, t>>] = "idle"
    BY <1>1, <1>3 DEF BeginAllowed, DeliveryInv, RecordsWorked, RecordWorked
  <2>3. /\ consumption' \in [Trigger -> Consumption]
        /\ worker' \in [Route \X Trigger -> Stage]
    BY <2>1 DEF DeliveryInv, TypeOK, Consumption, Stage
  <2>4. \A q \in Route, u \in Trigger :
          worker'[<<q, u>>] = IF q = r /\ u = t THEN "begun" ELSE worker[<<q, u>>]
    BY <1>1, <2>1 DEF DeliveryInv, TypeOK
  <2>5. \A u \in Trigger :
          consumption'[u] = IF u = t THEN "processing" ELSE consumption[u]
    BY <2>1 DEF DeliveryInv, TypeOK
  <2>6. OneRunPerTrigger'
    BY <1>1, <2>2, <2>4 DEF DeliveryInv, OneRunPerTrigger, Route
  <2>7. t \notin stuck
    BY <1>1, <1>3 DEF BeginAllowed, DeliveryInv, RecordsWorked, RecordWorked
  <2>8. RecordsWorked'
    <3> SUFFICES ASSUME NEW u \in Trigger PROVE RecordWorked(u)'
      BY DEF RecordsWorked
    <3>1. RecordWorked(u) BY DEF DeliveryInv, RecordsWorked
    <3>2. CASE u = t
      <4>1. consumption'[u] = "processing" /\ u \notin stuck' BY <2>5, <2>7, <3>2
      <4>2. worker'[<<r, u>>] # "idle" BY <2>4, <3>2
      <4> QED BY <4>1, <4>2 DEF RecordWorked
    <3>3. CASE u # t
      <4>1. \A q \in Route : worker'[<<q, u>>] = worker[<<q, u>>] BY <2>4, <3>3
      <4>2. consumption'[u] = consumption[u] BY <2>5, <3>3
      <4> QED BY <3>1, <4>1, <4>2 DEF RecordWorked
    <3> QED BY <3>2, <3>3
  <2>9. WorkersRaised'
    <3>1. \A q \in Route, u \in Trigger : worker'[<<q, u>>] # "idle" => u \in raised'
      BY <1>1, <2>4 DEF DeliveryInv, WorkersRaised
    <3>2. \A u \in Trigger : consumption'[u] # "none" => u \in raised'
      BY <1>1, <2>5 DEF DeliveryInv, WorkersRaised
    <3> QED BY <3>1, <3>2 DEF WorkersRaised
  <2>10. AnsweredFirst'
    BY <1>1, <2>4, <2>5 DEF DeliveryInv, AnsweredFirst
  <2> QED BY <1>2, <2>3, <2>6, <2>8, <2>9, <2>10
<1>4. CASE UNCHANGED <<consumption, worker>>
  BY <1>2, <1>4 DEF DeliveryInv, TypeOK, OneRunPerTrigger, RecordsWorked, RecordWorked,
                    WorkersRaised, AnsweredFirst
<1> QED BY <1>3, <1>4 DEF Begin

(* A step of a route moves its own worker from one stage to the next. *)
LEMMA StagesChange ==
    ASSUME TypeOK, NEW r \in Route, NEW t \in Trigger, NEW stage \in Stage,
           worker' = [worker EXCEPT ![<<r, t>>] = stage]
    PROVE  /\ worker' \in [Route \X Trigger -> Stage]
           /\ \A q \in Route, u \in Trigger :
                worker'[<<q, u>>] = IF q = r /\ u = t THEN stage ELSE worker[<<q, u>>]
BY DEF TypeOK

(* A route that goes on from one stage to the next keeps its record worked on. *)
LEMMA StillWorked ==
    ASSUME DeliveryInv, running, NEW r \in Route, NEW t \in Trigger,
           NEW stage \in Stage \ {"idle"}, worker[<<r, t>>] # "idle",
           \A q \in Route, u \in Trigger :
             worker'[<<q, u>>] = IF q = r /\ u = t THEN stage ELSE worker[<<q, u>>],
           UNCHANGED <<consumption, raised, stuck>>
    PROVE  RecordsWorked' /\ WorkersRaised'
<1>1. \A q \in Route, u \in Trigger : worker'[<<q, u>>] # "idle" <=> worker[<<q, u>>] # "idle"
  OBVIOUS
<1>2. RecordsWorked'
  <2> SUFFICES ASSUME NEW u \in Trigger PROVE RecordWorked(u)'
    BY DEF RecordsWorked
  <2>1. RecordWorked(u) BY DEF DeliveryInv, RecordsWorked
  <2> QED BY <1>1, <2>1 DEF RecordWorked
<1>3. WorkersRaised' BY <1>1 DEF DeliveryInv, WorkersRaised
<1> QED BY <1>2, <1>3
-----------------------------------------------------------------------------
LEMMA RunStartsKeeps ==
    ASSUME DeliveryInv, NEW r \in Route, NEW t \in Trigger, RunStarts(r, t)
    PROVE  DeliveryInv'
<1>1. PICK stage \in {"running", "ended"} : worker' = [worker EXCEPT ![<<r, t>>] = stage]
  BY DEF RunStarts
<1>2. /\ worker' \in [Route \X Trigger -> Stage]
      /\ \A q \in Route, u \in Trigger :
           worker'[<<q, u>>] = IF q = r /\ u = t THEN stage ELSE worker[<<q, u>>]
  BY <1>1, StagesChange DEF DeliveryInv, Stage
<1>3. worker[<<r, t>>] = "begun" BY DEF RunStarts
<1>4. running BY <1>3 DEF DeliveryInv, DownIsIdle, Idle
<1>5. UNCHANGED <<running, channel, raised, handled, emitting, consumption, rescanDue,
                  unrouted, crashes, completed, tried, missed, stuck>>
  BY DEF RunStarts, history
<1>6. TypeOK' BY <1>2, <1>5 DEF DeliveryInv, TypeOK
<1>7. OneRunPerTrigger' BY <1>2, <1>3 DEF DeliveryInv, OneRunPerTrigger, Route
<1>8. RecordsWorked' /\ WorkersRaised'
  BY <1>2, <1>3, <1>4, <1>5, StillWorked DEF Stage
<1>9. DownIsIdle' BY <1>4, <1>5 DEF DownIsIdle
<1>10. AnsweredFirst'
  BY <1>1, <1>2, <1>5 DEF DeliveryInv, AnsweredFirst
<1> QED BY <1>6, <1>7, <1>8, <1>9, <1>10 DEF DeliveryInv

LEMMA RunEndsKeeps ==
    ASSUME DeliveryInv, NEW r \in Route, NEW t \in Trigger, RunEnds(r, t)
    PROVE  DeliveryInv'
<1>1. PICK status \in RunStatus :
        /\ worker' = [worker EXCEPT ![<<r, t>>] = AfterRun(status)]
        /\ completed' = IF status = "completed" THEN [completed EXCEPT ![t] = @ + 1]
                        ELSE completed
  BY DEF RunEnds
<1> DEFINE stage == AfterRun(status)
<1>2. stage \in {"completed", "ended"} /\ (stage = "completed" <=> status = "completed")
  BY DEF AfterRun
<1>3. /\ worker' \in [Route \X Trigger -> Stage]
      /\ \A q \in Route, u \in Trigger :
           worker'[<<q, u>>] = IF q = r /\ u = t THEN stage ELSE worker[<<q, u>>]
  BY <1>1, <1>2, StagesChange DEF DeliveryInv, Stage
<1>4. completed' \in [Trigger -> Nat]
  BY <1>1 DEF DeliveryInv, TypeOK
<1>5. /\ \A u \in Trigger : completed'[u] >= completed[u]
      /\ stage = "completed" => completed'[t] > 0
  BY <1>1, <1>2 DEF DeliveryInv, TypeOK
<1> HIDE DEF stage
<1>6. worker[<<r, t>>] = "running" BY DEF RunEnds
<1>7. running BY <1>6 DEF DeliveryInv, DownIsIdle, Idle
<1>8. UNCHANGED <<running, channel, raised, handled, emitting, consumption, rescanDue,
                  unrouted, crashes, tried, missed, stuck>>
  BY DEF RunEnds
<1>9. TypeOK' BY <1>3, <1>4, <1>8 DEF DeliveryInv, TypeOK
<1>10. OneRunPerTrigger' BY <1>3, <1>6 DEF DeliveryInv, OneRunPerTrigger, Route
<1>11. RecordsWorked' /\ WorkersRaised'
  BY <1>2, <1>3, <1>6, <1>7, <1>8, StillWorked DEF Stage
<1>12. DownIsIdle' BY <1>7, <1>8 DEF DownIsIdle
<1>13. AnsweredFirst'
  BY <1>2, <1>3, <1>4, <1>5, <1>8 DEF DeliveryInv, TypeOK, AnsweredFirst
<1> QED BY <1>9, <1>10, <1>11, <1>12, <1>13 DEF DeliveryInv

LEMMA MarkHandledKeeps ==
    ASSUME DeliveryInv, NEW r \in Route, NEW t \in Trigger, MarkHandled(r, t)
    PROVE  DeliveryInv'
<1>1. /\ worker' \in [Route \X Trigger -> Stage]
      /\ \A q \in Route, u \in Trigger :
           worker'[<<q, u>>] = IF q = r /\ u = t THEN "handled" ELSE worker[<<q, u>>]
  BY StagesChange DEF DeliveryInv, Stage, MarkHandled
<1>2. worker[<<r, t>>] = "completed" BY DEF MarkHandled
<1>3. running BY <1>2 DEF DeliveryInv, DownIsIdle, Idle
<1>4. t \in raised BY <1>2 DEF DeliveryInv, WorkersRaised
<1>5. UNCHANGED <<running, channel, raised, emitting, consumption, rescanDue, unrouted,
                  crashes, completed, tried, missed, stuck>>
  BY DEF MarkHandled, history
<1>6. handled' \subseteq raised
  BY <1>4 DEF MarkHandled, DeliveryInv, TypeOK
<1>7. TypeOK' BY <1>1, <1>5, <1>6 DEF DeliveryInv, TypeOK
<1>8. OneRunPerTrigger' BY <1>1, <1>2 DEF DeliveryInv, OneRunPerTrigger, Route
<1>9. RecordsWorked' /\ WorkersRaised'
  BY <1>1, <1>2, <1>3, <1>5, StillWorked DEF Stage
<1>10. DownIsIdle' BY <1>3, <1>5 DEF DownIsIdle
<1>11. AnsweredFirst'
  BY <1>1, <1>2, <1>5 DEF DeliveryInv, AnsweredFirst
<1> QED BY <1>7, <1>8, <1>9, <1>10, <1>11 DEF DeliveryInv

(* Whether its record is written or not, the worker of MarkConsumption is idle. *)
LEMMA MarkConsumptionKeeps ==
    ASSUME DeliveryInv, NEW r \in Route, NEW t \in Trigger, MarkConsumption(r, t)
    PROVE  DeliveryInv'
<1> DEFINE record == FinalRecord(worker[<<r, t>>])
<1>1. worker[<<r, t>>] \in {"handled", "ended"} BY DEF MarkConsumption
<1>2. record \in {"consumed", "failed"} /\ (record = "consumed" => worker[<<r, t>>] = "handled")
  BY DEF FinalRecord
<1>3. /\ worker' \in [Route \X Trigger -> Stage]
      /\ \A q \in Route, u \in Trigger :
           worker'[<<q, u>>] = IF q = r /\ u = t THEN "idle" ELSE worker[<<q, u>>]
  BY StagesChange DEF DeliveryInv, Stage, MarkConsumption
<1>4. /\ consumption' \in [Trigger -> Consumption]
      /\ \A u \in Trigger \ {t} : consumption'[u] = consumption[u]
      /\ \/ consumption'[t] = record /\ stuck' = stuck
         \/ consumption'[t] = consumption[t] /\ stuck' = stuck \cup {t}
  BY <1>2 DEF MarkConsumption, DeliveryInv, TypeOK, Consumption
<1> HIDE DEF record
<1>5. running /\ t \in raised
  BY <1>1 DEF DeliveryInv, DownIsIdle, WorkersRaised, Idle
<1>6. UNCHANGED <<running, channel, raised, handled, emitting, rescanDue, unrouted,
                  crashes, completed, tried, missed>>
  BY DEF MarkConsumption
<1>7. TypeOK' BY <1>3, <1>4, <1>5, <1>6 DEF DeliveryInv, TypeOK
<1>8. OneRunPerTrigger' BY <1>3 DEF DeliveryInv, OneRunPerTrigger, Route
<1>9. \A q \in Route : worker'[<<q, t>>] = "idle"
  BY <1>1, <1>3 DEF DeliveryInv, OneRunPerTrigger, Route
<1>10. RecordsWorked'
  <2> SUFFICES ASSUME NEW u \in Trigger PROVE RecordWorked(u)'
    BY DEF RecordsWorked
  <2>1. RecordWorked(u) BY <1>5 DEF DeliveryInv, RecordsWorked
  <2>2. CASE u = t
    <3>1. consumption[t] = "processing" /\ t \notin stuck
      BY <1>1, <2>1, <2>2 DEF RecordWorked
    <3>2. record # "processing" BY <1>2
    <3>3. consumption'[t] = "processing" <=> t \in stuck' BY <1>4, <3>1, <3>2
    <3> QED BY <1>9, <2>2, <3>3 DEF RecordWorked
  <2>3. CASE u # t
    <3>1. \A q \in Route : worker'[<<q, u>>] = worker[<<q, u>>] BY <1>3, <2>3
    <3>2. consumption'[u] = consumption[u] /\ (u \in stuck' <=> u \in stuck)
      BY <1>4, <2>3
    <3> QED BY <2>1, <3>1, <3>2 DEF RecordWorked
  <2> QED BY <2>2, <2>3
<1>11. DownIsIdle' /\ WorkersRaised'
  <2>1. \A q \in Route, u \in Trigger : worker'[<<q, u>>] # "idle" => u \in raised'
    BY <1>3, <1>6 DEF DeliveryInv, WorkersRaised
  <2>2. \A u \in Trigger : consumption'[u] # "none" => u \in raised'
    BY <1>4, <1>5, <1>6 DEF DeliveryInv, WorkersRaised
  <2> QED BY <1>5, <1>6, <2>1, <2>2 DEF DownIsIdle, WorkersRaised
<1>12. AnsweredFirst'
  BY <1>1, <1>2, <1>3, <1>4, <1>6 DEF DeliveryInv, AnsweredFirst
<1> QED BY <1>7, <1>8, <1>10, <1>11, <1>12 DEF DeliveryInv
-----------------------------------------------------------------------------
LEMMA EmitKeeps ==
    ASSUME DeliveryInv, NEW t \in Trigger, EmitTriggered(t)
    PROVE  DeliveryInv'
<1>1. running /\ t \in raised BY DEF EmitTriggered, DeliveryInv, DownIsIdle, TypeOK
<1>2. UNCHANGED <<running, channel, raised, handled, rescanDue, unrouted, crashes, completed,
                  stuck>>
  BY DEF EmitTriggered
<1>3. emitting' \subseteq emitting /\ Begin("sink", t) BY DEF EmitTriggered
<1>4. /\ consumption' \in [Trigger -> Consumption]
      /\ worker' \in [Route \X Trigger -> Stage]
      /\ tried' \cup missed' \subseteq raised'
      /\ OneRunPerTrigger' /\ RecordsWorked' /\ WorkersRaised' /\ AnsweredFirst'
  BY <1>1, <1>2, <1>3, BeginKeeps DEF Route
<1>5. TypeOK' BY <1>2, <1>3, <1>4 DEF DeliveryInv, TypeOK
<1>6. DownIsIdle' BY <1>1, <1>2 DEF DownIsIdle
<1> QED BY <1>4, <1>5, <1>6 DEF DeliveryInv

LEMMA RescanKeeps ==
    ASSUME DeliveryInv, NEW t \in Trigger, RescanNext(t)
    PROVE  DeliveryInv'
<1>1. running /\ t \in raised BY DEF RescanNext, DeliveryInv, DownIsIdle, TypeOK
<1>2. UNCHANGED <<running, channel, raised, handled, emitting, rescanDue, crashes, completed,
                  stuck>>
  BY DEF RescanNext
<1>3. unrouted' \subseteq unrouted /\ Begin("rescan", t) BY DEF RescanNext
<1>4. /\ consumption' \in [Trigger -> Consumption]
      /\ worker' \in [Route \X Trigger -> Stage]
      /\ tried' \cup missed' \subseteq raised'
      /\ OneRunPerTrigger' /\ RecordsWorked' /\ WorkersRaised' /\ AnsweredFirst'
  BY <1>1, <1>2, <1>3, BeginKeeps DEF Route
<1>5. TypeOK' BY <1>2, <1>3, <1>4 DEF DeliveryInv, TypeOK
<1>6. DownIsIdle' BY <1>1, <1>2 DEF DownIsIdle
<1> QED BY <1>4, <1>5, <1>6 DEF DeliveryInv

(* The steps that begin and end nothing. *)
LEMMA OtherStepsKeep ==
    ASSUME DeliveryInv,
           \/ \E t \in Trigger : RaiseTrigger(t) \/ UserMarksHandled(t)
           \/ ListUnhandled \/ SwitchChannel \/ UNCHANGED vars
    PROVE  DeliveryInv'
<1>1. UNCHANGED <<running, consumption, worker, crashes, completed, tried, stuck>>
  BY DEF RaiseTrigger, UserMarksHandled, ListUnhandled, SwitchChannel, vars, history
<1>2. raised \subseteq raised'
  BY DEF RaiseTrigger, UserMarksHandled, ListUnhandled, SwitchChannel, vars, history
<1>3. TypeOK'
  <2>1. ASSUME NEW t \in Trigger, RaiseTrigger(t) PROVE TypeOK'
    BY <2>1 DEF DeliveryInv, TypeOK, RaiseTrigger, history
  <2>2. ASSUME NEW t \in Trigger, UserMarksHandled(t) PROVE TypeOK'
    BY <2>2 DEF DeliveryInv, TypeOK, UserMarksHandled, history
  <2>3. CASE ListUnhandled
    <3>1. unrouted' \subseteq raised /\ missed' \subseteq raised
      BY <2>3 DEF DeliveryInv, TypeOK, Unhandled, Rescanned, ListUnhandled
    <3> QED BY <2>3, <3>1 DEF DeliveryInv, TypeOK, ListUnhandled
  <2>4. CASE SwitchChannel \/ UNCHANGED vars
    BY <2>4 DEF DeliveryInv, TypeOK, SwitchChannel, vars, history
  <2> QED BY <2>1, <2>2, <2>3, <2>4
<1>4. DownIsIdle'
  BY <1>1 DEF DeliveryInv, DownIsIdle, RaiseTrigger, UserMarksHandled, ListUnhandled,
              SwitchChannel, vars, history
<1>5. OneRunPerTrigger' /\ RecordsWorked' /\ WorkersRaised' /\ AnsweredFirst'
  BY <1>1, <1>2 DEF DeliveryInv, OneRunPerTrigger, RecordsWorked, RecordWorked, WorkersRaised,
                    AnsweredFirst
<1> QED BY <1>3, <1>4, <1>5 DEF DeliveryInv

LEMMA CrashKeeps ==
    ASSUME DeliveryInv, Crash
    PROVE  DeliveryInv'
<1>1. \A w \in Route \X Trigger : worker'[w] = "idle" BY DEF Crash, Idle
<1>2. TypeOK'
  <2>1. worker' \in [Route \X Trigger -> Stage] BY DEF Crash, Idle, Stage
  <2>2. crashes' \in 0..MaxCrashes
    BY DeliveryAssumption DEF Crash, DeliveryInv, TypeOK
  <2> QED BY <2>1, <2>2 DEF DeliveryInv, TypeOK, Crash
<1>3. OneRunPerTrigger' /\ WorkersRaised'
  BY <1>1 DEF Crash, DeliveryInv, OneRunPerTrigger, WorkersRaised, Route
<1>4. RecordsWorked' /\ DownIsIdle' BY DEF Crash, RecordsWorked, DownIsIdle, Idle
<1>5. AnsweredFirst' BY <1>1 DEF Crash, DeliveryInv, AnsweredFirst
<1> QED BY <1>2, <1>3, <1>4, <1>5 DEF DeliveryInv

LEMMA RecoverKeeps ==
    ASSUME DeliveryInv, NEW t \in Trigger, RecoverRecord(t)
    PROVE  DeliveryInv'
<1>1. ~ running /\ ~ running' BY DEF RecoverRecord
<1>2. /\ consumption' \in [Trigger -> Consumption]
      /\ \A u \in Trigger : consumption'[u] = IF u = t THEN "failed" ELSE consumption[u]
  BY DEF RecoverRecord, RecoveredStatus, DeliveryInv, TypeOK, Consumption
<1>3. UNCHANGED <<running, channel, raised, handled, emitting, worker, rescanDue, unrouted,
                  crashes, completed, tried, missed, stuck>>
  BY DEF RecoverRecord, history
<1>4. TypeOK' BY <1>2, <1>3 DEF DeliveryInv, TypeOK
<1>5. RecordsWorked' BY <1>1 DEF RecordsWorked
<1>6. OneRunPerTrigger' /\ DownIsIdle'
  BY <1>3 DEF DeliveryInv, OneRunPerTrigger, DownIsIdle, Idle
<1>7. WorkersRaised'
  BY <1>2, <1>3 DEF RecoverRecord, Unfinished, DeliveryInv, WorkersRaised
<1>8. AnsweredFirst' BY <1>2, <1>3 DEF DeliveryInv, AnsweredFirst
<1> QED BY <1>4, <1>5, <1>6, <1>7, <1>8 DEF DeliveryInv

(* What recovery has left processing is stuck, and no route is at work yet. *)
LEMMA RestartKeeps ==
    ASSUME DeliveryInv, Restart
    PROVE  DeliveryInv'
<1>1. UNCHANGED <<channel, raised, handled, emitting, consumption, worker, unrouted, crashes,
                  completed, tried, missed>>
  BY DEF Restart
<1>2. \A w \in Route \X Trigger : worker[w] = "idle"
  BY DEF Restart, DeliveryInv, DownIsIdle, Idle
<1>3. \A t \in Trigger : t \in stuck' <=> consumption[t] = "processing"
  BY DEF Restart, Unfinished
<1>4. stuck' \subseteq raised BY DEF Restart, Unfinished, DeliveryInv, WorkersRaised
<1>5. TypeOK' BY <1>1, <1>4 DEF Restart, DeliveryInv, TypeOK
<1>6. RecordsWorked' BY <1>1, <1>2, <1>3 DEF RecordsWorked, RecordWorked
<1>7. DownIsIdle' BY DEF Restart, DownIsIdle
<1>8. OneRunPerTrigger' /\ WorkersRaised' /\ AnsweredFirst'
  BY <1>1 DEF DeliveryInv, OneRunPerTrigger, WorkersRaised, AnsweredFirst
<1> QED BY <1>5, <1>6, <1>7, <1>8 DEF DeliveryInv

LEMMA StepDelivery == DeliveryInv /\ [Next]_vars => DeliveryInv'
<1> SUFFICES ASSUME DeliveryInv, [Next]_vars PROVE DeliveryInv'
  OBVIOUS
<1>1. ASSUME NEW t \in Trigger, NEW r \in Route, RouteStep(r, t) PROVE DeliveryInv'
  BY <1>1, RunStartsKeeps, RunEndsKeeps, MarkHandledKeeps, MarkConsumptionKeeps DEF RouteStep
<1>2. ASSUME NEW t \in Trigger,
             EmitTriggered(t) \/ RescanNext(t) \/ RecoverRecord(t) \/ RaiseTrigger(t)
               \/ UserMarksHandled(t)
      PROVE DeliveryInv'
  BY <1>2, EmitKeeps, RescanKeeps, RecoverKeeps, OtherStepsKeep
<1>3. CASE ListUnhandled \/ SwitchChannel \/ Crash \/ Restart \/ UNCHANGED vars
  BY <1>3, OtherStepsKeep, CrashKeeps, RestartKeeps
<1> QED BY <1>1, <1>2, <1>3 DEF Next

LEMMA AlwaysDelivery == Spec => []DeliveryInv
<1>1. DeliveryInv /\ [Next]_vars => DeliveryInv' BY StepDelivery
<1> QED BY InitDelivery, <1>1, PTL DEF Spec

(* The tables and the state of the process hold values of their types. *)
THEOREM DeliveryTyping == Spec => []TypeOK
<1>1. DeliveryInv => TypeOK BY DEF DeliveryInv
<1> QED BY <1>1, AlwaysDelivery, PTL

(* The sink and the rescan never have a run each on one trigger, whatever    *)
(* crashes come between them (begin_consumption).                            *)
THEOREM OneRun == Spec => []OneRunPerTrigger
<1>1. DeliveryInv => OneRunPerTrigger BY DEF DeliveryInv
<1> QED BY <1>1, AlwaysDelivery, PTL

(* A record says processing exactly while a route works on its trigger, or    *)
(* after an error of its final write or of the last recovery; to such a record *)
(* no route comes (begin_consumption, mark_consumption).                       *)
THEOREM NothingLockedOut == Spec => []ProcessingHasWorker
<1>1. DeliveryInv => ProcessingHasWorker
  BY DEF DeliveryInv, TypeOK, RecordsWorked, RecordWorked, ProcessingHasWorker, AtWork
<1> QED BY <1>1, AlwaysDelivery, PTL
-----------------------------------------------------------------------------
LEMMA InitImplements == Init => Delivery!Init
BY DEF Init, Delivery!Init

(* A completed run answers a trigger that is not acknowledged. *)
LEMMA RunEndsImplements ==
    ASSUME DeliveryInv, NEW r \in Route, NEW t \in Trigger, RunEnds(r, t)
    PROVE  [Delivery!Next]_Delivery!vars
<1>1. PICK status \in RunStatus :
        completed' = IF status = "completed" THEN [completed EXCEPT ![t] = @ + 1]
                     ELSE completed
  BY DEF RunEnds
<1>2. UNCHANGED <<raised, consumption>> BY DEF RunEnds
<1>3. t \in raised BY DEF RunEnds, DeliveryInv, WorkersRaised
<1>4. running BY DEF RunEnds, DeliveryInv, DownIsIdle, Idle
<1>5. consumption[t] = "processing"
  BY <1>4 DEF RunEnds, DeliveryInv, RecordsWorked, RecordWorked
<1>6. CASE status = "completed"
  BY <1>1, <1>2, <1>3, <1>5, <1>6 DEF Delivery!Next, Delivery!Answer, Delivery!vars
<1>7. CASE status # "completed"
  BY <1>1, <1>2, <1>7 DEF Delivery!vars
<1> QED BY <1>6, <1>7

(* A record becomes consumed, and is acknowledged, after a completed run. *)
LEMMA MarkConsumptionImplements ==
    ASSUME DeliveryInv, NEW r \in Route, NEW t \in Trigger, MarkConsumption(r, t)
    PROVE  [Delivery!Next]_Delivery!vars
<1> DEFINE record == consumption'[t]
<1>1. UNCHANGED <<raised, completed>> BY DEF MarkConsumption
<1>2. \A u \in Trigger : consumption'[u] = IF u = t THEN record ELSE consumption[u]
  BY DEF MarkConsumption, DeliveryInv, TypeOK
<1>3. running BY DEF MarkConsumption, DeliveryInv, DownIsIdle, Idle
<1>4. consumption[t] = "processing"
  BY <1>3 DEF MarkConsumption, DeliveryInv, RecordsWorked, RecordWorked
<1>5. record = "consumed" => completed[t] > 0
  BY <1>4 DEF MarkConsumption, FinalRecord, DeliveryInv, TypeOK, AnsweredFirst
<1> HIDE DEF record
<1>6. CASE record = "consumed"
  <2>1. {u \in Trigger : consumption'[u] = "consumed"} =
          {u \in Trigger : consumption[u] = "consumed"} \cup {t}
    BY <1>2, <1>6
  <2> QED BY <1>1, <1>5, <1>6, <2>1 DEF Delivery!Next, Delivery!Acknowledge
<1>7. CASE record # "consumed"
  <2>1. {u \in Trigger : consumption'[u] = "consumed"} =
          {u \in Trigger : consumption[u] = "consumed"}
    BY <1>2, <1>4, <1>7
  <2> QED BY <1>1, <2>1 DEF Delivery!vars
<1> QED BY <1>6, <1>7

(* No other step makes or unmakes a consumed record. *)
LEMMA BeginAcknowledgesNothing ==
    ASSUME TypeOK, NEW r, NEW t \in Trigger, Begin(r, t)
    PROVE  {u \in Trigger : consumption'[u] = "consumed"} =
             {u \in Trigger : consumption[u] = "consumed"}
BY DEF Begin, BeginAllowed, TypeOK

LEMMA QuietImplements ==
    ASSUME DeliveryInv,
           \/ \E t \in Trigger : \/ UserMarksHandled(t) \/ EmitTriggered(t)
                                 \/ RescanNext(t) \/ RecoverRecord(t)
                                 \/ \E r \in Route : RunStarts(r, t) \/ MarkHandled(r, t)
           \/ ListUnhandled \/ SwitchChannel \/ Crash \/ Restart \/ UNCHANGED vars
    PROVE  UNCHANGED Delivery!vars
<1>1. UNCHANGED <<raised, completed>>
  BY DEF UserMarksHandled, EmitTriggered, RescanNext, RecoverRecord, RunStarts, MarkHandled,
         ListUnhandled, SwitchChannel, Crash, Restart, vars, history
<1> DEFINE Consumed == {u \in Trigger : consumption[u] = "consumed"}
<1>2. ASSUME NEW t \in Trigger, EmitTriggered(t) \/ RescanNext(t)
      PROVE  Consumed' = Consumed
  <2>1. PICK r \in Route : Begin(r, t) BY <1>2 DEF EmitTriggered, RescanNext, Route
  <2> QED BY <2>1, BeginAcknowledgesNothing DEF DeliveryInv
<1>3. ASSUME NEW t \in Trigger, RecoverRecord(t)
      PROVE  Consumed' = Consumed
  BY <1>3 DEF RecoverRecord, RecoveredStatus, Unfinished, DeliveryInv, TypeOK
<1>4. ASSUME ~ \E t \in Trigger : EmitTriggered(t) \/ RescanNext(t) \/ RecoverRecord(t)
      PROVE  Consumed' = Consumed
  <2>1. UNCHANGED consumption
    BY <1>4 DEF UserMarksHandled, RunStarts, MarkHandled, ListUnhandled, SwitchChannel,
                Crash, Restart, vars
  <2> QED BY <2>1
<1>5. Consumed' = Consumed BY <1>2, <1>3, <1>4
<1> QED BY <1>1, <1>5 DEF Delivery!vars

LEMMA StepImplements == DeliveryInv /\ [Next]_vars => [Delivery!Next]_Delivery!vars
<1> SUFFICES ASSUME DeliveryInv, [Next]_vars PROVE [Delivery!Next]_Delivery!vars
  OBVIOUS
<1>1. ASSUME NEW t \in Trigger, RaiseTrigger(t) PROVE [Delivery!Next]_Delivery!vars
  BY <1>1 DEF RaiseTrigger, history, Delivery!Next, Delivery!Raise
<1>2. ASSUME NEW t \in Trigger, NEW r \in Route, RouteStep(r, t)
      PROVE [Delivery!Next]_Delivery!vars
  BY <1>2, RunEndsImplements, MarkConsumptionImplements, QuietImplements DEF RouteStep
<1>3. ASSUME NEW t \in Trigger,
             UserMarksHandled(t) \/ EmitTriggered(t) \/ RescanNext(t) \/ RecoverRecord(t)
      PROVE [Delivery!Next]_Delivery!vars
  BY <1>3, QuietImplements
<1>4. CASE ListUnhandled \/ SwitchChannel \/ Crash \/ Restart \/ UNCHANGED vars
  BY <1>4, QuietImplements
<1> QED BY <1>1, <1>2, <1>3, <1>4 DEF Next

(* The delivery of triggers implements AtLeastOnce: a consumption is final   *)
(* only after a completed run, and no run follows it.                        *)
THEOREM DeliveryRefinement == Spec => FollowsAtLeastOnce
<1>1. DeliveryInv /\ [Next]_vars => [Delivery!Next]_Delivery!vars BY StepImplements
<1> QED BY InitImplements, <1>1, AlwaysDelivery, PTL DEF Spec, FollowsAtLeastOnce, Delivery!Spec
-----------------------------------------------------------------------------
(* The trades. *)

TradeTyped ==
    /\ trade \in [Trade -> AgentTrade \cup {Absent}]
    /\ order \in [Order -> AccountOrder \cup {Absent}]
    /\ index \in [Order -> Trade \cup {Absent}]
    /\ operating \in Operation \cup {Absent}
    /\ lapse \in [Trade -> Lapse]

(* What the handler holds is a trade that is under way without a fault yet, and *)
(* what it was answered is what the account did.                                *)
HeldTrade ==
    operating # Absent =>
        /\ trade[operating.trade] # Absent
        /\ trade[operating.trade].status =
             IF operating.stage = "settled" THEN "settled" ELSE "submitting"
        /\ operating.stage # "settled" => running
        /\ lapse[operating.trade] = "none"

HeldAnswer ==
    operating # Absent =>
        /\ operating.stage = "submitted" =>
             operating.order = Absent /\ OrdersMadeBy(operating.trade) = {}
        /\ operating.stage = "emitting" => operating.accepted
        /\ operating.stage = "settled" \/ operating.accepted => operating.order # Absent
        /\ operating.stage \in {"emitting", "answered"}
             /\ trade[operating.trade].action = "place" =>
               (operating.accepted <=> OrdersMadeBy(operating.trade) # {})
        /\ operating.order # Absent =>
             /\ order[operating.order] # Absent
             /\ operating.trade \in {order[operating.order].madeBy,
                                     order[operating.order].cancelledBy}
             /\ trade[operating.trade].action = "place" =>
                  operating.trade = order[operating.order].madeBy

UnusedUnharmed == \A d \in Trade : trade[d] = Absent => lapse[d] = "none"

(* An order has a maker, which placed no other. *)
MakersPlace ==
    \A o \in Order : order[o] # Absent =>
        trade[order[o].madeBy] # Absent /\ trade[order[o].madeBy].action = "place"

OneOrderEach ==
    \A o, p \in Order : order[o] # Absent /\ order[p] # Absent /\ order[o].madeBy = order[p].madeBy
                          => o = p

ActiveNotCancelled ==
    \A o \in Order : order[o] # Absent /\ order[o].status = "active" =>
                       order[o].cancelledBy = Absent

(* An order that is not indexed has a faulty row, or one that is not settled,  *)
(* or its entry is the next thing to be written.                               *)
IndexDue(o) ==
    \/ lapse[order[o].madeBy] # "none"
    \/ trade[order[o].madeBy].status = "submitting"
    \/ AtIndex /\ operating.trade = order[o].madeBy /\ operating.order = o

IndexedOrDue ==
    \A o \in Order : order[o] # Absent /\ index[o] = Absent => IndexDue(o)

IndexSound ==
    \A o \in Order :
        index[o] # Absent =>
            order[o] # Absent /\ index[o] \in {order[o].madeBy, order[o].cancelledBy}

(* The end of an order raises its trigger. *)
RaisedOrdered == \A o \in Order : o \in raised => order[o] # Absent

(* IndexKept is not inductive: what it allows once the program runs comes from *)
(* what a crash found, which IndexedOrDue says for a process that is down too. *)
RowsInv ==
    /\ TradeTyped
    /\ HeldTrade
    /\ HeldAnswer
    /\ UnusedUnharmed
    /\ MakersPlace
    /\ OneOrderEach
    /\ ActiveNotCancelled
    /\ NothingLeftSubmitting
    /\ SettledAgreesWithAccount
    /\ IndexedOrDue
    /\ IndexSound
    /\ RaisedOrdered

TradeInv == DeliveryInv /\ RowsInv
-----------------------------------------------------------------------------
(* The rows of the tables are not the value for no row. *)
LEMMA RowsAreRows ==
    /\ \A row \in AgentTrade \cup AccountOrder \cup Operation : row # Absent
    /\ \A d \in Trade : d # Absent
    /\ \A o \in Order : o # Absent
  BY AbsentAssumption

(* A write of one trade's row. *)
LEMMA SettledRows ==
    ASSUME TradeTyped, NEW d \in Trade, trade[d] # Absent, NEW accepted \in BOOLEAN,
           trade' = Settled(d, accepted)
    PROVE  /\ trade' \in [Trade -> AgentTrade \cup {Absent}]
           /\ trade'[d] # Absent /\ trade'[d].status = "settled"
           /\ trade'[d].accepted = accepted /\ trade'[d].action = trade[d].action
           /\ \A other \in Trade \ {d} : trade'[other] = trade[other]
<1>1. trade[d] \in AgentTrade BY DEF TradeTyped
<1>2. [trade[d] EXCEPT !.status = "settled", !.accepted = accepted] \in AgentTrade
  BY <1>1 DEF AgentTrade
<1>3. trade'[d] = [trade[d] EXCEPT !.status = "settled", !.accepted = accepted]
  BY DEF Settled, TradeTyped
<1>4. /\ trade'[d].status = "settled" /\ trade'[d].accepted = accepted
      /\ trade'[d].action = trade[d].action
  BY <1>1, <1>3 DEF AgentTrade
<1>5. trade'[d] # Absent BY <1>2, <1>3, RowsAreRows
<1>6. trade' \in [Trade -> AgentTrade \cup {Absent}]
  BY <1>2 DEF Settled, TradeTyped
<1>7. \A other \in Trade \ {d} : trade'[other] = trade[other]
  BY DEF Settled, TradeTyped
<1> QED BY <1>4, <1>5, <1>6, <1>7

(* A fault of one trade. *)
LEMMA LapsedRows ==
    ASSUME TradeTyped, NEW d \in Trade, NEW fault \in Lapse,
           lapse' = [lapse EXCEPT ![d] = fault]
    PROVE  /\ lapse' \in [Trade -> Lapse]
           /\ lapse'[d] = fault
           /\ \A other \in Trade \ {d} : lapse'[other] = lapse[other]
  BY DEF TradeTyped

(* The orders' table has no part in the steps that settle and index. *)
LEMMA OrdersKept ==
    ASSUME RowsInv, UNCHANGED <<order, raised>>
    PROVE  /\ \A e : OrdersMadeBy(e)' = OrdersMadeBy(e)
           /\ OneOrderEach' /\ ActiveNotCancelled' /\ RaisedOrdered'
  BY DEF RowsInv, OrdersMadeBy, OneOrderEach, ActiveNotCancelled, RaisedOrdered

LEMMA MakersAreTrades ==
    ASSUME TradeTyped, NEW o \in Order, order[o] # Absent
    PROVE  order[o] \in AccountOrder /\ order[o].madeBy \in Trade
  BY DEF TradeTyped, AccountOrder
-----------------------------------------------------------------------------
(* The handler. *)

LEMMA RecordSubmittingKeeps ==
    ASSUME RowsInv, NEW d \in Trade, NEW run \in Run, RecordSubmitting(d, run)
    PROVE  RowsInv'
<1> USE DEF RowsInv
<1>1. PICK action \in {"place", "cancel"} :
        trade' = [trade EXCEPT ![d] = [run |-> run, action |-> action,
                                       status |-> "submitting", accepted |-> FALSE]]
  BY DEF RecordSubmitting
<1>2. /\ operating = Absent /\ trade[d] = Absent /\ running
      /\ operating' = [trade |-> d, stage |-> "submitted", accepted |-> FALSE,
                       order |-> Absent]
      /\ UNCHANGED <<vars, order, index, lapse>>
  BY DEF RecordSubmitting, RunsNow
<1>3. running' = running /\ raised' = raised BY <1>2 DEF vars
<1>4. /\ trade'[d] = [run |-> run, action |-> action, status |-> "submitting",
                      accepted |-> FALSE]
      /\ trade'[d] \in AgentTrade
      /\ \A other \in Trade \ {d} : trade'[other] = trade[other]
  BY <1>1 DEF TradeTyped, AgentTrade
<1>5. trade'[d] # Absent /\ trade'[d].status = "submitting"
  <2>1. trade'[d] # Absent BY <1>4, RowsAreRows
  <2>2. trade'[d].status = "submitting" BY <1>4
  <2> QED BY <2>1, <2>2
<1>6. /\ operating' \in Operation /\ operating' # Absent /\ operating'.trade = d
      /\ operating'.stage = "submitted" /\ operating'.order = Absent
      /\ operating'.accepted = FALSE
  BY <1>2, RowsAreRows DEF Operation
<1>7. /\ \A e : OrdersMadeBy(e)' = OrdersMadeBy(e)
      /\ OneOrderEach' /\ ActiveNotCancelled' /\ RaisedOrdered'
  BY <1>2, <1>3, OrdersKept
<1>8. \A o \in Order : order[o] # Absent => order[o].madeBy \in Trade \ {d}
  BY <1>2, MakersAreTrades DEF MakersPlace
<1>9. OrdersMadeBy(d) = {} BY <1>8 DEF OrdersMadeBy
<1>10. TradeTyped' BY <1>1, <1>2, <1>4, <1>6 DEF TradeTyped
<1>11. HeldTrade' /\ UnusedUnharmed'
  BY <1>2, <1>3, <1>4, <1>5, <1>6 DEF HeldTrade, UnusedUnharmed
<1>12. HeldAnswer' BY <1>6, <1>7, <1>9 DEF HeldAnswer
<1>13. MakersPlace' BY <1>2, <1>4, <1>8 DEF MakersPlace
<1>14. NothingLeftSubmitting'
  BY <1>2, <1>3, <1>4, <1>6 DEF NothingLeftSubmitting, UnderWay
<1>15. SettledAgreesWithAccount' BY <1>2, <1>4, <1>5, <1>7 DEF SettledAgreesWithAccount
<1>16. IndexedOrDue' BY <1>2, <1>4, <1>8 DEF IndexedOrDue, IndexDue, AtIndex
<1>17. IndexSound' BY <1>2 DEF IndexSound
<1> QED BY <1>7, <1>10, <1>11, <1>12, <1>13, <1>14, <1>15, <1>16, <1>17

(* The account answers the call it holds, and does no more to the tables. *)
LEMMA AnsweredKeeps ==
    ASSUME RowsInv, operating # Absent, operating.stage # "settled",
           NEW stage \in {"emitting", "answered"}, NEW accepted \in BOOLEAN,
           NEW o \in Order \cup {Absent}, Answered(stage, accepted, o),
           UNCHANGED <<trade, running, lapse>>
    PROVE  /\ operating' \in Operation /\ operating' # Absent
           /\ operating'.trade = operating.trade /\ operating'.stage = stage
           /\ operating'.accepted = accepted /\ operating'.order = o
           /\ HeldTrade' /\ NothingLeftSubmitting' /\ UnusedUnharmed'
<1> USE DEF RowsInv
<1>1. operating \in Operation BY DEF TradeTyped
<1>2. /\ operating' \in Operation
      /\ operating'.trade = operating.trade /\ operating'.stage = stage
      /\ operating'.accepted = accepted /\ operating'.order = o
  BY <1>1 DEF Answered, Operation
<1>3. operating' # Absent BY <1>2, RowsAreRows
<1>4. HeldTrade' BY <1>2 DEF HeldTrade
<1>5. NothingLeftSubmitting' BY <1>2, <1>3 DEF NothingLeftSubmitting, UnderWay
<1>6. UnusedUnharmed' BY DEF UnusedUnharmed
<1> QED BY <1>2, <1>3, <1>4, <1>5, <1>6

(* Until its entry is the next to be written an order lacks it for other reasons. *)
LEMMA DueBeforeSettled ==
    ASSUME RowsInv, ~ AtIndex, NEW o \in Order, order[o] # Absent, index[o] = Absent,
           UNCHANGED <<trade, lapse>>, order'[o].madeBy = order[o].madeBy
    PROVE  IndexDue(o)'
  BY DEF RowsInv, IndexedOrDue, IndexDue

LEMMA AccountRefusesKeeps ==
    ASSUME RowsInv, AccountRefuses
    PROVE  RowsInv'
<1> USE DEF RowsInv
<1>1. /\ operating # Absent /\ operating.stage = "submitted"
      /\ Answered("answered", FALSE, Absent)
      /\ UNCHANGED <<vars, trade, order, index, lapse>>
  BY DEF AccountRefuses, Called
<1>2. running' = running /\ raised' = raised BY <1>1 DEF vars
<1>3. /\ operating' \in Operation /\ operating' # Absent
      /\ operating'.trade = operating.trade /\ operating'.stage = "answered"
      /\ operating'.accepted = FALSE /\ operating'.order = Absent
      /\ HeldTrade' /\ NothingLeftSubmitting' /\ UnusedUnharmed'
  BY <1>1, <1>2, AnsweredKeeps
<1>4. /\ \A e : OrdersMadeBy(e)' = OrdersMadeBy(e)
      /\ OneOrderEach' /\ ActiveNotCancelled' /\ RaisedOrdered'
  BY <1>1, <1>2, OrdersKept
<1>5. TradeTyped' BY <1>1, <1>3 DEF TradeTyped
<1>6. HeldAnswer' BY <1>1, <1>3, <1>4 DEF HeldAnswer
<1>7. MakersPlace' /\ IndexSound' BY <1>1 DEF MakersPlace, IndexSound
<1>8. SettledAgreesWithAccount' BY <1>1, <1>4 DEF SettledAgreesWithAccount
<1>9. IndexedOrDue' BY <1>1, DueBeforeSettled DEF IndexedOrDue, AtIndex
<1> QED BY <1>3, <1>4, <1>5, <1>6, <1>7, <1>8, <1>9

LEMMA AccountPlacesKeeps ==
    ASSUME RowsInv, NEW o \in Order, AccountPlaces(o)
    PROVE  RowsInv'
<1> USE DEF RowsInv
<1>0. PICK d \in Trade : operating.trade = d
  BY DEF AccountPlaces, Called, TradeTyped, Operation
<1>1. /\ operating # Absent /\ operating.stage = "submitted"
      /\ trade[d].action = "place" /\ order[o] = Absent
      /\ UNCHANGED <<trade, index, lapse>>
  BY <1>0 DEF AccountPlaces, Called
<1>2. PICK status \in {"active", "filled"} :
        /\ order' = [order EXCEPT ![o] = [madeBy |-> d, cancelledBy |-> Absent,
                                          status |-> status]]
        /\ \/ status = "active" /\ Answered("answered", TRUE, o) /\ UNCHANGED vars
           \/ status = "filled" /\ Answered("emitting", TRUE, o) /\ RaiseTrigger(o)
  BY <1>0 DEF AccountPlaces
<1>3. running' = running /\ raised' \subseteq raised \cup {o}
  BY <1>2 DEF vars, RaiseTrigger
<1>4. PICK stage \in {"answered", "emitting"} : Answered(stage, TRUE, o)
  BY <1>2
<1>5. /\ operating' \in Operation /\ operating' # Absent
      /\ operating'.trade = d /\ operating'.stage = stage
      /\ operating'.accepted = TRUE /\ operating'.order = o
      /\ HeldTrade' /\ NothingLeftSubmitting' /\ UnusedUnharmed'
  BY <1>0, <1>1, <1>3, <1>4, AnsweredKeeps
<1>6. /\ order'[o] = [madeBy |-> d, cancelledBy |-> Absent, status |-> status]
      /\ order'[o] \in AccountOrder
      /\ \A other \in Order \ {o} : order'[other] = order[other]
  BY <1>2 DEF TradeTyped, AccountOrder
<1>7. order'[o] # Absent /\ order'[o].madeBy = d /\ order'[o].cancelledBy = Absent
  <2>1. order'[o] # Absent BY <1>6, RowsAreRows
  <2>2. order'[o].madeBy = d /\ order'[o].cancelledBy = Absent BY <1>6
  <2> QED BY <2>1, <2>2
<1>8. OrdersMadeBy(d)' # {} BY <1>7 DEF OrdersMadeBy
<1>9. \A e \in Trade \ {d} : OrdersMadeBy(e)' = OrdersMadeBy(e)
  BY <1>1, <1>6, <1>7 DEF OrdersMadeBy
<1>10. trade[d] # Absent /\ trade[d].status = "submitting"
  BY <1>0, <1>1 DEF HeldTrade
<1>11. \A p \in Order : order[p] # Absent => order[p].madeBy # d
  BY <1>0, <1>1 DEF HeldAnswer, OrdersMadeBy
<1>12. TradeTyped' BY <1>1, <1>2, <1>5, <1>6 DEF TradeTyped
<1>13. HeldAnswer' BY <1>5, <1>7, <1>8, RowsAreRows DEF HeldAnswer
<1>14. MakersPlace' BY <1>1, <1>6, <1>7, <1>10 DEF MakersPlace
<1>15. OneOrderEach' BY <1>6, <1>7, <1>11 DEF OneOrderEach
<1>16. SettledAgreesWithAccount' BY <1>1, <1>9, <1>10 DEF SettledAgreesWithAccount
<1>17. ActiveNotCancelled' BY <1>6, <1>7 DEF ActiveNotCancelled
<1>18. IndexedOrDue'
  <2> SUFFICES ASSUME NEW p \in Order, order'[p] # Absent, index'[p] = Absent
               PROVE  IndexDue(p)'
    BY DEF IndexedOrDue
  <2>1. CASE p = o BY <1>1, <1>7, <1>10, <2>1 DEF IndexDue
  <2>2. CASE p # o BY <1>1, <1>6, <2>2, DueBeforeSettled DEF AtIndex
  <2> QED BY <2>1, <2>2
<1>19. IndexSound' BY <1>1, <1>6 DEF IndexSound
<1>20. RaisedOrdered' BY <1>3, <1>6, <1>7 DEF RaisedOrdered
<1> QED BY <1>5, <1>12, <1>13, <1>14, <1>15, <1>16, <1>17, <1>18, <1>19, <1>20

LEMMA AccountEmitsKeeps ==
    ASSUME RowsInv, AccountEmits
    PROVE  RowsInv'
<1> USE DEF RowsInv
<1>1. /\ operating # Absent /\ operating.stage = "emitting"
      /\ Answered("answered", TRUE, operating.order)
      /\ UNCHANGED <<trade, order, index, lapse>>
  BY DEF AccountEmits
<1>2. running' = running /\ raised' = raised BY DEF AccountEmits, EmitTriggered
<1>3. operating.order \in Order \cup {Absent} /\ operating.accepted
  BY <1>1 DEF TradeTyped, Operation, HeldAnswer
<1>4. /\ operating' \in Operation /\ operating' # Absent
      /\ operating'.trade = operating.trade /\ operating'.stage = "answered"
      /\ operating'.accepted = TRUE /\ operating'.order = operating.order
      /\ HeldTrade' /\ NothingLeftSubmitting' /\ UnusedUnharmed'
  BY <1>1, <1>2, <1>3, AnsweredKeeps
<1>5. /\ \A e : OrdersMadeBy(e)' = OrdersMadeBy(e)
      /\ OneOrderEach' /\ ActiveNotCancelled' /\ RaisedOrdered'
  BY <1>1, <1>2, OrdersKept
<1>6. TradeTyped' BY <1>1, <1>4 DEF TradeTyped
<1>7. HeldAnswer' BY <1>1, <1>3, <1>4, <1>5 DEF HeldAnswer
<1>8. MakersPlace' /\ IndexSound' BY <1>1 DEF MakersPlace, IndexSound
<1>9. SettledAgreesWithAccount' BY <1>1, <1>5 DEF SettledAgreesWithAccount
<1>10. IndexedOrDue' BY <1>1, DueBeforeSettled DEF IndexedOrDue, AtIndex
<1> QED BY <1>4, <1>5, <1>6, <1>7, <1>8, <1>9, <1>10

LEMMA AccountCancelsKeeps ==
    ASSUME RowsInv, NEW o \in Order, AccountCancels(o)
    PROVE  RowsInv'
<1> USE DEF RowsInv
<1>0. PICK d \in Trade : operating.trade = d
  BY DEF AccountCancels, Called, TradeTyped, Operation
<1>1. /\ operating # Absent /\ operating.stage = "submitted"
      /\ trade[d].action = "cancel" /\ order[o] # Absent /\ order[o].status = "active"
      /\ order' = [order EXCEPT ![o] = [@ EXCEPT !.status = "cancelled",
                                                 !.cancelledBy = d]]
      /\ Answered("answered", TRUE, o)
      /\ UNCHANGED <<vars, trade, index, lapse>>
  BY <1>0 DEF AccountCancels, Called
<1>2. running' = running /\ raised' = raised BY <1>1 DEF vars
<1>3. /\ operating' \in Operation /\ operating' # Absent
      /\ operating'.trade = d /\ operating'.stage = "answered"
      /\ operating'.accepted = TRUE /\ operating'.order = o
      /\ HeldTrade' /\ NothingLeftSubmitting' /\ UnusedUnharmed'
  BY <1>0, <1>1, <1>2, AnsweredKeeps
<1>4. order[o] \in AccountOrder BY <1>1 DEF TradeTyped
<1>5. /\ order'[o] \in AccountOrder /\ order'[o].madeBy = order[o].madeBy
      /\ order'[o].cancelledBy = d /\ order'[o].status = "cancelled"
      /\ \A other \in Order \ {o} : order'[other] = order[other]
  BY <1>1, <1>4 DEF TradeTyped, AccountOrder
<1>6. order'[o] # Absent BY <1>5, RowsAreRows
<1>7. order[o].cancelledBy = Absent BY <1>1 DEF ActiveNotCancelled
<1>8. \A p \in Order : /\ order'[p] # Absent <=> order[p] # Absent
                       /\ order'[p].madeBy = order[p].madeBy
  BY <1>1, <1>5, <1>6
<1>9. \A e : OrdersMadeBy(e)' = OrdersMadeBy(e) BY <1>8 DEF OrdersMadeBy
<1>10. TradeTyped' BY <1>1, <1>3, <1>5 DEF TradeTyped
<1>11. HeldAnswer'
  <2>1. trade'[d].action # "place" BY <1>1
  <2> QED BY <1>3, <1>5, <1>6, <2>1, RowsAreRows DEF HeldAnswer
<1>12. MakersPlace' /\ OneOrderEach' BY <1>1, <1>8 DEF MakersPlace, OneOrderEach
<1>13. SettledAgreesWithAccount' BY <1>1, <1>9 DEF SettledAgreesWithAccount
<1>14. ActiveNotCancelled' BY <1>5 DEF ActiveNotCancelled
<1>15. IndexedOrDue' BY <1>1, <1>8, DueBeforeSettled DEF IndexedOrDue, AtIndex
<1>16. IndexSound' BY <1>1, <1>5, <1>6, <1>7, RowsAreRows DEF IndexSound
<1>17. RaisedOrdered' BY <1>2, <1>8 DEF RaisedOrdered
<1> QED BY <1>3, <1>10, <1>11, <1>12, <1>13, <1>14, <1>15, <1>16, <1>17

(* An accepted placement is settled with its entry as the next thing to write. *)
LEMMA DueAfterSettling ==
    ASSUME RowsInv, NEW d \in Trade, NEW accepted \in BOOLEAN, NEW found \in Order \cup {Absent},
           operating' = AfterSettling(d, accepted, found),
           trade[d] # Absent,
           trade[d].action = "place" => (OrdersMadeBy(d) # {} => accepted),
           accepted => found # Absent,
           accepted /\ trade[d].action = "place" =>
             order[found] # Absent /\ order[found].madeBy = d,
           ~ AtIndex,
           \A other \in Trade \ {d} :
             trade'[other] = trade[other] /\ lapse'[other] = lapse[other],
           UNCHANGED <<order, index>>
    PROVE  IndexedOrDue'
<1> USE DEF RowsInv
<1> SUFFICES ASSUME NEW o \in Order, order[o] # Absent, index[o] = Absent
             PROVE  IndexDue(o)'
  BY DEF IndexedOrDue
<1>1. order[o].madeBy \in Trade BY MakersAreTrades
<1>2. CASE order[o].madeBy # d
  BY <1>1, <1>2 DEF IndexedOrDue, IndexDue
<1>3. CASE order[o].madeBy = d
  <2>1. trade[d].action = "place" BY <1>3 DEF MakersPlace
  <2>2. OrdersMadeBy(d) # {} BY <1>3 DEF OrdersMadeBy
  <2>3. accepted /\ found \in Order /\ order[found] # Absent /\ order[found].madeBy = d
    BY <2>1, <2>2
  <2>4. found = o BY <1>3, <2>3 DEF OneOrderEach
  <2>5. operating' = [trade |-> d, stage |-> "settled", accepted |-> TRUE, order |-> o]
    BY <2>3, <2>4 DEF AfterSettling
  <2>6. operating' \in Operation /\ operating'.trade = d /\ operating'.stage = "settled"
        /\ operating'.order = o
    BY <2>5 DEF Operation
  <2>7. operating' # Absent BY <2>6, RowsAreRows
  <2> QED BY <1>3, <2>6, <2>7 DEF IndexDue, AtIndex
<1> QED BY <1>2, <1>3

(* What the handler, or the recovery, holds of d once it has settled it. *)
LEMMA HeldAfterSettling ==
    ASSUME NEW d \in Trade, NEW accepted \in BOOLEAN, NEW found \in Order \cup {Absent},
           operating' = AfterSettling(d, accepted, found),
           trade'[d] # Absent, trade'[d].status = "settled", lapse'[d] = "none",
           found # Absent =>
             /\ order'[found] # Absent
             /\ d \in {order'[found].madeBy, order'[found].cancelledBy}
             /\ trade'[d].action = "place" => d = order'[found].madeBy
    PROVE  operating' \in Operation \cup {Absent} /\ HeldTrade' /\ HeldAnswer'
<1>1. CASE accepted /\ found # Absent
  <2>1. operating' = [trade |-> d, stage |-> "settled", accepted |-> TRUE, order |-> found]
    BY <1>1 DEF AfterSettling
  <2>2. /\ operating' \in Operation
        /\ operating'.trade = d /\ operating'.stage = "settled"
        /\ operating'.accepted = TRUE /\ operating'.order = found
    BY <2>1 DEF Operation
  <2>3. HeldTrade' BY <2>2 DEF HeldTrade
  <2>4. HeldAnswer' BY <1>1, <2>2 DEF HeldAnswer
  <2> QED BY <2>2, <2>3, <2>4
<1>2. CASE ~ (accepted /\ found # Absent)
  <2>1. operating' = Absent BY <1>2 DEF AfterSettling
  <2> QED BY <2>1 DEF HeldTrade, HeldAnswer
<1> QED BY <1>1, <1>2

LEMMA SettleTradeKeeps ==
    ASSUME RowsInv, SettleTrade
    PROVE  RowsInv'
<1> USE DEF RowsInv
<1> DEFINE d == operating.trade
           found == operating.order
<1>1. /\ operating # Absent /\ operating.stage = "answered"
      /\ UNCHANGED <<vars, order, index>>
  BY DEF SettleTrade
<1>2. running' = running /\ raised' = raised BY <1>1 DEF vars
<1>3. /\ operating \in Operation /\ d \in Trade /\ operating.accepted \in BOOLEAN
      /\ found \in Order \cup {Absent}
  BY <1>1 DEF TradeTyped, Operation
<1>4. trade[d] # Absent /\ trade[d].status = "submitting" /\ lapse[d] = "none"
  BY <1>1 DEF HeldTrade
<1>5. trade[d].action = "place" => (operating.accepted <=> OrdersMadeBy(d) # {})
  BY <1>1 DEF HeldAnswer
<1>6. /\ operating.accepted => found # Absent
      /\ found # Absent => /\ order[found] # Absent
                           /\ d \in {order[found].madeBy, order[found].cancelledBy}
                           /\ trade[d].action = "place" => d = order[found].madeBy
  BY <1>1 DEF HeldAnswer
<1>7. ~ AtIndex BY <1>1 DEF AtIndex
<1>8. \A e \in Trade \ {d} : ~ UnderWay(e) BY DEF UnderWay
<1> HIDE DEF d, found
<1>9. /\ \A e : OrdersMadeBy(e)' = OrdersMadeBy(e)
      /\ OneOrderEach' /\ ActiveNotCancelled' /\ RaisedOrdered'
  BY <1>1, <1>2, OrdersKept
<1>10. IndexSound' BY <1>1 DEF IndexSound
<1>11. CASE /\ trade' = Settled(d, operating.accepted)
            /\ operating' = AfterSettling(d, operating.accepted, found)
            /\ UNCHANGED lapse
  <2>1. /\ trade' \in [Trade -> AgentTrade \cup {Absent}]
        /\ trade'[d] # Absent /\ trade'[d].status = "settled"
        /\ trade'[d].accepted = operating.accepted /\ trade'[d].action = trade[d].action
        /\ \A other \in Trade \ {d} : trade'[other] = trade[other]
    BY <1>3, <1>4, <1>11, SettledRows
  <2>2. operating' \in Operation \cup {Absent} /\ HeldTrade' /\ HeldAnswer'
    BY <1>1, <1>3, <1>4, <1>6, <1>11, <2>1, HeldAfterSettling
  <2>3. TradeTyped' BY <1>1, <1>11, <2>1, <2>2 DEF TradeTyped
  <2>4. UnusedUnharmed' BY <1>4, <1>11, <2>1 DEF UnusedUnharmed
  <2>5. MakersPlace' BY <1>1, <2>1, MakersAreTrades DEF MakersPlace
  <2>6. NothingLeftSubmitting' BY <1>2, <1>8, <1>11, <2>1 DEF NothingLeftSubmitting
  <2>7. SettledAgreesWithAccount' BY <1>5, <1>9, <1>11, <2>1 DEF SettledAgreesWithAccount
  <2>8. IndexedOrDue'
    BY <1>1, <1>3, <1>4, <1>5, <1>6, <1>7, <1>11, <2>1, DueAfterSettling
  <2> QED BY <1>9, <1>10, <2>2, <2>3, <2>4, <2>5, <2>6, <2>7, <2>8
<1>12. CASE /\ lapse' = [lapse EXCEPT ![d] = "unsettled"]
            /\ operating' = Absent
            /\ UNCHANGED trade
  <2>1. /\ lapse' \in [Trade -> Lapse] /\ lapse'[d] = "unsettled"
        /\ \A other \in Trade \ {d} : lapse'[other] = lapse[other]
    BY <1>3, <1>12, LapsedRows DEF Lapse
  <2>2. TradeTyped' BY <1>1, <1>12, <2>1 DEF TradeTyped
  <2>3. HeldTrade' /\ HeldAnswer' BY <1>12 DEF HeldTrade, HeldAnswer
  <2>4. UnusedUnharmed' BY <1>4, <1>12, <2>1 DEF UnusedUnharmed
  <2>5. MakersPlace' BY <1>1, <1>12 DEF MakersPlace
  <2>6. NothingLeftSubmitting' BY <1>2, <1>8, <1>12, <2>1 DEF NothingLeftSubmitting
  <2>7. SettledAgreesWithAccount'
    BY <1>4, <1>9, <1>12, <2>1 DEF SettledAgreesWithAccount
  <2>8. IndexedOrDue'
    BY <1>1, <1>4, <1>7, <1>12, <2>1, MakersAreTrades DEF IndexedOrDue, IndexDue
  <2> QED BY <1>9, <1>10, <2>2, <2>3, <2>4, <2>5, <2>6, <2>7, <2>8
<1> QED BY <1>11, <1>12 DEF SettleTrade, d, found

(* When the call at the index ends without its entry, its trade says so. *)
LEMMA EntryLost ==
    ASSUME RowsInv, AtIndex, lapse' = IndexLost(operating.trade), operating' = Absent,
           UNCHANGED <<trade, order, index>>
    PROVE  /\ TradeTyped' /\ HeldTrade' /\ HeldAnswer' /\ UnusedUnharmed'
           /\ SettledAgreesWithAccount' /\ IndexedOrDue'
           /\ \A d \in Trade : lapse[d] = "unsettled" /\ d # operating.trade =>
                lapse'[d] = "unsettled"
<1> USE DEF RowsInv
<1> DEFINE d == operating.trade
<1>1. operating # Absent /\ operating.stage = "settled" BY DEF AtIndex
<1>2. d \in Trade BY <1>1 DEF TradeTyped, Operation
<1>3. trade[d] # Absent /\ lapse[d] = "none" BY <1>1 DEF HeldTrade
<1>4. /\ lapse' \in [Trade -> Lapse] /\ lapse'[d] = "unindexed"
      /\ \A other \in Trade \ {d} : lapse'[other] = lapse[other]
  BY <1>2, LapsedRows DEF IndexLost, Lapse
<1>5. IndexedOrDue'
  <2> SUFFICES ASSUME NEW o \in Order, order[o] # Absent, index[o] = Absent
               PROVE  IndexDue(o)'
    BY DEF IndexedOrDue
  <2>1. order[o].madeBy \in Trade BY MakersAreTrades
  <2>2. IndexDue(o) BY DEF IndexedOrDue
  <2> QED BY <1>4, <2>1, <2>2 DEF IndexDue
<1> HIDE DEF d
<1>6. TradeTyped' BY <1>4 DEF TradeTyped
<1>7. HeldTrade' /\ HeldAnswer' BY DEF HeldTrade, HeldAnswer
<1>8. UnusedUnharmed' BY <1>3, <1>4 DEF UnusedUnharmed
<1>9. \A e : OrdersMadeBy(e)' = OrdersMadeBy(e) BY DEF OrdersMadeBy
<1>10. SettledAgreesWithAccount' BY <1>3, <1>4, <1>9 DEF SettledAgreesWithAccount
<1> QED BY <1>4, <1>5, <1>6, <1>7, <1>8, <1>10 DEF d

LEMMA UpsertKeeps ==
    ASSUME RowsInv, UpsertOrderRunIndex
    PROVE  RowsInv'
<1> USE DEF RowsInv
<1> DEFINE d == operating.trade
           o == operating.order
<1>1. /\ operating # Absent /\ operating.stage = "settled" /\ AtIndex
      /\ operating' = Absent
      /\ UNCHANGED <<vars, trade, order>>
  BY DEF UpsertOrderRunIndex, AtIndex
<1>2. running' = running /\ raised' = raised BY <1>1 DEF vars
<1>3. /\ d \in Trade /\ o \in Order /\ order[o] # Absent
      /\ d \in {order[o].madeBy, order[o].cancelledBy}
  BY <1>1 DEF TradeTyped, HeldAnswer, Operation
<1>4. d # Absent BY <1>3, RowsAreRows
<1>5. trade[d].status = "settled" BY <1>1 DEF HeldTrade
<1>6. /\ \A e : OrdersMadeBy(e)' = OrdersMadeBy(e)
      /\ OneOrderEach' /\ ActiveNotCancelled' /\ RaisedOrdered'
  BY <1>1, <1>2, OrdersKept
<1>7. MakersPlace' BY <1>1 DEF MakersPlace
<1>8. CASE index' = [index EXCEPT ![o] = d] /\ UNCHANGED lapse
  <2>1. /\ index' \in [Order -> Trade \cup {Absent}] /\ index'[o] = d
        /\ \A other \in Order \ {o} : index'[other] = index[other]
    BY <1>3, <1>8 DEF TradeTyped
  <2>2. IndexedOrDue'
    BY <1>1, <1>4, <1>8, <2>1 DEF IndexedOrDue, IndexDue
  <2>3. IndexSound' BY <1>1, <1>3, <2>1 DEF IndexSound
  <2> HIDE DEF d, o
  <2>4. TradeTyped' BY <1>1, <1>8, <2>1 DEF TradeTyped
  <2>5. HeldTrade' /\ HeldAnswer' BY <1>1 DEF HeldTrade, HeldAnswer
  <2>6. UnusedUnharmed' BY <1>1, <1>8 DEF UnusedUnharmed
  <2>7. NothingLeftSubmitting'
    BY <1>1, <1>2, <1>5, <1>8 DEF NothingLeftSubmitting, UnderWay, d
  <2>8. SettledAgreesWithAccount' BY <1>1, <1>6, <1>8 DEF SettledAgreesWithAccount
  <2> QED BY <1>6, <1>7, <2>2, <2>3, <2>4, <2>5, <2>6, <2>7, <2>8
<1>9. CASE lapse' = IndexLost(d) /\ UNCHANGED index
  <2>1. /\ TradeTyped' /\ HeldTrade' /\ HeldAnswer' /\ UnusedUnharmed'
        /\ SettledAgreesWithAccount' /\ IndexedOrDue'
        /\ \A e \in Trade : lapse[e] = "unsettled" /\ e # d => lapse'[e] = "unsettled"
    BY <1>1, <1>9, EntryLost
  <2>2. NothingLeftSubmitting'
    BY <1>1, <1>2, <1>5, <2>1 DEF NothingLeftSubmitting, UnderWay
  <2>3. IndexSound' BY <1>1, <1>9 DEF IndexSound
  <2> QED BY <1>6, <1>7, <2>1, <2>2, <2>3
<1> QED BY <1>8, <1>9 DEF UpsertOrderRunIndex
-----------------------------------------------------------------------------
(* The evaluator, the routes, a crash and the recovery. *)

LEMMA EvaluatorFillsKeeps ==
    ASSUME RowsInv, NEW o \in Order, EvaluatorFills(o)
    PROVE  RowsInv'
<1> USE DEF RowsInv
<1>1. /\ order[o] # Absent /\ order[o].status = "active"
      /\ order' = [order EXCEPT ![o] = [@ EXCEPT !.status = "filled"]]
      /\ UNCHANGED <<trade, index, operating, lapse>>
  BY DEF EvaluatorFills
<1>2. running' = running /\ raised' = raised \cup {o} BY DEF EvaluatorFills, RaiseTrigger
<1>3. order[o] \in AccountOrder BY <1>1 DEF TradeTyped
<1>4. /\ order'[o] \in AccountOrder /\ order'[o].madeBy = order[o].madeBy
      /\ order'[o].cancelledBy = order[o].cancelledBy /\ order'[o].status = "filled"
      /\ \A other \in Order \ {o} : order'[other] = order[other]
  BY <1>1, <1>3 DEF TradeTyped, AccountOrder
<1>5. order'[o] # Absent BY <1>4, RowsAreRows
<1>6. \A p \in Order : /\ order'[p] # Absent <=> order[p] # Absent
                       /\ order'[p].madeBy = order[p].madeBy
                       /\ order'[p].cancelledBy = order[p].cancelledBy
  BY <1>1, <1>4, <1>5
<1>7. \A e : OrdersMadeBy(e)' = OrdersMadeBy(e) BY <1>6 DEF OrdersMadeBy
<1>8. TradeTyped' BY <1>1, <1>4 DEF TradeTyped
<1>9. HeldTrade' /\ UnusedUnharmed' BY <1>1, <1>2 DEF HeldTrade, UnusedUnharmed
<1>10. HeldAnswer'
  <2>1. operating # Absent => operating.order \in Order \cup {Absent}
    BY DEF TradeTyped, Operation
  <2> QED BY <1>1, <1>6, <1>7, <2>1 DEF HeldAnswer
<1>11. MakersPlace' /\ OneOrderEach' BY <1>1, <1>6 DEF MakersPlace, OneOrderEach
<1>12. NothingLeftSubmitting' BY <1>1, <1>2 DEF NothingLeftSubmitting, UnderWay
<1>13. SettledAgreesWithAccount' BY <1>1, <1>7 DEF SettledAgreesWithAccount
<1>14. ActiveNotCancelled' BY <1>4 DEF ActiveNotCancelled
<1>15. IndexedOrDue' BY <1>1, <1>6 DEF IndexedOrDue, IndexDue, AtIndex
<1>16. IndexSound' BY <1>1, <1>6 DEF IndexSound
<1>17. RaisedOrdered' BY <1>1, <1>2, <1>6 DEF RaisedOrdered
<1> QED BY <1>8, <1>9, <1>10, <1>11, <1>12, <1>13, <1>14, <1>15, <1>16, <1>17

(* Steps that leave the tables of trades and orders alone. *)
LEMMA QuietKeeps ==
    ASSUME RowsInv, UNCHANGED <<trade, order, index, operating, lapse, running, raised>>
    PROVE  RowsInv'
<1> USE DEF RowsInv
<1>1. /\ \A e : OrdersMadeBy(e)' = OrdersMadeBy(e)
      /\ OneOrderEach' /\ ActiveNotCancelled' /\ RaisedOrdered'
  BY OrdersKept
<1>2. TradeTyped' BY DEF TradeTyped
<1>3. HeldTrade' /\ UnusedUnharmed' BY DEF HeldTrade, UnusedUnharmed
<1>4. HeldAnswer' BY <1>1 DEF HeldAnswer
<1>5. MakersPlace' /\ IndexSound' BY DEF MakersPlace, IndexSound
<1>6. NothingLeftSubmitting' BY DEF NothingLeftSubmitting, UnderWay
<1>7. SettledAgreesWithAccount' BY <1>1 DEF SettledAgreesWithAccount
<1>8. IndexedOrDue' BY DEF IndexedOrDue, IndexDue, AtIndex
<1> QED BY <1>1, <1>2, <1>3, <1>4, <1>5, <1>6, <1>7, <1>8

(* A crash forgets the holder of the lock: its trade stays submitting while   *)
(* the process is down, or has lost the entry of its order.                    *)
LEMMA CrashWithTradesKeeps ==
    ASSUME RowsInv, CrashWithTrades
    PROVE  RowsInv'
<1> USE DEF RowsInv
<1>1. operating' = Absent /\ UNCHANGED <<trade, order, index>>
  BY DEF CrashWithTrades
<1>2. ~ running' /\ raised' = raised BY DEF CrashWithTrades, Crash
<1>3. /\ \A e : OrdersMadeBy(e)' = OrdersMadeBy(e)
      /\ OneOrderEach' /\ ActiveNotCancelled' /\ RaisedOrdered'
  BY <1>1, <1>2, OrdersKept
<1>4. NothingLeftSubmitting' BY <1>2 DEF NothingLeftSubmitting
<1>5. MakersPlace' /\ IndexSound' BY <1>1 DEF MakersPlace, IndexSound
<1>6. CASE AtIndex
  <2>1. lapse' = IndexLost(operating.trade) BY <1>6 DEF CrashWithTrades
  <2>2. /\ TradeTyped' /\ HeldTrade' /\ HeldAnswer' /\ UnusedUnharmed'
        /\ SettledAgreesWithAccount' /\ IndexedOrDue'
    BY <1>1, <1>6, <2>1, EntryLost
  <2> QED BY <1>3, <1>4, <1>5, <2>2
<1>7. CASE ~ AtIndex
  <2>1. lapse' = lapse BY <1>7 DEF CrashWithTrades
  <2>2. TradeTyped' BY <1>1, <2>1 DEF TradeTyped
  <2>3. HeldTrade' /\ HeldAnswer' BY <1>1 DEF HeldTrade, HeldAnswer
  <2>4. UnusedUnharmed' BY <1>1, <2>1 DEF UnusedUnharmed
  <2>5. SettledAgreesWithAccount' BY <1>1, <1>3, <2>1 DEF SettledAgreesWithAccount
  <2>6. IndexedOrDue' BY <1>1, <1>7, <2>1 DEF IndexedOrDue, IndexDue
  <2> QED BY <1>3, <1>4, <1>5, <2>2, <2>3, <2>4, <2>5, <2>6
<1> QED BY <1>6, <1>7

LEMMA ReconcileKeeps ==
    ASSUME RowsInv, NEW d \in Trade, Reconcile(d)
    PROVE  RowsInv'
<1> USE DEF RowsInv
<1>1. /\ ~ running /\ operating = Absent
      /\ trade[d] # Absent /\ trade[d].status = "submitting"
      /\ UNCHANGED <<vars, order, index>>
  BY DEF Reconcile, SubmittingTrades
<1>2. ~ running' /\ raised' = raised BY <1>1 DEF vars
<1>3. /\ \A e : OrdersMadeBy(e)' = OrdersMadeBy(e)
      /\ OneOrderEach' /\ ActiveNotCancelled' /\ RaisedOrdered'
  BY <1>1, <1>2, OrdersKept
<1>4. NothingLeftSubmitting' BY <1>2 DEF NothingLeftSubmitting
<1>5. IndexSound' BY <1>1 DEF IndexSound
<1>6. ~ AtIndex BY <1>1 DEF AtIndex
<1>7. ASSUME NEW o \in ReconciledOrders(d), trade' = Settled(d, o # Absent),
             operating' = AfterSettling(d, o # Absent, o),
             lapse' = [lapse EXCEPT ![d] = "none"]
      PROVE  RowsInv'
  <2>1. \/ o = Absent /\ OrdersMadeBy(d) = {}
        \/ o \in Order /\ o # Absent /\ o \in OrdersMadeBy(d)
    BY RowsAreRows DEF ReconciledOrders, OrdersMadeBy
  <2>2. o # Absent => order[o] # Absent /\ order[o].madeBy = d
    BY <2>1 DEF OrdersMadeBy
  <2> DEFINE accepted == o # Absent
  <2>3. accepted \in BOOLEAN /\ o \in Order \cup {Absent} BY <2>1
  <2>4. /\ trade' \in [Trade -> AgentTrade \cup {Absent}]
        /\ trade'[d] # Absent /\ trade'[d].status = "settled"
        /\ trade'[d].accepted = accepted /\ trade'[d].action = trade[d].action
        /\ \A other \in Trade \ {d} : trade'[other] = trade[other]
    BY <1>1, <1>7, <2>3, SettledRows
  <2>5. /\ lapse' \in [Trade -> Lapse] /\ lapse'[d] = "none"
        /\ \A other \in Trade \ {d} : lapse'[other] = lapse[other]
    BY <1>7, LapsedRows DEF Lapse
  <2>6. operating' = AfterSettling(d, accepted, o) BY <1>7
  <2>7. (OrdersMadeBy(d) # {} => accepted) /\ (accepted => o # Absent) BY <2>1
  <2> HIDE DEF accepted
  <2>8. operating' \in Operation \cup {Absent} /\ HeldTrade' /\ HeldAnswer'
    BY <1>1, <2>2, <2>3, <2>4, <2>5, <2>6, HeldAfterSettling
  <2>9. TradeTyped' BY <1>1, <2>4, <2>5, <2>8 DEF TradeTyped
  <2>10. UnusedUnharmed' BY <2>4, <2>5 DEF UnusedUnharmed
  <2>11. MakersPlace' BY <1>1, <2>4, MakersAreTrades DEF MakersPlace
  <2>12. SettledAgreesWithAccount'
    BY <1>3, <2>1, <2>4, <2>5 DEF SettledAgreesWithAccount, accepted
  <2>13. IndexedOrDue'
    BY <1>1, <1>6, <2>2, <2>3, <2>4, <2>5, <2>6, <2>7, DueAfterSettling
  <2> QED BY <1>3, <1>4, <1>5, <2>8, <2>9, <2>10, <2>11, <2>12, <2>13
<1>8. CASE /\ trade' = Settled(d, FALSE)
           /\ lapse' = [lapse EXCEPT ![d] = "misread"]
           /\ UNCHANGED operating
  <2>1. /\ trade' \in [Trade -> AgentTrade \cup {Absent}]
        /\ trade'[d] # Absent /\ trade'[d].status = "settled"
        /\ trade'[d].action = trade[d].action
        /\ \A other \in Trade \ {d} : trade'[other] = trade[other]
    BY <1>1, <1>8, SettledRows
  <2>2. /\ lapse' \in [Trade -> Lapse] /\ lapse'[d] = "misread"
        /\ \A other \in Trade \ {d} : lapse'[other] = lapse[other]
    BY <1>8, LapsedRows DEF Lapse
  <2>3. TradeTyped' BY <1>1, <1>8, <2>1, <2>2 DEF TradeTyped
  <2>4. HeldTrade' /\ HeldAnswer' BY <1>1, <1>8 DEF HeldTrade, HeldAnswer
  <2>5. UnusedUnharmed' BY <2>1, <2>2 DEF UnusedUnharmed
  <2>6. MakersPlace' BY <1>1, <2>1, MakersAreTrades DEF MakersPlace
  <2>7. SettledAgreesWithAccount' BY <1>3, <2>1, <2>2 DEF SettledAgreesWithAccount
  <2>8. IndexedOrDue'
    BY <1>1, <1>6, <2>1, <2>2, MakersAreTrades DEF IndexedOrDue, IndexDue
  <2> QED BY <1>3, <1>4, <1>5, <2>3, <2>4, <2>5, <2>6, <2>7, <2>8
<1> QED BY <1>7, <1>8 DEF Reconcile

(* The program starts with what its recovery has done: each trade that it left  *)
(* submitting, or without the entry of its order, says so.                      *)
LEMMA RestartWithTradesKeeps ==
    ASSUME RowsInv, RestartWithTrades
    PROVE  RowsInv'
<1> USE DEF RowsInv
<1>1. operating' = Absent /\ raised' = raised /\ UNCHANGED <<trade, order, index>>
  BY DEF RestartWithTrades, Restart
<1>2. \A d \in Trade :
        lapse'[d] = IF d \in SubmittingTrades THEN "unsettled"
                    ELSE IF AtIndex /\ UnderWay(d) THEN "unindexed"
                    ELSE lapse[d]
  BY DEF RestartWithTrades
<1>3. lapse' \in [Trade -> Lapse]
  BY DEF RestartWithTrades, TradeTyped, Lapse
<1>4. /\ \A e : OrdersMadeBy(e)' = OrdersMadeBy(e)
      /\ OneOrderEach' /\ ActiveNotCancelled' /\ RaisedOrdered'
  BY <1>1, OrdersKept
<1>5. \A d \in Trade : AtIndex /\ UnderWay(d) => trade[d] # Absent /\ lapse[d] = "none"
  BY DEF AtIndex, UnderWay, HeldTrade
<1>6. TradeTyped' BY <1>1, <1>3 DEF TradeTyped
<1>7. HeldTrade' /\ HeldAnswer' BY <1>1 DEF HeldTrade, HeldAnswer
<1>8. UnusedUnharmed' BY <1>1, <1>2, <1>5 DEF UnusedUnharmed, SubmittingTrades
<1>9. MakersPlace' /\ IndexSound' BY <1>1 DEF MakersPlace, IndexSound
<1>10. NothingLeftSubmitting'
  BY <1>1, <1>2 DEF NothingLeftSubmitting, SubmittingTrades
<1>11. SettledAgreesWithAccount'
  BY <1>1, <1>2, <1>4, <1>5 DEF SettledAgreesWithAccount, SubmittingTrades
<1>12. IndexedOrDue'
  <2> SUFFICES ASSUME NEW o \in Order, order[o] # Absent, index[o] = Absent
               PROVE  lapse'[order[o].madeBy] # "none"
    BY <1>1 DEF IndexedOrDue, IndexDue
  <2> DEFINE d == order[o].madeBy
  <2>1. d \in Trade /\ trade[d] # Absent BY MakersAreTrades DEF MakersPlace
  <2>2. IndexDue(o) BY DEF IndexedOrDue
  <2>3. CASE d \in SubmittingTrades BY <1>2, <2>1, <2>3
  <2>4. CASE d \notin SubmittingTrades
    <3>1. lapse[d] # "none" \/ (AtIndex /\ UnderWay(d))
      BY <2>1, <2>2, <2>4 DEF IndexDue, SubmittingTrades, UnderWay, AtIndex
    <3> QED BY <1>2, <2>1, <2>4, <3>1
  <2> QED BY <2>3, <2>4
<1> QED BY <1>4, <1>6, <1>7, <1>8, <1>9, <1>10, <1>11, <1>12
-----------------------------------------------------------------------------
(* With trades the delivery is the delivery still: each step of TradeNext is a *)
(* step of TriggerDelivery, or leaves its variables alone.                     *)
LEMMA DeliveryStepOrStutter ==
    ASSUME DeliveryInv, [TradeNext]_allVars
    PROVE  [Next]_vars
<1>1. ASSUME NEW d \in Trade, (\E run \in Run : RecordSubmitting(d, run)) \/ Reconcile(d)
      PROVE  UNCHANGED vars
  BY <1>1 DEF RecordSubmitting, Reconcile
<1>2. CASE AccountRefuses \/ SettleTrade \/ UpsertOrderRunIndex
  BY <1>2 DEF AccountRefuses, SettleTrade, UpsertOrderRunIndex
<1>3. CASE AccountEmits
  <2>1. operating.order \in emitting /\ EmitTriggered(operating.order)
    BY <1>3 DEF AccountEmits, EmitTriggered
  <2>2. operating.order \in Trigger BY <2>1 DEF DeliveryInv, TypeOK
  <2> QED BY <2>1, <2>2 DEF Next
<1>4. ASSUME NEW o \in Order, AccountPlaces(o) \/ AccountCancels(o) \/ EvaluatorFills(o)
      PROVE  [Next]_vars
  BY <1>4 DEF AccountPlaces, AccountCancels, EvaluatorFills, Next, Order
<1>5. ASSUME NEW r \in Route, NEW t \in Trigger, StartTriggerRun(r, t) \/ EndTriggerRun(r, t)
      PROVE  Next
  BY <1>5 DEF StartTriggerRun, EndTriggerRun, RouteStep, Next
<1>6. CASE DeliveryStep
  BY <1>6 DEF DeliveryStep, RouteStep, Next
<1>7. CASE CrashWithTrades \/ RecoverDelivery \/ RestartWithTrades
  BY <1>7 DEF CrashWithTrades, RecoverDelivery, RestartWithTrades, Next
<1>8. CASE UNCHANGED allVars BY <1>8 DEF allVars
<1> QED BY <1>1, <1>2, <1>3, <1>4, <1>5, <1>6, <1>7, <1>8 DEF TradeNext

LEMMA RowsStep ==
    ASSUME RowsInv, [TradeNext]_allVars
    PROVE  RowsInv'
<1>1. ASSUME NEW d \in Trade, (\E run \in Run : RecordSubmitting(d, run)) \/ Reconcile(d)
      PROVE  RowsInv'
  BY <1>1, RecordSubmittingKeeps, ReconcileKeeps
<1>2. ASSUME NEW o \in Order, AccountPlaces(o) \/ AccountCancels(o) \/ EvaluatorFills(o)
      PROVE  RowsInv'
  BY <1>2, AccountPlacesKeeps, AccountCancelsKeeps, EvaluatorFillsKeeps
<1>3. CASE AccountRefuses \/ AccountEmits \/ SettleTrade \/ UpsertOrderRunIndex
  BY <1>3, AccountRefusesKeeps, AccountEmitsKeeps, SettleTradeKeeps, UpsertKeeps
<1>4. ASSUME NEW r \in Route, NEW t \in Trigger, StartTriggerRun(r, t) \/ EndTriggerRun(r, t)
      PROVE  RowsInv'
  BY <1>4, QuietKeeps DEF StartTriggerRun, EndTriggerRun, RunStarts, RunEnds, tradeVars
<1>5. CASE DeliveryStep \/ RecoverDelivery
  <2>1. UNCHANGED <<trade, order, index, operating, lapse, running, raised>>
    BY <1>5 DEF DeliveryStep, RecoverDelivery, UserMarksHandled, EmitTriggered, RescanNext,
                MarkHandled, MarkConsumption, ListUnhandled, SwitchChannel, RecoverRecord,
                tradeVars
  <2> QED BY <2>1, QuietKeeps
<1>6. CASE CrashWithTrades \/ RestartWithTrades
  BY <1>6, CrashWithTradesKeeps, RestartWithTradesKeeps
<1>7. CASE UNCHANGED allVars
  BY <1>7, QuietKeeps DEF allVars, tradeVars, vars
<1> QED BY <1>1, <1>2, <1>3, <1>4, <1>5, <1>6, <1>7 DEF TradeNext

LEMMA InitTrades == TradeInit => TradeInv
<1> SUFFICES ASSUME TradeInit PROVE TradeInv
  OBVIOUS
<1>1. DeliveryInv BY InitDelivery DEF TradeInit
<1>2. TradeTyped BY DEF TradeInit, TradeTyped, Order, Lapse
<1>3. HeldTrade /\ HeldAnswer BY DEF TradeInit, HeldTrade, HeldAnswer
<1>4. UnusedUnharmed /\ NothingLeftSubmitting /\ SettledAgreesWithAccount
  BY DEF TradeInit, UnusedUnharmed, NothingLeftSubmitting, SettledAgreesWithAccount
<1>5. MakersPlace /\ OneOrderEach /\ ActiveNotCancelled
  BY DEF TradeInit, MakersPlace, OneOrderEach, ActiveNotCancelled, Order
<1>6. IndexedOrDue /\ IndexSound BY DEF TradeInit, IndexedOrDue, IndexSound, Order
<1>7. RaisedOrdered BY DEF TradeInit, Init, RaisedOrdered
<1> QED BY <1>1, <1>2, <1>3, <1>4, <1>5, <1>6, <1>7 DEF TradeInv, RowsInv

LEMMA AlwaysTrades == TradeSpec => []TradeInv
<1>1. TradeInv /\ [TradeNext]_allVars => TradeInv'
  <2> SUFFICES ASSUME TradeInv, [TradeNext]_allVars PROVE TradeInv'
    OBVIOUS
  <2>1. RowsInv' BY RowsStep DEF TradeInv
  <2>2. [Next]_vars BY DeliveryStepOrStutter DEF TradeInv
  <2>3. DeliveryInv' BY <2>2, StepDelivery DEF TradeInv
  <2> QED BY <2>1, <2>3 DEF TradeInv
<1> QED BY InitTrades, <1>1, PTL DEF TradeSpec

(* The trades do not disturb the delivery of triggers: what is proved of        *)
(* TriggerDelivery holds with agent runs that trade.                            *)
THEOREM DeliveryWithTrades == TradeSpec => Spec
<1>1. TradeInit => Init BY DEF TradeInit
<1>2. TradeInv /\ [TradeNext]_allVars => [Next]_vars
  BY DeliveryStepOrStutter DEF TradeInv
<1> QED BY <1>1, <1>2, AlwaysTrades, PTL DEF TradeSpec, Spec

(* A settled row of a placement says what the account did, whichever of the     *)
(* handler (settle_trade) and the recovery (reconcile) settled it, unless the   *)
(* reconciler took a failed read for no order.                                  *)
THEOREM SettledRowsAgree == TradeSpec => []SettledAgreesWithAccount
<1>1. TradeInv => SettledAgreesWithAccount BY DEF TradeInv, RowsInv
<1> QED BY <1>1, AlwaysTrades, PTL

(* No trade is left submitting by a call that returned, nor by a crash and the  *)
(* recovery that follows (list_submitting_trades), but by an error of either.   *)
THEOREM NoTradeLeft == TradeSpec => []NothingLeftSubmitting
<1>1. TradeInv => NothingLeftSubmitting BY DEF TradeInv, RowsInv
<1> QED BY <1>1, AlwaysTrades, PTL

(* The index names a trade of the order and, while the program runs, lacks an   *)
(* order only when the call that placed it is under way or has suffered an      *)
(* error or a crash (upsert_order_run_index); then alone the run of a trigger   *)
(* finds no origin.                                                             *)
THEOREM OrdersAreIndexed == TradeSpec => OrdersIndexed
<1>1. TradeInv => IndexKept
  <2> SUFFICES ASSUME TradeInv, running, NEW o \in Order, order[o] # Absent, index[o] = Absent
               PROVE  UnderWay(order[o].madeBy) \/ lapse[order[o].madeBy] # "none"
    BY DEF TradeInv, RowsInv, IndexKept, IndexSound
  <2>1. IndexDue(o) /\ order[o].madeBy \in Trade /\ trade[order[o].madeBy] # Absent
    BY MakersAreTrades DEF TradeInv, RowsInv, IndexedOrDue, MakersPlace
  <2> QED BY <2>1
       DEF TradeInv, RowsInv, NothingLeftSubmitting, IndexDue, AtIndex, UnderWay
<1>2. TradeInv /\ TradeNext => OriginsFound
  <2> SUFFICES ASSUME TradeInv, TradeNext, NEW o \in Order, MissesOrigin(o)
               PROVE  UnderWay(order[o].madeBy) \/ lapse[order[o].madeBy] # "none"
    BY DEF OriginsFound
  <2>1. origin' # origin BY DEF MissesOrigin
  <2>2. PICK r \in Route, t \in Trigger : StartTriggerRun(r, t)
    BY <2>1 DEF TradeNext, RecordSubmitting, Reconcile, AccountRefuses, AccountEmits,
                AccountPlaces, AccountCancels, EvaluatorFills, SettleTrade,
                UpsertOrderRunIndex, EndTriggerRun, DeliveryStep, CrashWithTrades,
                RecoverDelivery, RestartWithTrades, tradeVars
  <2>3. /\ o = t /\ index[o] = Absent /\ worker[<<r, o>>] = "begun"
    BY <2>2 DEF MissesOrigin, StartTriggerRun, ResolvedOrigin, RunStarts
  <2>4. running /\ o \in raised
    BY <2>3 DEF TradeInv, DeliveryInv, DownIsIdle, Idle, WorkersRaised, Order
  <2>5. order[o] # Absent BY <2>4 DEF TradeInv, RowsInv, RaisedOrdered
  <2> QED BY <1>1, <2>3, <2>4, <2>5 DEF IndexKept
<1>3. TradeInv /\ TradeInv' /\ [TradeNext]_allVars => [IndexKept' /\ OriginsFound]_allVars
  <2>1. TradeInv' => IndexKept' BY <1>1, PTL
  <2> QED BY <1>2, <2>1
<1> QED BY <1>3, AlwaysTrades, PTL DEF TradeSpec, OrdersIndexed
=============================================================================
