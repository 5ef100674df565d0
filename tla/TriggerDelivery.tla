-------------------------- MODULE TriggerDelivery --------------------------
(***************************************************************************)
(* How a trigger of the account reaches the agent.  The account commits    *)
(* the trigger and then calls the sink of lib.rs, which begins a           *)
(* consumption and starts an agent run; at startup the runtime also routes *)
(* the triggers that are not handled yet, one after the other.  The        *)
(* account's table, the consumption records and the channels are durable;  *)
(* everything else is lost in a crash.                                     *)
(*                                                                         *)
(* A call of the database may fail wherever the code then goes on: each   *)
(* such step has the error as an alternative.  An error uses its step up,  *)
(* so errors need no bound.  Left out: what a run says.                    *)
(***************************************************************************)
EXTENDS Naturals, FiniteSets

CONSTANTS
    Trigger,      \* ids of triggers, each raised once
    RescanLimit,  \* how many triggers the startup rescan lists
    MaxCrashes    \* bound: crashes of the process

ASSUME DeliveryAssumption ==
    /\ RescanLimit \in Nat
    /\ MaxCrashes \in Nat

VARIABLES
    running,      \* the process is up and its sink is set
    channel,      \* a model channel is active
    raised,       \* account_triggers
    handled,      \* those of them with handled = 1
    emitting,     \* committed, and not passed to the sink yet
    consumption,  \* agent_event_consumption
    worker,       \* how far each route is with each trigger
    rescanDue,    \* the startup rescan has not listed yet
    unrouted,     \* listed by it, and not routed yet
    crashes,
    completed,    \* history: completed runs, by trigger
    tried,        \* history: triggers a route has begun since the start
    missed,       \* history: those an error since then kept from being begun
    stuck         \* history: records that an error left processing

history == <<completed, tried, missed, stuck>>
vars == <<running, channel, raised, handled, emitting, consumption, worker,
          rescanDue, unrouted, crashes, history>>
-----------------------------------------------------------------------------
Route == {"sink", "rescan"}
Consumption == {"none", "processing", "consumed", "failed"}
Stage == {"idle", "begun", "running", "completed", "handled", "ended"}
RunStatus == {"completed", "failed", "cancelled"}

Idle == [w \in Route \X Trigger |-> "idle"]

Unhandled == raised \ handled

(* Mutant: a consumption that is under way can be begun again. *)
BeginUnlessConsumed == {"none", "failed", "processing"}

(* begin_consumption: from which records it returns true. *)
BeginAllowed == {"none", "failed"}

(* It may fail; both routes log that, and pass the trigger by. *)
Begin(r, t) ==
    \/ /\ consumption[t] \in BeginAllowed
       /\ consumption' = [consumption EXCEPT ![t] = "processing"]
       /\ worker' = [worker EXCEPT ![<<r, t>>] = "begun"]
       /\ tried' = tried \cup {t}
       /\ UNCHANGED missed
    \/ /\ consumption[t] \notin BeginAllowed
       /\ UNCHANGED <<consumption, worker, tried, missed>>
    \/ /\ missed' = missed \cup {t}
       /\ UNCHANGED <<consumption, worker, tried>>

(* Mutant: a run that ended in any way counts as done. *)
AfterAnyRun(status) == "completed"

(* Only a completed run leads to mark_trigger_handled. *)
AfterRun(status) == IF status = "completed" THEN "completed" ELSE "ended"

(* Mutant: the error of a run is logged and its record left as it is. *)
RecordOfSuccess(stage) == IF stage = "handled" THEN "consumed" ELSE "processing"

FinalRecord(stage) == IF stage = "handled" THEN "consumed" ELSE "failed"

(* Mutant: recovery takes its reason for a status. *)
InterruptedStatus == "interrupted_by_restart"

RecoveredStatus == "failed"

(* Mutant: recovery finds no record to reset. *)
NoneUnfinished == {}

(* list_processing_consumptions *)
Unfinished == {t \in Trigger : consumption[t] = "processing"}

(* Mutant: the rescan lists what no route has begun yet. *)
NeverBegun == {t \in Unhandled : consumption[t] = "none"}

(* list_unhandled_triggers *)
Rescanned == Unhandled
-----------------------------------------------------------------------------
(* The account. *)

RaiseTrigger(t) ==
    /\ running
    /\ t \notin raised
    /\ raised' = raised \cup {t}
    /\ emitting' = emitting \cup {t}
    /\ UNCHANGED <<running, channel, handled, consumption, worker, rescanDue, unrouted,
                   crashes, history>>

(* The command behind the user's button. *)
UserMarksHandled(t) ==
    /\ running
    /\ t \in raised
    /\ handled' = handled \cup {t}
    /\ UNCHANGED <<running, channel, raised, emitting, consumption, worker, rescanDue,
                   unrouted, crashes, history>>
-----------------------------------------------------------------------------
(* The two routes. *)

(* The market path reads the trigger again before it emits it; an error of that *)
(* read passes the trigger by as well.                                          *)
EmitTriggered(t) ==
    /\ t \in emitting
    /\ emitting' = emitting \ {t}
    /\ Begin("sink", t)
    /\ UNCHANGED <<running, channel, raised, handled, rescanDue, unrouted, crashes,
                   completed, stuck>>

(* rescan_unhandled_triggers lists nothing while no channel is active, nor after *)
(* an error of the read of the channel or of the triggers, and tries once.       *)
ListUnhandled ==
    /\ running
    /\ rescanDue
    /\ rescanDue' = FALSE
    /\ \/ /\ ~ channel
          /\ UNCHANGED <<unrouted, missed>>
       \/ /\ channel
          /\ unrouted' \in {S \in SUBSET Rescanned :
                              \/ S = Rescanned /\ Cardinality(S) <= RescanLimit
                              \/ Cardinality(S) = RescanLimit}
          /\ UNCHANGED missed
       \/ /\ missed' = missed \cup (Unhandled \ emitting)
          /\ UNCHANGED unrouted
    /\ UNCHANGED <<running, channel, raised, handled, emitting, consumption, worker,
                   crashes, completed, tried, stuck>>

RescanNext(t) ==
    /\ t \in unrouted
    /\ \A other \in Trigger : worker[<<"rescan", other>>] = "idle"
    /\ unrouted' = unrouted \ {t}
    /\ Begin("rescan", t)
    /\ UNCHANGED <<running, channel, raised, handled, emitting, rescanDue, crashes,
                   completed, stuck>>

(* run_account_trigger fails without a channel, and may fail with one. *)
RunStarts(r, t) ==
    /\ worker[<<r, t>>] = "begun"
    /\ \/ /\ channel
          /\ worker' = [worker EXCEPT ![<<r, t>>] = "running"]
       \/ worker' = [worker EXCEPT ![<<r, t>>] = "ended"]
    /\ UNCHANGED <<running, channel, raised, handled, emitting, consumption, rescanDue,
                   unrouted, crashes, history>>

RunEnds(r, t) ==
    /\ worker[<<r, t>>] = "running"
    /\ \E status \in RunStatus :
         /\ worker' = [worker EXCEPT ![<<r, t>>] = AfterRun(status)]
         /\ completed' = IF status = "completed" THEN [completed EXCEPT ![t] = @ + 1]
                         ELSE completed
    /\ UNCHANGED <<running, channel, raised, handled, emitting, consumption, rescanDue,
                   unrouted, crashes, tried, missed, stuck>>

(* A failure to mark the trigger is logged, and the route goes on. *)
MarkHandled(r, t) ==
    /\ worker[<<r, t>>] = "completed"
    /\ worker' = [worker EXCEPT ![<<r, t>>] = "handled"]
    /\ handled' \in {handled, handled \cup {t}}
    /\ UNCHANGED <<running, channel, raised, emitting, consumption, rescanDue, unrouted,
                   crashes, history>>

(* The route is done with the trigger, also when the write of the record fails. *)
MarkConsumption(r, t) ==
    /\ worker[<<r, t>>] \in {"handled", "ended"}
    /\ worker' = [worker EXCEPT ![<<r, t>>] = "idle"]
    /\ \/ /\ consumption' = [consumption EXCEPT ![t] = FinalRecord(worker[<<r, t>>])]
          /\ UNCHANGED stuck
       \/ /\ stuck' = stuck \cup {t}
          /\ UNCHANGED consumption
    /\ UNCHANGED <<running, channel, raised, handled, emitting, rescanDue, unrouted, crashes,
                   completed, tried, missed>>

RouteStep(r, t) ==
    RunStarts(r, t) \/ RunEnds(r, t) \/ MarkHandled(r, t) \/ MarkConsumption(r, t)
-----------------------------------------------------------------------------
(* The user's channels; the end of the process, which may cut its recovery short, *)
(* and its next start.                                                            *)

SwitchChannel ==
    /\ running
    /\ channel' = ~ channel
    /\ UNCHANGED <<running, raised, handled, emitting, consumption, worker, rescanDue,
                   unrouted, crashes, history>>

Crash ==
    /\ crashes < MaxCrashes
    /\ crashes' = crashes + 1
    /\ running' = FALSE
    /\ emitting' = {}
    /\ worker' = Idle
    /\ rescanDue' = FALSE
    /\ unrouted' = {}
    /\ tried' = {}
    /\ missed' = {}
    /\ stuck' = {}
    /\ UNCHANGED <<channel, raised, handled, consumption, completed>>

(* recover_on_startup: one record after the other. *)
RecoverRecord(t) ==
    /\ ~ running
    /\ t \in Unfinished
    /\ consumption' = [consumption EXCEPT ![t] = RecoveredStatus]
    /\ UNCHANGED <<running, channel, raised, handled, emitting, worker, rescanDue, unrouted,
                   crashes, history>>

(* Then the sink is set and the rescan spawned: also when an error has ended the *)
(* recovery, with the records it had not come to as they were.                   *)
Restart ==
    /\ ~ running
    /\ running' = TRUE
    /\ rescanDue' = TRUE
    /\ stuck' = Unfinished
    /\ UNCHANGED <<channel, raised, handled, emitting, consumption, worker, unrouted, crashes,
                   completed, tried, missed>>

Init ==
    /\ running = TRUE
    /\ channel \in BOOLEAN
    /\ raised = {}
    /\ handled = {}
    /\ emitting = {}
    /\ consumption = [t \in Trigger |-> "none"]
    /\ worker = Idle
    /\ rescanDue = TRUE
    /\ unrouted = {}
    /\ crashes = 0
    /\ completed = [t \in Trigger |-> 0]
    /\ tried = {}
    /\ missed = {}
    /\ stuck = {}

Next ==
    \/ \E t \in Trigger :
         \/ RaiseTrigger(t)
         \/ UserMarksHandled(t)
         \/ EmitTriggered(t)
         \/ RescanNext(t)
         \/ RecoverRecord(t)
         \/ \E r \in Route : RouteStep(r, t)
    \/ ListUnhandled
    \/ SwitchChannel
    \/ Crash
    \/ Restart

Spec == Init /\ [][Next]_vars

(* The tasks that tokio runs go on; a run ends, since its turns are bounded *)
(* and each model call and tool has a timeout.  Nothing makes a user start  *)
(* the program again.                                                       *)
Fairness ==
    /\ \A t \in Trigger : WF_vars(EmitTriggered(t))
    /\ \A t \in Trigger, r \in Route : WF_vars(RouteStep(r, t))
    /\ WF_vars(ListUnhandled)
    /\ WF_vars(\E t \in Trigger : RescanNext(t))

FairSpec == Spec /\ Fairness
-----------------------------------------------------------------------------
(* The tables and the state of the process hold values of their types. *)
TypeOK ==
    /\ running \in BOOLEAN
    /\ channel \in BOOLEAN
    /\ raised \subseteq Trigger
    /\ handled \subseteq raised
    /\ emitting \subseteq raised
    /\ consumption \in [Trigger -> Consumption]
    /\ worker \in [Route \X Trigger -> Stage]
    /\ rescanDue \in BOOLEAN
    /\ unrouted \subseteq raised
    /\ crashes \in 0..MaxCrashes
    /\ completed \in [Trigger -> Nat]
    /\ tried \cup missed \cup stuck \subseteq raised

(* The sink and the rescan never have a run each on one trigger: begin_consumption *)
(* decides between them, also after a recovery has reset the record.               *)
OneRunPerTrigger ==
    \A t \in Trigger :
        ~ (worker[<<"sink", t>>] # "idle" /\ worker[<<"rescan", t>>] # "idle")

AtWork == {t \in Trigger : \E r \in Route : worker[<<r, t>>] # "idle"}

(* A record says processing only while a route is at work on its trigger, or after *)
(* an error of its final write or of the last recovery: else no route would ever   *)
(* be let near it again before the next start.  No route comes to such a record.   *)
ProcessingHasWorker ==
    running =>
        /\ {t \in Trigger : consumption[t] = "processing"} = AtWork \cup stuck
        /\ AtWork \cap stuck = {}

Delivery == INSTANCE AtLeastOnce
    WITH answers <- completed,
         acknowledged <- {t \in Trigger : consumption[t] = "consumed"}

(* A consumption is final only after a completed run, and no run follows it. *)
FollowsAtLeastOnce == Delivery!Spec

(* With a channel at hand, and no more unhandled triggers than the rescan lists,   *)
(* every trigger is begun in each life of the process that lasts: also one whose   *)
(* emission or run a crash cut short, and one an error kept back in the life       *)
(* before.  Only an error in this life keeps it back.                              *)
EveryTriggerTried ==
    [](channel /\ Cardinality(Unhandled) <= RescanLimit) /\ <>[]running =>
        \A t \in Trigger :
            (t \in raised) ~>
                (\/ t \in tried \cup handled \/ consumption[t] = "consumed"
                 \/ t \in missed \cup stuck)

(* What has been begun comes to an end, unless the process does or an error leaves *)
(* its record behind.                                                              *)
BegunIsFinished ==
    \A t \in Trigger :
        (consumption[t] = "processing") ~>
            (consumption[t] # "processing" \/ t \in stuck \/ ~ running)
=============================================================================
