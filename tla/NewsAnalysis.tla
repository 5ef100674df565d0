---------------------------- MODULE NewsAnalysis ----------------------------
(***************************************************************************)
(* The news buffer of the agent: news that are refreshed while the         *)
(* automatic analysis is on enter it, one task takes the newest of them    *)
(* into a run every so often, and a restart puts back what a run held.     *)
(* The same task starts the review at the end of the day.                  *)
(*                                                                         *)
(* Time passes by ticks of that task; an interval catches up on ticks it   *)
(* missed.  Left out: what a run does beside recording its analysis, the   *)
(* articles behind the news, and the review a user asks for, which takes   *)
(* no lock and writes no row of its own here.                              *)
(***************************************************************************)
EXTENDS Naturals, FiniteSets, FiniteSetsExt

CONSTANTS
    Item,       \* ids of news
    Published,  \* when they were published, 0 if nothing is said
    BatchSize,  \* news_agent_batch_size
    MaxWait,    \* news_agent_max_wait_secs, in ticks
    Window,     \* news_buffer_window_secs, in ticks
    MaxEvents,  \* bound: refreshes and switches
    MaxHalf,    \* bound: halves of days, the second is after eod_review_time
    MaxFaults,  \* bound: failed reads and writes
    MaxCrashes  \* bound: ends of the program

ASSUME NewsAssumption ==
    /\ IsFiniteSet(Item)
    /\ Published \in [Item -> Nat]
    /\ {BatchSize, MaxWait, Window} \subseteq Nat \ {0}
    /\ {MaxFaults, MaxCrashes} \subseteq Nat

NoRun == 0
\* Enough ids for a new run beside those that rows still name.
RunId == 1..(Cardinality(Item) + MaxFaults + MaxCrashes + 2)
Day == 1..((MaxHalf + 1) \div 2)
Terminal == {"analyzed", "dropped"}

VARIABLES
    enabled,  \* the switch of the automatic analysis
    known,    \* news_items
    event,    \* ids of a news-refreshed the sink has not taken yet
    status,   \* agent_news_buffer, "new" for news it does not hold
    runOf,    \* its run_id
    age,      \* ticks since entered_at
    running,  \* rows of agent_runs that say running
    half,     \* the half of the day
    review,   \* agent_event_consumption of the review of each day
    phase,    \* "down", "idle", or where the task is
    batch,    \* the ids it holds
    run,      \* its run
    recorded, \* whether the run has an AnalysisResult
    verdict,  \* the status it is about to write for the batch
    elapsed,  \* the wait it counts, in ticks
    events,
    faults,
    crashes,
    \* What happened, for the properties:
    waited,   \* ticks with news pending since a batch was tried
    covered,  \* news a completed run has analysed
    excused,  \* covered news that a crash or a failure kept from being marked
    stranded, \* news whose row a failed write left behind
    reviews   \* reviews that have ended, by day

buffer == <<status, runOf, age>>
rows == <<buffer, running, review>>
task == <<phase, batch, run, recorded, verdict, elapsed>>
world == <<enabled, known, event, half, events>>
failures == <<faults, crashes>>
history == <<waited, covered, excused, stranded, reviews>>
vars == <<world, rows, task, failures, history>>

today == (half + 1) \div 2
Closed == half % 2 = 0
Pending == {i \in Item : status[i] = "pending"}

Fault == faults < MaxFaults /\ faults' = faults + 1
\* A read or a write that works, or fails.
Works(ok) == IF ok THEN UNCHANGED faults ELSE Fault
-----------------------------------------------------------------------------
(* Into the buffer *)

\* push_news_pending: INSERT OR IGNORE
PushAll(items) == status' = [i \in Item |-> IF i \in items THEN "pending" ELSE status[i]]
Push(items) ==
    status' = [i \in Item |-> IF i \in items /\ status[i] = "new" THEN "pending" ELSE status[i]]

\* run_refresh has committed news, new ones and known ones with a change.
Refresh(items) ==
    /\ phase # "down" /\ event = {}
    /\ events < MaxEvents
    /\ known' = known \cup items
    /\ event' = items
    /\ events' = events + 1
    /\ UNCHANGED <<enabled, half, rows, task, failures, history>>

\* The sink takes the ids one by one and ends at the first it cannot write.
Ingest(taken) ==
    /\ phase # "down" /\ event # {}
    /\ taken \subseteq event
    /\ IF enabled THEN Push(taken) /\ Works(taken = event)
                  ELSE taken = {} /\ UNCHANGED <<status, faults>>
    /\ event' = {}
    /\ UNCHANGED <<enabled, known, half, events, runOf, age, running, review, task, crashes, history>>

\* set_news_auto_analysis_enabled; when it goes on, the backfill finds some of the news.
Switch(found) ==
    /\ phase # "down"
    /\ events < MaxEvents
    /\ enabled' = ~ enabled
    /\ found \subseteq known /\ (enabled => found = {})
    /\ Push(found)
    /\ events' = events + 1
    /\ UNCHANGED <<known, event, half, runOf, age, running, review, task, failures, history>>
-----------------------------------------------------------------------------
(* The task, tick by tick *)

\* begin_consumption
NotUnderWay(claim) == claim # "processing"
Unclaimed(claim) == claim \in {"none", "failed"}

\* maybe_run_eod_review; without an active channel nothing is begun.
BeginReview ==
    /\ phase = "idle" /\ Closed
    /\ Unclaimed(review[today])
    /\ review' = [review EXCEPT ![today] = "processing"]
    /\ phase' = "review"
    /\ UNCHANGED <<world, buffer, running, batch, run, recorded, verdict, elapsed, failures, history>>

\* Any run that ended consumes the day; the row of the midnight before is found by its date.
EndReview(ended, ok) ==
    /\ phase = "review"
    /\ \E d \in Day :
         /\ review[d] = "processing" /\ \A e \in Day : review[e] = "processing" => e <= d
         /\ reviews' = [reviews EXCEPT ![d] = @ + (IF ended THEN 1 ELSE 0)]
         /\ review' = [review EXCEPT ![d] =
                         IF ~ ok THEN @ ELSE IF ended THEN "consumed" ELSE "failed"]
    /\ Works(ok)
    /\ phase' = "news"
    /\ UNCHANGED <<world, buffer, running, batch, run, recorded, verdict, elapsed, crashes,
                   waited, covered, excused, stranded>>

\* The tick goes on to the news: the day is not over, its review is done, or no channel is active.
SkipReview ==
    /\ phase = "idle"
    /\ phase' = "news"
    /\ UNCHANGED <<world, rows, batch, run, recorded, verdict, elapsed, failures, history>>

\* age_out: what has been pending for longer than the window
Aged(i, old) == status[i] = "pending" /\ old[i] > Window

Older == [i \in Item |->
            IF status[i] \in {"pending", "in_batch"} THEN Min({age[i] + 1, Window + 1}) ELSE age[i]]

\* take_newest_pending: publishedAt first, then entered_at
Newer(i, j, old) ==
    \/ Published[i] > Published[j]
    \/ Published[i] = Published[j] /\ old[i] < old[j]
NewestOfDated(items, old) == {{i \in items : Published[i] > 0}}
Newest(items, old) ==
    {b \in SUBSET items :
        /\ Cardinality(b) = Min({BatchSize, Cardinality(items)})
        /\ \A i \in b, j \in items \ b : ~ Newer(j, i, old)}

Wait(n) == IF Pending = {} THEN 0 ELSE Min({n + 1, MaxWait})

\* drain_news_buffer up to the batch: the wait, the switch, age_out, the two triggers.
\* Of its calls to the buffer any may fail: the count of the loop then says none.
Tick(failed) ==
    LET old == Older
        kept == {i \in Pending : "age_out" \in failed \/ ~ Aged(i, old)}
        wait == IF "count" \in failed THEN 0 ELSE Wait(elapsed)
        due == kept # {} /\ (Cardinality(kept) >= BatchSize \/ wait >= MaxWait)
    IN  /\ phase = "news"
        /\ age' = old
        /\ elapsed' = wait
        /\ status' = [i \in Item |-> IF enabled /\ i \in Pending \ kept THEN "dropped" ELSE status[i]]
        /\ Works(failed = {})
        /\ IF enabled /\ due /\ "read" \notin failed
           THEN /\ phase' = "taken"
                /\ batch' \in Newest(kept, old)
                /\ waited' = 0
                /\ covered' = covered \ batch'
                /\ excused' = excused \ batch'
           ELSE /\ phase' = "idle"
                /\ waited' = Wait(waited)
                /\ UNCHANGED <<batch, covered, excused>>
        /\ UNCHANGED <<world, runOf, running, review, run, recorded, verdict, crashes,
                       stranded, reviews>>

\* No channel or provider, or no row for the run: nothing was begun.
RefuseRun ==
    /\ phase = "taken"
    /\ phase' = "settle"
    /\ verdict' = "pending"
    /\ UNCHANGED <<world, rows, batch, run, recorded, elapsed, failures, history>>

NewRun == CHOOSE r \in RunId : r \notin running /\ \A i \in Item : runOf[i] # r

\* create_run, then mark_in_batch, whose failure is logged only.
CreateRun(marked) ==
    /\ phase = "taken"
    /\ run' = NewRun
    /\ running' = running \cup {run'}
    /\ IF marked
       THEN /\ status' = [i \in Item |-> IF i \in batch THEN "in_batch" ELSE status[i]]
            /\ runOf' = [i \in Item |-> IF i \in batch THEN run' ELSE runOf[i]]
       ELSE UNCHANGED <<status, runOf>>
    /\ Works(marked)
    /\ phase' = "turn"
    /\ UNCHANGED <<world, age, review, batch, recorded, verdict, elapsed, crashes, history>>

\* The strategy cannot be read: the run is left without an end.
AbandonRun ==
    /\ phase = "turn" /\ ~ recorded
    /\ Fault
    /\ phase' = "settle"
    /\ verdict' = "pending"
    /\ UNCHANGED <<world, rows, batch, run, recorded, elapsed, crashes, history>>

RecordAnalysis ==
    /\ phase = "turn" /\ ~ recorded
    /\ recorded' = TRUE
    /\ UNCHANGED <<world, rows, phase, batch, run, verdict, elapsed, failures, history>>

\* What drain_news_batch makes of the end of a run.
Verdict(ending, found) ==
    CASE ending = "completed" -> IF found THEN "analyzed" ELSE "pending"
      [] ending = "failed" -> "pending"
      [] ending \in {"cancelled", "token_budget"} -> "dropped"

\* finish_run and the look for a result; if either fails the batch goes back.
EndRun(ending, finished, readable) ==
    /\ phase = "turn"
    /\ running' = IF finished THEN running \ {run} ELSE running
    /\ verdict' = IF finished THEN Verdict(ending, recorded /\ readable) ELSE "pending"
    /\ Works(finished /\ readable)
    /\ phase' = "settle"
    /\ covered' = IF ending = "completed" /\ recorded THEN covered \cup batch ELSE covered
    /\ excused' = IF finished /\ readable THEN excused ELSE excused \cup batch
    /\ UNCHANGED <<world, buffer, review, batch, run, recorded, elapsed, crashes,
                   waited, stranded, reviews>>

\* mark_news_analyzed, mark_news_dropped and revert_news_to_pending write by id alone.
WriteStatus ==
    /\ status' = [i \in Item |-> IF i \in batch THEN verdict ELSE status[i]]
    /\ runOf' = [i \in Item |-> IF i \in batch /\ verdict = "pending" THEN NoRun ELSE runOf[i]]
WriteVerdictAsEntry ==
    /\ WriteStatus
    /\ age' = [i \in Item |-> IF i \in batch /\ verdict = "pending" THEN 0 ELSE age[i]]
WriteVerdict == WriteStatus /\ UNCHANGED age

\* The loop resets its count after a batch that was analysed, only.
Settle(ok) ==
    /\ phase = "settle"
    /\ IF ok THEN WriteVerdict ELSE UNCHANGED buffer
    /\ Works(ok)
    /\ elapsed' = IF verdict = "analyzed" THEN 0 ELSE elapsed
    /\ stranded' = IF ok THEN stranded \ batch ELSE stranded \cup batch
    /\ excused' = IF ok THEN excused ELSE excused \cup batch
    /\ phase' = "idle"
    /\ batch' = {}
    /\ run' = NoRun
    /\ recorded' = FALSE
    /\ verdict' = "none"
    /\ UNCHANGED <<world, running, review, crashes, waited, covered, reviews>>
-----------------------------------------------------------------------------
(* The clock and the program *)

HalfDay ==
    /\ half < MaxHalf
    /\ half' = half + 1
    /\ UNCHANGED <<enabled, known, event, events, rows, task, failures, history>>

Crash ==
    /\ phase # "down" /\ crashes < MaxCrashes
    /\ crashes' = crashes + 1
    /\ phase' = "down"
    /\ event' = {}
    /\ batch' = {}
    /\ run' = NoRun
    /\ recorded' = FALSE
    /\ verdict' = "none"
    /\ elapsed' = 0
    /\ waited' = 0
    /\ excused' = excused \cup batch
    /\ UNCHANGED <<enabled, known, half, events, rows, faults, covered, stranded, reviews>>

\* reset_orphan_in_batch_news
OrphansBeforeRuns(live) == {i \in Item : status[i] = "in_batch" /\ runOf[i] \notin running}
Orphans(live) == {i \in Item : status[i] = "in_batch" /\ runOf[i] \notin live}

\* The recovery: running runs fail, then consumptions, then the orphans; an error ends it.
Restart(steps) ==
    LET live == IF steps >= 1 THEN {} ELSE running
        back == IF steps = 3 THEN Orphans(live) ELSE {}
    IN  /\ phase = "down"
        /\ phase' = "idle"
        /\ Works(steps = 3)
        /\ running' = live
        /\ review' = [d \in Day |->
                        IF steps >= 2 /\ review[d] = "processing" THEN "failed" ELSE review[d]]
        /\ status' = [i \in Item |-> IF i \in back THEN "pending" ELSE status[i]]
        /\ runOf' = [i \in Item |-> IF i \in back THEN NoRun ELSE runOf[i]]
        /\ stranded' = IF steps = 3 THEN {} ELSE {i \in Item : status[i] = "in_batch"}
        /\ UNCHANGED <<world, age, batch, run, recorded, verdict, elapsed, crashes,
                       waited, covered, excused, reviews>>
-----------------------------------------------------------------------------
Init ==
    /\ enabled = FALSE
    /\ known = {} /\ event = {}
    /\ status = [i \in Item |-> "new"]
    /\ runOf = [i \in Item |-> NoRun]
    /\ age = [i \in Item |-> 0]
    /\ running = {}
    /\ half = 1
    /\ review = [d \in Day |-> "none"]
    /\ phase = "idle"
    /\ batch = {}
    /\ run = NoRun
    /\ recorded = FALSE
    /\ verdict = "none"
    /\ elapsed = 0
    /\ events = 0 /\ faults = 0 /\ crashes = 0
    /\ waited = 0
    /\ covered = {} /\ excused = {} /\ stranded = {}
    /\ reviews = [d \in Day |-> 0]

Task ==
    \/ BeginReview
    \/ SkipReview
    \/ \E ended, ok \in BOOLEAN : EndReview(ended, ok)
    \/ \E failed \in SUBSET {"count", "age_out", "read"} : Tick(failed)
    \/ \E ok \in BOOLEAN : CreateRun(ok) \/ Settle(ok)
    \/ RefuseRun
    \/ AbandonRun
    \/ RecordAnalysis
    \/ \E ending \in {"completed", "failed", "cancelled", "token_budget"},
          finished, readable \in BOOLEAN : EndRun(ending, finished, readable)
    \/ \E steps \in 0..3 : Restart(steps)

Next ==
    \/ \E items \in SUBSET Item : items # {} /\ Refresh(items)
    \/ \E items \in SUBSET Item : Ingest(items) \/ Switch(items)
    \/ HalfDay
    \/ Crash
    \/ Task

Spec == Init /\ [][Next]_vars

(* One task runs everything but the refreshes, step after step, and a program *)
(* that has ended is started again.                                          *)
FairSpec == Spec /\ WF_vars(Task)
-----------------------------------------------------------------------------
(* The rows and the state of the task hold values of their types. *)
TypeOK ==
    /\ known \subseteq Item /\ event \subseteq known /\ batch \subseteq known
    /\ status \in [Item -> {"new", "pending", "in_batch"} \cup Terminal]
    /\ runOf \in [Item -> RunId \cup {NoRun}]
    /\ age \in [Item -> 0..(Window + 1)]
    /\ running \subseteq RunId
    /\ review \in [Day -> {"none", "processing", "failed", "consumed"}]
    /\ phase \in {"down", "idle", "review", "news", "taken", "turn", "settle"}
    /\ phase \in {"taken", "turn", "settle"} <=> batch # {}
    /\ run \in RunId \cup {NoRun}
    /\ verdict \in {"none", "pending"} \cup Terminal
    /\ elapsed \in 0..MaxWait

(* While the program runs, news that say they are in a batch are in the one under *)
(* way, under its run, so that its end will move them on, unless the write that   *)
(* should have moved them failed.                                                 *)
InBatchOwned ==
    phase # "down" =>
        \A i \in Item : status[i] = "in_batch" =>
            \/ i \in batch /\ runOf[i] = run /\ phase \in {"turn", "settle"}
            \/ i \in stranded

(* News that a completed run has analysed do not come before a second one, neither *)
(* for an update of them nor for an entry made while they were in a batch, unless  *)
(* a crash or a failed write came between the analysis and its mark.               *)
AnalysedOnce ==
    [][\A i \in covered : i \in batch' /\ i \notin batch => i \in excused]_vars

(* A day has one review, with one more for each failure that left its end unmarked. *)
OneReviewADay == \A d \in Day : reviews[d] <= 1 + faults + crashes

(* Retries end: while the analysis is on, what failing runs give back is analysed or *)
(* dropped in the end, since it keeps the time it entered; only news that a failed   *)
(* write left behind may stay as they are.                                           *)
RetriesEnd ==
    <>[]enabled => \A i \in Item :
        []<>(status[i] \in Terminal \cup {"new"} \/ i \in stranded)
=============================================================================
