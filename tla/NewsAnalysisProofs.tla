------------------------- MODULE NewsAnalysisProofs -------------------------
(***************************************************************************)
(* Theorems about NewsAnalysis: its types, that news in a batch are in the *)
(* one under way, that news are analysed once, and a day has one review.   *)
(***************************************************************************)
EXTENDS NewsAnalysis, FiniteSetTheorems, TLAPS

(* The tables the invariants read, and the counts. *)
NewsTyped ==
    /\ status \in [Item -> {"new", "pending", "in_batch"} \cup Terminal]
    /\ batch \subseteq Item
    /\ phase \in {"down", "idle", "review", "news", "taken", "turn", "settle"}
    /\ phase = "settle" => verdict \in {"pending"} \cup Terminal
    /\ review \in [Day -> {"none", "processing", "failed", "consumed"}]
    /\ reviews \in [Day -> Nat]
    /\ faults \in Nat /\ crashes \in Nat

(* News a completed run has analysed are marked, or about to be, or have an excuse; *)
(* the batch of a run that has not ended holds none of them.                        *)
AnalysedMarked ==
    /\ phase \in {"taken", "turn"} => batch \cap covered = {}
    /\ phase = "settle" /\ verdict # "analyzed" => batch \cap covered \subseteq excused
    /\ covered \subseteq Item
    /\ \A i \in covered :
        \/ status[i] \in Terminal
        \/ i \in excused
        \/ i \in batch /\ phase = "settle" /\ verdict = "analyzed"

(* A review that no fault excuses has consumed its day. *)
ReviewsExcused ==
    \A d \in Day : reviews[d] <= faults + crashes + (IF review[d] = "consumed" THEN 1 ELSE 0)

NewsInv == NewsTyped /\ InBatchOwned /\ AnalysedMarked /\ ReviewsExcused
-----------------------------------------------------------------------------
LEMMA InitNews == Init => NewsInv
<1> SUFFICES ASSUME Init PROVE NewsInv OBVIOUS
<1>1. NewsTyped BY DEF Init, NewsTyped
<1>2. InBatchOwned BY DEF Init, InBatchOwned
<1>3. AnalysedMarked BY DEF Init, AnalysedMarked
<1>4. ReviewsExcused BY DEF Init, ReviewsExcused
<1> QED BY <1>1, <1>2, <1>3, <1>4 DEF NewsInv

(* A read or a write that fails is counted. *)
LEMMA WorksCounts ==
    ASSUME NEW ok \in BOOLEAN, faults \in Nat, Works(ok)
    PROVE  /\ faults' \in Nat /\ faults <= faults'
           /\ ok => faults' = faults
           /\ ~ ok => faults' = faults + 1
BY DEF Works, Fault

(* Steps that leave the reviews alone keep what is said of them. *)
LEMMA ReviewsKept ==
    ASSUME NewsTyped, ReviewsExcused, UNCHANGED <<review, reviews>>,
           faults' \in Nat, crashes' \in Nat, faults <= faults', crashes <= crashes'
    PROVE  ReviewsExcused'
<1> SUFFICES ASSUME NEW d \in Day
             PROVE  reviews[d] <= faults' + crashes' + (IF review[d] = "consumed" THEN 1 ELSE 0)
  BY DEF ReviewsExcused
<1>1. PICK n \in {0, 1} : n = IF review[d] = "consumed" THEN 1 ELSE 0 OBVIOUS
<1>2. reviews[d] <= faults + crashes + n BY <1>1 DEF ReviewsExcused
<1>3. reviews[d] \in Nat /\ faults \in Nat /\ crashes \in Nat BY DEF NewsTyped
<1>4. reviews[d] <= faults' + crashes' + n BY <1>2, <1>3
<1> QED BY <1>1, <1>4
-----------------------------------------------------------------------------
(* What happens outside the task *)

LEMMA ArrivalKeeps ==
    ASSUME NewsInv, NEW items \in SUBSET Item, Ingest(items) \/ Switch(items)
    PROVE  NewsInv'
<1> USE DEF Terminal
<1>0. NewsTyped /\ InBatchOwned /\ AnalysedMarked /\ ReviewsExcused BY DEF NewsInv
<1>1. /\ UNCHANGED <<runOf, phase, batch, run, verdict, crashes, review, covered, excused, stranded,
                     reviews>>
      /\ faults' \in Nat /\ faults <= faults'
  <2>1. CASE Ingest(items)
    <3>1. faults' \in Nat /\ faults <= faults'
      BY <1>0, <2>1 DEF Ingest, Works, Fault, NewsTyped
    <3> QED BY <2>1, <3>1 DEF Ingest, task, history
  <2>2. CASE Switch(items) BY <1>0, <2>2 DEF Switch, task, failures, history, NewsTyped
  <2> QED BY <2>1, <2>2
<1>2. /\ status' \in [Item -> {"new", "pending", "in_batch"} \cup Terminal]
      /\ \A i \in Item : status'[i] = status[i] \/ (status[i] = "new" /\ status'[i] = "pending")
  BY <1>0 DEF Ingest, Switch, Push, NewsTyped
<1>3. NewsTyped' BY <1>0, <1>1, <1>2 DEF NewsTyped
<1>4. InBatchOwned' BY <1>0, <1>1, <1>2 DEF InBatchOwned, NewsTyped
<1>5. AnalysedMarked' BY <1>0, <1>1, <1>2 DEF AnalysedMarked, NewsTyped
<1>6. ReviewsExcused' BY <1>0, <1>1, <1>2, ReviewsKept DEF NewsTyped
<1> QED BY <1>3, <1>4, <1>5, <1>6 DEF NewsInv

LEMMA CrashKeeps ==
    ASSUME NewsInv, Crash
    PROVE  NewsInv'
<1> USE DEF Terminal
<1>0. NewsTyped /\ InBatchOwned /\ AnalysedMarked /\ ReviewsExcused BY DEF NewsInv
<1>1. /\ UNCHANGED <<status, runOf, review, faults, covered, reviews>>
      /\ crashes' = crashes + 1
      /\ phase' = "down" /\ batch' = {}
      /\ excused' = excused \cup batch
  BY DEF Crash, rows, buffer
<1>2. crashes' \in Nat /\ crashes <= crashes' BY <1>0, <1>1 DEF NewsTyped
<1>3. NewsTyped' BY <1>0, <1>1, <1>2 DEF NewsTyped
<1>4. InBatchOwned' BY <1>0, <1>1, <1>2 DEF InBatchOwned, NewsTyped
<1>5. AnalysedMarked' BY <1>0, <1>1, <1>2 DEF AnalysedMarked, NewsTyped
<1>6. ReviewsExcused' BY <1>0, <1>1, <1>2, ReviewsKept DEF NewsTyped
<1> QED BY <1>3, <1>4, <1>5, <1>6 DEF NewsInv

LEMMA RestartKeeps ==
    ASSUME NewsInv, NEW steps \in 0..3, Restart(steps)
    PROVE  NewsInv'
<1> USE DEF Terminal
<1>0. NewsTyped /\ InBatchOwned /\ AnalysedMarked /\ ReviewsExcused BY DEF NewsInv
<1>1. /\ phase = "down" /\ phase' = "idle"
      /\ UNCHANGED <<batch, crashes, covered, excused, reviews>>
      /\ faults' \in Nat /\ faults <= faults'
      /\ review' = [d \in Day |->
                       IF steps >= 2 /\ review[d] = "processing" THEN "failed" ELSE review[d]]
  BY <1>0, WorksCounts DEF Restart, NewsTyped
<1>2. /\ status' \in [Item -> {"new", "pending", "in_batch"} \cup Terminal]
      /\ \A i \in Item : status[i] \in Terminal => status'[i] = status[i]
      /\ IF steps = 3 THEN \A i \in Item : status'[i] # "in_batch"
                      ELSE status' = status /\ stranded' = {i \in Item : status[i] = "in_batch"}
  BY <1>0 DEF Restart, Orphans, NewsTyped
<1>3. NewsTyped' BY <1>0, <1>1, <1>2 DEF NewsTyped
<1>4. InBatchOwned' BY <1>0, <1>1, <1>2 DEF InBatchOwned, NewsTyped
<1>5. AnalysedMarked' BY <1>0, <1>1, <1>2 DEF AnalysedMarked, NewsTyped
<1>6. ReviewsExcused'
  <2> SUFFICES ASSUME NEW d \in Day
               PROVE  reviews[d] <= faults' + crashes' + (IF review'[d] = "consumed" THEN 1 ELSE 0)
    BY <1>1 DEF ReviewsExcused
  <2>1. review'[d] = "consumed" <=> review[d] = "consumed" BY <1>1
  <2>2. PICK n \in {0, 1} : n = IF review[d] = "consumed" THEN 1 ELSE 0 OBVIOUS
  <2>3. n = IF review'[d] = "consumed" THEN 1 ELSE 0 BY <2>1, <2>2
  <2>4. reviews[d] <= faults + crashes + n BY <1>0, <2>2 DEF ReviewsExcused
  <2>5. reviews[d] \in Nat /\ faults \in Nat /\ crashes \in Nat BY <1>0 DEF NewsTyped
  <2>6. reviews[d] <= faults' + crashes' + n BY <1>1, <2>4, <2>5
  <2> QED BY <2>3, <2>6
<1> QED BY <1>3, <1>4, <1>5, <1>6 DEF NewsInv
-----------------------------------------------------------------------------
(* The review *)

LEMMA BeginReviewKeeps ==
    ASSUME NewsInv, BeginReview
    PROVE  NewsInv'
<1> USE DEF Terminal
<1>0. NewsTyped /\ InBatchOwned /\ AnalysedMarked /\ ReviewsExcused BY DEF NewsInv
<1>1. /\ UNCHANGED <<status, runOf, batch, run, verdict, faults, crashes, covered, excused,
                     stranded, reviews>>
      /\ phase = "idle" /\ phase' = "review"
      /\ review' = [review EXCEPT ![today] = "processing"]
      /\ review[today] # "consumed"
  BY DEF BeginReview, Unclaimed, buffer, failures, history
<1>2. /\ review' \in [Day -> {"none", "processing", "failed", "consumed"}]
      /\ \A d \in Day : review'[d] = "consumed" <=> review[d] = "consumed"
  BY <1>0, <1>1 DEF NewsTyped
<1>3. NewsTyped' BY <1>0, <1>1, <1>2 DEF NewsTyped
<1>4. InBatchOwned' BY <1>0, <1>1, <1>2 DEF InBatchOwned, NewsTyped
<1>5. AnalysedMarked' BY <1>0, <1>1, <1>2 DEF AnalysedMarked, NewsTyped
<1>6. ReviewsExcused' BY <1>0, <1>1, <1>2 DEF ReviewsExcused
<1> QED BY <1>3, <1>4, <1>5, <1>6 DEF NewsInv

LEMMA EndReviewKeeps ==
    ASSUME NewsInv, NEW ended \in BOOLEAN, NEW ok \in BOOLEAN, EndReview(ended, ok)
    PROVE  NewsInv'
<1> USE DEF Terminal
<1>0. NewsTyped /\ InBatchOwned /\ AnalysedMarked /\ ReviewsExcused BY DEF NewsInv
<1>1. /\ UNCHANGED <<status, runOf, batch, run, verdict, crashes, covered, excused, stranded>>
      /\ phase = "review" /\ phase' = "news"
      /\ faults' \in Nat /\ faults <= faults'
  BY <1>0, WorksCounts DEF EndReview, buffer, NewsTyped
<1>d. PICK d \in Day :
        /\ review[d] = "processing"
        /\ reviews' = [reviews EXCEPT ![d] = @ + (IF ended THEN 1 ELSE 0)]
        /\ review' = [review EXCEPT ![d] =
                        IF ~ ok THEN @ ELSE IF ended THEN "consumed" ELSE "failed"]
  BY DEF EndReview
<1>2. /\ review' \in [Day -> {"none", "processing", "failed", "consumed"}]
      /\ reviews' \in [Day -> Nat]
      /\ \A e \in Day : e # d => review'[e] = review[e] /\ reviews'[e] = reviews[e]
      /\ \/ reviews'[d] = reviews[d]
         \/ /\ reviews'[d] = reviews[d] + 1
            /\ review'[d] = "consumed" \/ faults' = faults + 1
  <2>1. reviews[d] \in Nat BY <1>0 DEF NewsTyped
  <2>2. review' \in [Day -> {"none", "processing", "failed", "consumed"}]
    BY <1>0, <1>d DEF NewsTyped
  <2>3. CASE ended
    <3>1. reviews' = [reviews EXCEPT ![d] = reviews[d] + 1] BY <1>d, <2>3
    <3>2. CASE ok
      <4>1. review' = [review EXCEPT ![d] = "consumed"] BY <1>d, <2>3, <3>2
      <4> QED BY <1>0, <1>d, <2>1, <2>2, <3>1, <4>1 DEF NewsTyped
    <3>3. CASE ~ ok
      <4>1. faults' = faults + 1 BY <1>0, <3>3, WorksCounts DEF EndReview, NewsTyped
      <4> QED BY <1>0, <1>d, <2>1, <2>2, <3>1, <4>1 DEF NewsTyped
    <3> QED BY <3>2, <3>3
  <2>4. CASE ~ ended
    <3>1. reviews' = [reviews EXCEPT ![d] = reviews[d] + 0] BY <1>d, <2>4
    <3>2. reviews' = reviews BY <1>0, <2>1, <3>1 DEF NewsTyped
    <3> QED BY <1>0, <1>d, <2>2, <3>2 DEF NewsTyped
  <2> QED BY <2>3, <2>4
<1>3. NewsTyped' BY <1>0, <1>1, <1>2 DEF NewsTyped
<1>4. InBatchOwned' BY <1>0, <1>1, <1>2 DEF InBatchOwned, NewsTyped
<1>5. AnalysedMarked' BY <1>0, <1>1, <1>2 DEF AnalysedMarked, NewsTyped
<1>6. ReviewsExcused'
  <2> SUFFICES ASSUME NEW e \in Day
               PROVE  reviews'[e] <= faults' + crashes' + (IF review'[e] = "consumed" THEN 1 ELSE 0)
    BY DEF ReviewsExcused
  <2>1. /\ reviews[e] \in Nat /\ faults \in Nat /\ crashes \in Nat /\ crashes' = crashes
        /\ IF review[e] = "consumed" THEN reviews[e] <= faults + crashes + 1
                                     ELSE reviews[e] <= faults + crashes
    BY <1>0, <1>1 DEF NewsTyped, ReviewsExcused
  <2>2. CASE e # d BY <1>1, <1>2, <2>1, <2>2
  <2>3. CASE e = d
    <3>1. reviews[d] <= faults + crashes BY <1>d, <2>1, <2>3
    <3>2. CASE reviews'[d] = reviews[d]
      BY <1>1, <1>2, <2>1, <2>3, <3>1, <3>2
    <3>3. CASE reviews'[d] = reviews[d] + 1 /\ review'[d] = "consumed"
      <4>1. (IF review'[d] = "consumed" THEN 1 ELSE 0) = 1 BY <3>3
      <4>2. reviews'[d] <= faults' + crashes' + 1 BY <1>1, <2>1, <2>3, <3>1, <3>3
      <4> QED BY <2>3, <4>1, <4>2
    <3>4. CASE reviews'[d] = reviews[d] + 1 /\ faults' = faults + 1
      BY <1>1, <2>1, <2>3, <3>1, <3>4
    <3> QED BY <1>2, <3>2, <3>3, <3>4
  <2> QED BY <2>2, <2>3
<1> QED BY <1>3, <1>4, <1>5, <1>6 DEF NewsInv
-----------------------------------------------------------------------------
(* The batch *)

LEMMA TickKeeps ==
    ASSUME NewsInv, NEW failed \in SUBSET {"count", "age_out", "read"}, Tick(failed)
    PROVE  NewsInv'
<1> USE DEF Terminal
<1>0. NewsTyped /\ InBatchOwned /\ AnalysedMarked /\ ReviewsExcused BY DEF NewsInv
<1>1. /\ UNCHANGED <<runOf, run, verdict, crashes, review, stranded, reviews>>
      /\ phase = "news"
      /\ faults' \in Nat /\ faults <= faults'
  <2>1. Works(failed = {}) BY DEF Tick
  <2> QED BY <1>0, <2>1, WorksCounts DEF Tick, NewsTyped
<1>2. /\ status' \in [Item -> {"new", "pending", "in_batch"} \cup Terminal]
      /\ \A i \in Item : status'[i] = status[i] \/ (status[i] = "pending" /\ status'[i] = "dropped")
      /\ \/ phase' = "idle" /\ UNCHANGED <<batch, covered, excused>>
         \/ /\ phase' = "taken" /\ batch' \subseteq Item
            /\ covered' = covered \ batch' /\ excused' = excused \ batch'
  BY <1>0 DEF Tick, Newest, Pending, NewsTyped
<1>3. NewsTyped' BY <1>0, <1>1, <1>2 DEF NewsTyped
<1>4. InBatchOwned' BY <1>0, <1>1, <1>2 DEF InBatchOwned, NewsTyped
<1>5. AnalysedMarked' BY <1>0, <1>1, <1>2 DEF AnalysedMarked, NewsTyped
<1>6. ReviewsExcused' BY <1>0, <1>1, <1>2, ReviewsKept DEF NewsTyped
<1> QED BY <1>3, <1>4, <1>5, <1>6 DEF NewsInv

LEMMA CreateRunKeeps ==
    ASSUME NewsInv, NEW ok \in BOOLEAN, CreateRun(ok)
    PROVE  NewsInv'
<1> USE DEF Terminal
<1>0. NewsTyped /\ InBatchOwned /\ AnalysedMarked /\ ReviewsExcused BY DEF NewsInv
<1>1. /\ phase = "taken" /\ phase' = "turn"
      /\ UNCHANGED <<batch, verdict, crashes, review, covered, excused, stranded, reviews>>
      /\ faults' \in Nat /\ faults <= faults'
  BY <1>0, WorksCounts DEF CreateRun, history, NewsTyped
<1>2. /\ status' \in [Item -> {"new", "pending", "in_batch"} \cup Terminal]
      /\ \A i \in Item \ batch : status'[i] = status[i]
      /\ \/ UNCHANGED <<status, runOf>>
         \/ \A i \in batch : runOf'[i] = run'
  BY <1>0 DEF CreateRun, NewsTyped
<1>3. NewsTyped' BY <1>0, <1>1, <1>2 DEF NewsTyped
<1>4. InBatchOwned' BY <1>0, <1>1, <1>2 DEF InBatchOwned, NewsTyped
<1>5. AnalysedMarked' BY <1>0, <1>1, <1>2 DEF AnalysedMarked, NewsTyped
<1>6. ReviewsExcused' BY <1>0, <1>1, <1>2, ReviewsKept DEF NewsTyped
<1> QED BY <1>3, <1>4, <1>5, <1>6 DEF NewsInv

LEMMA TurnKeeps ==
    ASSUME NewsInv, RefuseRun \/ AbandonRun \/ RecordAnalysis \/ SkipReview
    PROVE  NewsInv'
<1> USE DEF Terminal
<1>0. NewsTyped /\ InBatchOwned /\ AnalysedMarked /\ ReviewsExcused BY DEF NewsInv
<1>1. /\ UNCHANGED <<status, runOf, batch, run, crashes, review, covered, excused, stranded,
                     reviews>>
      /\ faults' \in Nat /\ faults <= faults'
  BY <1>0 DEF RefuseRun, AbandonRun, RecordAnalysis, SkipReview, Fault, rows, buffer, failures,
              history, NewsTyped
<1>2. \/ phase \in {"taken", "turn"} /\ phase' = "settle" /\ verdict' = "pending"
      \/ phase = "turn" /\ UNCHANGED <<phase, verdict>>
      \/ phase = "idle" /\ phase' = "news" /\ UNCHANGED verdict
  BY DEF RefuseRun, AbandonRun, RecordAnalysis, SkipReview
<1>3. NewsTyped' BY <1>0, <1>1, <1>2 DEF NewsTyped
<1>4. InBatchOwned' BY <1>0, <1>1, <1>2 DEF InBatchOwned, NewsTyped
<1>5. AnalysedMarked' BY <1>0, <1>1, <1>2 DEF AnalysedMarked, NewsTyped
<1>6. ReviewsExcused' BY <1>0, <1>1, <1>2, ReviewsKept DEF NewsTyped
<1> QED BY <1>3, <1>4, <1>5, <1>6 DEF NewsInv

LEMMA EndRunKeeps ==
    ASSUME NewsInv, NEW ending \in {"completed", "failed", "cancelled", "token_budget"},
           NEW finished \in BOOLEAN, NEW readable \in BOOLEAN,
           EndRun(ending, finished, readable)
    PROVE  NewsInv'
<1> USE DEF Terminal
<1>0. NewsTyped /\ InBatchOwned /\ AnalysedMarked /\ ReviewsExcused BY DEF NewsInv
<1>1. /\ UNCHANGED <<status, runOf, batch, run, crashes, review, stranded, reviews>>
      /\ phase = "turn" /\ phase' = "settle"
      /\ faults' \in Nat /\ faults <= faults'
  <2>1. Works(finished /\ readable) BY DEF EndRun
  <2> QED BY <1>0, <2>1, WorksCounts DEF EndRun, buffer, NewsTyped
<1>2. /\ verdict' \in {"pending"} \cup Terminal
      /\ \/ covered' = covered /\ excused \subseteq excused'
         \/ covered' = covered \cup batch /\ excused' = excused \cup batch
         \/ covered' = covered \cup batch /\ excused' = excused /\ verdict' = "analyzed"
  BY DEF EndRun, Verdict
<1>3. NewsTyped' BY <1>0, <1>1, <1>2 DEF NewsTyped
<1>4. InBatchOwned' BY <1>0, <1>1, <1>2 DEF InBatchOwned, NewsTyped
<1>5. AnalysedMarked'
  <2>1. batch \cap covered = {} /\ batch \subseteq Item /\ covered \subseteq Item
    BY <1>0, <1>1 DEF AnalysedMarked, NewsTyped
  <2>2. \A i \in covered : status'[i] \in Terminal \/ i \in excused
    BY <1>0, <1>1 DEF AnalysedMarked
  <2>3. \A i \in covered' :
          i \in covered \/ (i \in batch /\ (i \in excused' \/ verdict' = "analyzed"))
    BY <1>2
  <2>4. excused \subseteq excused' BY <1>2
  <2> QED BY <1>1, <1>2, <2>1, <2>2, <2>3, <2>4 DEF AnalysedMarked
<1>6. ReviewsExcused' BY <1>0, <1>1, <1>2, ReviewsKept DEF NewsTyped
<1> QED BY <1>3, <1>4, <1>5, <1>6 DEF NewsInv

LEMMA SettleKeeps ==
    ASSUME NewsInv, NEW ok \in BOOLEAN, Settle(ok)
    PROVE  NewsInv'
<1> USE DEF Terminal
<1>0. NewsTyped /\ InBatchOwned /\ AnalysedMarked /\ ReviewsExcused BY DEF NewsInv
<1>1. /\ phase = "settle" /\ phase' = "idle" /\ batch' = {}
      /\ UNCHANGED <<crashes, review, covered, reviews>>
      /\ faults' \in Nat /\ faults <= faults'
  BY <1>0, WorksCounts DEF Settle, NewsTyped
<1>2. /\ status' \in [Item -> {"new", "pending", "in_batch"} \cup Terminal]
      /\ \/ /\ \A i \in Item : status'[i] = IF i \in batch THEN verdict ELSE status[i]
            /\ stranded' = stranded \ batch /\ excused' = excused
         \/ status' = status /\ stranded' = stranded \cup batch /\ excused' = excused \cup batch
  BY <1>0, <1>1 DEF Settle, WriteVerdict, WriteStatus, buffer, NewsTyped
<1>3. NewsTyped' BY <1>0, <1>1, <1>2 DEF NewsTyped
<1>4. InBatchOwned' BY <1>0, <1>1, <1>2 DEF InBatchOwned, NewsTyped
<1>5. AnalysedMarked' BY <1>0, <1>1, <1>2 DEF AnalysedMarked, NewsTyped
<1>6. ReviewsExcused' BY <1>0, <1>1, <1>2, ReviewsKept DEF NewsTyped
<1> QED BY <1>3, <1>4, <1>5, <1>6 DEF NewsInv
-----------------------------------------------------------------------------
LEMMA IdleKeeps ==
    ASSUME NewsInv,
           UNCHANGED vars \/ HalfDay \/ \E items \in SUBSET Item : Refresh(items)
    PROVE  NewsInv'
<1>1. UNCHANGED <<status, runOf, batch, run, phase, verdict, review, reviews, faults, crashes,
                  covered, excused, stranded>>
  BY DEF vars, rows, buffer, task, failures, history, HalfDay, Refresh
<1> QED BY <1>1 DEF NewsInv, NewsTyped, InBatchOwned, AnalysedMarked, ReviewsExcused

LEMMA NewsStep == NewsInv /\ [Next]_vars => NewsInv'
<1> SUFFICES ASSUME NewsInv, [Next]_vars PROVE NewsInv' OBVIOUS
<1>1. CASE UNCHANGED vars \/ HalfDay \/ \E items \in SUBSET Item : Refresh(items)
  BY <1>1, IdleKeeps
<1>2. CASE Task
  BY <1>2, BeginReviewKeeps, EndReviewKeeps, TickKeeps, CreateRunKeeps, SettleKeeps, TurnKeeps,
     EndRunKeeps, RestartKeeps DEF Task
<1> QED BY <1>1, <1>2, ArrivalKeeps, CrashKeeps DEF Next

LEMMA NewsInvariant == Spec => []NewsInv
BY InitNews, NewsStep, PTL DEF Spec
(* The types *)

BufferTyped ==
    /\ known \subseteq Item /\ event \subseteq known /\ batch \subseteq known
    /\ \A i \in Item : status[i] # "new" => i \in known
    /\ age \in [Item -> 0..(Window + 1)]

TaskTyped ==
    /\ phase \in {"taken", "turn", "settle"} <=> batch # {}
    /\ verdict \in {"none", "pending"} \cup Terminal
    /\ elapsed \in 0..MaxWait

(* A run under way has its row. *)
RunsTyped ==
    /\ runOf \in [Item -> RunId \cup {NoRun}]
    /\ running \subseteq RunId
    /\ run \in RunId \cup {NoRun}
    /\ phase = "turn" => run \in running

(* Beside the run under way, each row that says running was left by a failure or a crash. *)
RunsFew ==
    /\ faults <= MaxFaults /\ crashes <= MaxCrashes
    /\ phase = "turn" => Cardinality(running) <= faults + crashes + 1
    /\ phase # "turn" => Cardinality(running) <= faults + crashes

TypesInv == BufferTyped /\ TaskTyped /\ RunsTyped /\ RunsFew

LEMMA RunsAreFinite ==
    /\ IsFiniteSet(RunId) /\ Cardinality(RunId) = Cardinality(Item) + MaxFaults + MaxCrashes + 2
    /\ \A S \in SUBSET RunId : IsFiniteSet(S) /\ Cardinality(S) \in Nat
<1>1. Cardinality(Item) \in Nat /\ MaxFaults \in Nat /\ MaxCrashes \in Nat
  BY NewsAssumption, FS_CardinalityType
<1> DEFINE n == Cardinality(Item) + MaxFaults + MaxCrashes + 2
<1>2. n \in Nat /\ n >= 1 BY <1>1
<1>3. IsFiniteSet(1..n) /\ Cardinality(1..n) = n
  <2> HIDE DEF n
  <2> QED BY <1>2, FS_Interval
<1>4. IsFiniteSet(RunId) BY <1>3 DEF RunId
<1> QED BY <1>3, <1>4, FS_Subset, FS_CardinalityType DEF RunId

(* The rows never use up the ids, so that create_run finds a new one. *)
LEMMA NewRunIsNew ==
    ASSUME NewsInv, TypesInv, phase # "turn"
    PROVE  NewRun \in RunId /\ NewRun \notin running
<1> DEFINE named == {runOf[i] : i \in Item}
           used == running \cup named
<1>0. RunsTyped /\ RunsFew BY DEF TypesInv
<1>1. /\ Cardinality(Item) \in Nat /\ MaxFaults \in Nat /\ MaxCrashes \in Nat
      /\ faults \in Nat /\ crashes \in Nat
  BY NewsAssumption, FS_CardinalityType DEF NewsInv, NewsTyped
<1>2. IsFiniteSet(running) /\ Cardinality(running) \in Nat
  BY <1>0, RunsAreFinite DEF RunsTyped
<1>3. IsFiniteSet(named) /\ Cardinality(named) <= Cardinality(Item)
  <2>1. runOf \in Surjection(Item, named) BY <1>0 DEF RunsTyped, Surjection
  <2> HIDE DEF named
  <2> QED BY <2>1, NewsAssumption, FS_Surjection
<1>4. Cardinality(named) \in Nat BY <1>3, FS_CardinalityType
<1>5. /\ IsFiniteSet(used)
      /\ Cardinality(used) = Cardinality(running) + Cardinality(named)
                               - Cardinality(running \cap named)
  <2> HIDE DEF named
  <2> QED BY <1>2, <1>3, FS_Union
<1>6. Cardinality(running \cap named) \in Nat
  <2>1. running \cap named \subseteq running OBVIOUS
  <2> QED BY <1>2, <2>1, FS_Subset, FS_CardinalityType
<1>7. Cardinality(running) <= MaxFaults + MaxCrashes
  BY <1>0, <1>1, <1>2 DEF RunsFew
<1>8. Cardinality(used) < Cardinality(RunId)
  <2> HIDE DEF named, used
  <2> QED BY <1>1, <1>2, <1>3, <1>4, <1>5, <1>6, <1>7, RunsAreFinite
<1>9. ~ (RunId \subseteq used)
  <2> SUFFICES ASSUME RunId \subseteq used PROVE FALSE OBVIOUS
  <2>1. Cardinality(RunId) <= Cardinality(used) BY <1>5, FS_Subset
  <2>2. Cardinality(RunId) \in Nat /\ Cardinality(used) \in Nat
    BY <1>5, RunsAreFinite, FS_CardinalityType
  <2> HIDE DEF used
  <2> QED BY <1>8, <2>1, <2>2
<1>10. \E r \in RunId : r \notin running /\ \A i \in Item : runOf[i] # r BY <1>9
<1> QED BY <1>10 DEF NewRun

LEMMA InitTypes == Init => TypesInv
<1> SUFFICES ASSUME Init PROVE TypesInv OBVIOUS
<1>1. BufferTyped BY NewsAssumption DEF Init, BufferTyped
<1>2. TaskTyped BY NewsAssumption DEF Init, TaskTyped
<1>3. RunsTyped BY DEF Init, RunsTyped, NoRun
<1>4. RunsFew BY NewsAssumption, FS_EmptySet DEF Init, RunsFew
<1> QED BY <1>1, <1>2, <1>3, <1>4 DEF TypesInv

(* A failure keeps within its bound, and makes room for one more row left behind. *)
LEMMA FaultsBounded ==
    ASSUME NewsTyped, RunsFew, NEW ok \in BOOLEAN, Works(ok)
    PROVE  /\ faults' \in Nat /\ faults <= faults' /\ faults' <= MaxFaults
           /\ ~ ok => faults' = faults + 1
BY NewsAssumption DEF NewsTyped, RunsFew, Works, Fault

(* With no more rows than before, and the run under way still so or accounted for. *)
LEMMA FewKept ==
    ASSUME NewsTyped, RunsTyped, RunsFew, running' \subseteq running,
           faults' \in Nat, faults <= faults', faults' <= MaxFaults,
           crashes' \in Nat, crashes <= crashes', crashes' <= MaxCrashes,
           \/ phase # "turn" \/ phase' = "turn"
           \/ faults + crashes + 1 <= faults' + crashes'
    PROVE  RunsFew'
<1>1. Cardinality(running) \in Nat /\ IsFiniteSet(running) BY RunsAreFinite DEF RunsTyped
<1>2. Cardinality(running') \in Nat /\ Cardinality(running') <= Cardinality(running)
  BY <1>1, FS_Subset, FS_CardinalityType
<1>3. faults \in Nat /\ crashes \in Nat BY DEF NewsTyped
<1>4. MaxFaults \in Nat /\ MaxCrashes \in Nat BY NewsAssumption
<1>5. phase' = "turn" => Cardinality(running') <= faults' + crashes' + 1
  BY <1>1, <1>2, <1>3 DEF RunsFew
<1>6. ASSUME phase' # "turn" PROVE Cardinality(running') <= faults' + crashes'
  <2>1. CASE phase # "turn"
    <3>1. Cardinality(running) <= faults + crashes BY <2>1 DEF RunsFew
    <3> QED BY <1>1, <1>2, <1>3, <3>1
  <2>2. CASE phase = "turn"
    <3>1. Cardinality(running) <= faults + crashes + 1 BY <2>2 DEF RunsFew
    <3>2. faults + crashes + 1 <= faults' + crashes' BY <1>6, <2>2
    <3>3. \A c, d, f, x, g, y \in Nat :
            d <= c /\ c <= f + x + 1 /\ f + x + 1 <= g + y => d <= g + y
      OBVIOUS
    <3> QED BY <1>1, <1>2, <1>3, <3>1, <3>2, <3>3
  <2> QED BY <2>1, <2>2
<1> QED BY <1>5, <1>6 DEF RunsFew

LEMMA ArrivalTypes ==
    ASSUME NewsInv, TypesInv, NEW items \in SUBSET Item,
           Refresh(items) \/ Ingest(items) \/ Switch(items)
    PROVE  TypesInv'
<1>0. NewsTyped /\ BufferTyped /\ TaskTyped /\ RunsTyped /\ RunsFew BY DEF NewsInv, TypesInv
<1>1. UNCHANGED <<runOf, age, running, phase, batch, run, verdict, elapsed, crashes>>
  BY DEF Refresh, Ingest, Switch, rows, buffer, task, failures
<1>2. /\ known \subseteq known' /\ known' \subseteq Item /\ event' \subseteq known'
      /\ \A i \in Item : status'[i] # "new" => i \in known'
  <2>1. CASE Refresh(items)
    BY <1>0, <2>1 DEF Refresh, rows, buffer, BufferTyped
  <2>2. CASE Ingest(items)
    BY <1>0, <2>2 DEF Ingest, Push, BufferTyped, NewsTyped
  <2>3. CASE Switch(items)
    BY <1>0, <2>3 DEF Switch, Push, BufferTyped, NewsTyped
  <2> QED BY <2>1, <2>2, <2>3
<1>3. faults' \in Nat /\ faults <= faults' /\ faults' <= MaxFaults
  <2>1. faults' = faults \/ \E ok \in BOOLEAN : Works(ok)
    BY DEF Refresh, Ingest, Switch, failures
  <2> QED BY <1>0, <2>1, FaultsBounded, NewsAssumption DEF NewsTyped, RunsFew
<1>4. BufferTyped' BY <1>0, <1>1, <1>2 DEF BufferTyped
<1>5. TaskTyped' /\ RunsTyped' BY <1>0, <1>1 DEF TaskTyped, RunsTyped
<1>6. RunsFew'
  <2>1. crashes \in Nat /\ crashes <= MaxCrashes BY <1>0 DEF NewsTyped, RunsFew
  <2> QED BY <1>0, <1>1, <1>3, <2>1, FewKept
<1> QED BY <1>4, <1>5, <1>6 DEF TypesInv

(* The steps of the task before it holds a batch, and of a run that goes on or ends there. *)
LEMMA QuietTypes ==
    ASSUME NewsInv, TypesInv,
           \/ BeginReview \/ SkipReview \/ RefuseRun \/ AbandonRun \/ RecordAnalysis
           \/ HalfDay \/ UNCHANGED vars
           \/ \E ended, ok \in BOOLEAN : EndReview(ended, ok)
    PROVE  TypesInv'
<1>0. NewsTyped /\ BufferTyped /\ TaskTyped /\ RunsTyped /\ RunsFew BY DEF NewsInv, TypesInv
<1>1. UNCHANGED <<known, event, status, runOf, age, running, batch, run, elapsed, crashes>>
  BY DEF BeginReview, SkipReview, RefuseRun, AbandonRun, RecordAnalysis, HalfDay, EndReview,
         vars, world, rows, buffer, task, failures
<1>2. \/ UNCHANGED <<phase, verdict>>
      \/ phase \in {"taken", "turn"} /\ phase' = "settle" /\ verdict' = "pending"
      \/ /\ phase \in {"idle", "review"} /\ phase' \in {"review", "news"}
         /\ verdict' = verdict
  BY DEF BeginReview, SkipReview, RefuseRun, AbandonRun, RecordAnalysis, HalfDay, EndReview,
         vars, task
<1>3. /\ faults' \in Nat /\ faults <= faults' /\ faults' <= MaxFaults
      /\ phase = "turn" /\ phase' # "turn" => faults' = faults + 1
  <2>1. \/ faults' = faults /\ (phase = "turn" => phase' = "turn")
        \/ Fault
        \/ phase = "review" /\ \E ok \in BOOLEAN : Works(ok)
    BY DEF BeginReview, SkipReview, RefuseRun, AbandonRun, RecordAnalysis, HalfDay, EndReview,
           vars, task, failures
  <2>2. CASE Fault BY <1>0, <2>2, NewsAssumption DEF Fault, NewsTyped
  <2> QED BY <1>0, <2>1, <2>2, FaultsBounded DEF NewsTyped, RunsFew
<1>4. BufferTyped' BY <1>0, <1>1 DEF BufferTyped
<1>5. TaskTyped' BY <1>0, <1>1, <1>2 DEF TaskTyped
<1>6. RunsTyped' BY <1>0, <1>1, <1>2 DEF RunsTyped
<1>7. RunsFew'
  <2>1. crashes \in Nat /\ crashes <= MaxCrashes /\ faults \in Nat
    BY <1>0 DEF NewsTyped, RunsFew
  <2>2. \/ phase # "turn" \/ phase' = "turn" \/ faults + crashes + 1 <= faults' + crashes'
    <3>1. \A f, x, g, y \in Nat : g = f + 1 /\ y = x => f + x + 1 <= g + y OBVIOUS
    <3> QED BY <1>1, <1>3, <2>1, <3>1
  <2>3. running' \subseteq running /\ crashes' \in Nat /\ crashes <= crashes' /\ crashes' <= MaxCrashes
    BY <1>1, <2>1
  <2> QED BY <1>0, <1>3, <2>2, <2>3, FewKept
<1> QED BY <1>4, <1>5, <1>6, <1>7 DEF TypesInv

LEMMA MinOfTwo ==
    ASSUME NEW m \in Nat, NEW n \in Nat
    PROVE  Min({m, n}) \in {m, n} /\ Min({m, n}) <= m /\ Min({m, n}) <= n
<1>1. \E x \in {m, n} : \A y \in {m, n} : x <= y
  <2>1. CASE m <= n BY <2>1
  <2>2. CASE n <= m BY <2>2
  <2> QED BY <2>1, <2>2
<1>2. Min({m, n}) \in {m, n} /\ \A y \in {m, n} : Min({m, n}) <= y BY <1>1 DEF Min
<1> QED BY <1>2

LEMMA OlderTyped ==
    ASSUME age \in [Item -> 0..(Window + 1)]
    PROVE  Older \in [Item -> 0..(Window + 1)]
<1> SUFFICES ASSUME NEW i \in Item PROVE Older[i] \in 0..(Window + 1) BY DEF Older
<1>1. Window + 1 \in Nat /\ age[i] + 1 \in Nat /\ age[i] \in 0..(Window + 1) BY NewsAssumption
<1>2. PICK m : m = Min({age[i] + 1, Window + 1}) OBVIOUS
<1>3. m \in Nat /\ m <= Window + 1 BY <1>1, <1>2, MinOfTwo
<1>4. m \in 0..(Window + 1) BY <1>1, <1>3
<1> QED BY <1>1, <1>2, <1>4 DEF Older

LEMMA WaitTyped ==
    ASSUME NEW n \in 0..MaxWait
    PROVE  Wait(n) \in 0..MaxWait
<1>1. MaxWait \in Nat /\ n + 1 \in Nat BY NewsAssumption
<1>2. PICK m : m = Min({n + 1, MaxWait}) OBVIOUS
<1>3. m \in Nat /\ m <= MaxWait BY <1>1, <1>2, MinOfTwo
<1> QED BY <1>1, <1>2, <1>3 DEF Wait

(* A batch that is due is not empty. *)
LEMMA NewestTyped ==
    ASSUME NEW kept \in SUBSET Item, kept # {}, NEW old, NEW b \in Newest(kept, old)
    PROVE  b \subseteq kept /\ b # {}
<1>1. IsFiniteSet(kept) BY NewsAssumption, FS_Subset
<1>2. Cardinality(kept) \in Nat /\ Cardinality(kept) # 0 BY <1>1, FS_CardinalityType, FS_EmptySet
<1>3. BatchSize \in Nat /\ BatchSize # 0 BY NewsAssumption
<1>4. Cardinality(b) = Min({BatchSize, Cardinality(kept)}) /\ b \subseteq kept BY DEF Newest
<1>5. Cardinality(b) \in {BatchSize, Cardinality(kept)} BY <1>2, <1>3, <1>4, MinOfTwo
<1> QED BY <1>2, <1>3, <1>4, <1>5, FS_EmptySet

LEMMA TickTypes ==
    ASSUME NewsInv, TypesInv, NEW failed \in SUBSET {"count", "age_out", "read"}, Tick(failed)
    PROVE  TypesInv'
<1>0. NewsTyped /\ BufferTyped /\ TaskTyped /\ RunsTyped /\ RunsFew BY DEF NewsInv, TypesInv
<1>1. UNCHANGED <<known, event, runOf, running, run, verdict, crashes>>
  BY DEF Tick, world
<1>2. phase = "news" /\ batch = {} BY <1>0 DEF Tick, TaskTyped
<1>3. \/ phase' = "idle" /\ batch' = {}
      \/ phase' = "taken" /\ batch' # {} /\ batch' \subseteq Pending
  <2> DEFINE kept == {i \in Pending : "age_out" \in failed \/ ~ Aged(i, Older)}
  <2>1. kept \in SUBSET Item BY DEF Pending
  <2>2. \/ phase' = "idle" /\ batch' = batch
        \/ phase' = "taken" /\ kept # {} /\ batch' \in Newest(kept, Older)
    BY DEF Tick
  <2>3. kept \subseteq Pending OBVIOUS
  <2> HIDE DEF kept
  <2>4. PICK b : b = batch' OBVIOUS
  <2>5. b \in Newest(kept, Older) /\ kept # {} => b # {} /\ b \subseteq kept
    BY <2>1, NewestTyped
  <2> QED BY <1>2, <2>2, <2>3, <2>4, <2>5
<1>4. \A i \in Item : status'[i] # "new" => status[i] # "new" BY <1>0 DEF Tick, Pending, NewsTyped
<1>5. Pending \subseteq known BY <1>0 DEF Pending, BufferTyped
<1>6. age' \in [Item -> 0..(Window + 1)] BY <1>0, OlderTyped DEF Tick, BufferTyped
<1>7. elapsed' \in 0..MaxWait
  <2>1. 0 \in 0..MaxWait BY NewsAssumption
  <2>2. elapsed' = 0 \/ elapsed' = Wait(elapsed) BY DEF Tick
  <2> QED BY <1>0, <2>1, <2>2, WaitTyped DEF TaskTyped
<1>8. BufferTyped' BY <1>0, <1>1, <1>2, <1>3, <1>4, <1>5, <1>6 DEF BufferTyped
<1>9. TaskTyped' BY <1>0, <1>1, <1>3, <1>7 DEF TaskTyped
<1>10. RunsTyped' BY <1>0, <1>1, <1>3 DEF RunsTyped
<1>11. RunsFew'
  <2>1. Works(failed = {}) BY DEF Tick
  <2>2. faults' \in Nat /\ faults <= faults' /\ faults' <= MaxFaults BY <1>0, <2>1, FaultsBounded
  <2>3. crashes \in Nat /\ crashes <= MaxCrashes BY <1>0 DEF NewsTyped, RunsFew
  <2> QED BY <1>0, <1>1, <1>2, <2>2, <2>3, FewKept
<1> QED BY <1>8, <1>9, <1>10, <1>11 DEF TypesInv

LEMMA CreateRunTypes ==
    ASSUME NewsInv, TypesInv, NEW ok \in BOOLEAN, CreateRun(ok)
    PROVE  TypesInv'
<1>0. NewsTyped /\ BufferTyped /\ TaskTyped /\ RunsTyped /\ RunsFew BY DEF NewsInv, TypesInv
<1>1. /\ phase = "taken" /\ phase' = "turn"
      /\ run' = NewRun /\ running' = running \cup {run'}
      /\ UNCHANGED <<known, event, age, batch, verdict, elapsed, crashes>>
  BY DEF CreateRun, world
<1>2. run' \in RunId /\ run' \notin running BY <1>1, NewRunIsNew
<1>3. /\ runOf' \in [Item -> RunId \cup {NoRun}]
      /\ \A i \in Item : status'[i] # "new" => status[i] # "new" \/ i \in batch
  BY <1>0, <1>2 DEF CreateRun, RunsTyped, NewsTyped
<1>4. BufferTyped' BY <1>0, <1>1, <1>3 DEF BufferTyped
<1>5. TaskTyped' BY <1>0, <1>1 DEF TaskTyped
<1>6. RunsTyped' BY <1>0, <1>1, <1>2, <1>3 DEF RunsTyped
<1>7. RunsFew'
  <2>1. Works(ok) BY DEF CreateRun
  <2>2. faults' \in Nat /\ faults <= faults' /\ faults' <= MaxFaults BY <1>0, <2>1, FaultsBounded
  <2>3. IsFiniteSet(running) /\ Cardinality(running) \in Nat
    BY <1>0, RunsAreFinite DEF RunsTyped
  <2>4. PICK r : r = run' OBVIOUS
  <2>5. Cardinality(running \cup {r}) = Cardinality(running) + 1
    BY <1>2, <2>3, <2>4, FS_AddElement
  <2>6. Cardinality(running') = Cardinality(running) + 1 BY <1>1, <2>4, <2>5
  <2>7. Cardinality(running) <= faults + crashes BY <1>0, <1>1 DEF RunsFew
  <2>8. crashes \in Nat /\ crashes <= MaxCrashes /\ faults \in Nat
    BY <1>0 DEF NewsTyped, RunsFew
  <2>9. \A c, d, f, x, g \in Nat :
          d = c + 1 /\ c <= f + x /\ f <= g => d <= g + x + 1
    OBVIOUS
  <2>10. Cardinality(running') <= faults' + crashes + 1
    BY <2>2, <2>3, <2>6, <2>7, <2>8, <2>9
  <2> QED BY <1>1, <2>2, <2>8, <2>10 DEF RunsFew
<1> QED BY <1>4, <1>5, <1>6, <1>7 DEF TypesInv

LEMMA EndRunTypes ==
    ASSUME NewsInv, TypesInv, NEW ending \in {"completed", "failed", "cancelled", "token_budget"},
           NEW finished \in BOOLEAN, NEW readable \in BOOLEAN,
           EndRun(ending, finished, readable)
    PROVE  TypesInv'
<1>0. NewsTyped /\ BufferTyped /\ TaskTyped /\ RunsTyped /\ RunsFew BY DEF NewsInv, TypesInv
<1>1. /\ phase = "turn" /\ phase' = "settle"
      /\ running' = IF finished THEN running \ {run} ELSE running
      /\ UNCHANGED <<known, event, status, runOf, age, batch, run, elapsed, crashes>>
  BY DEF EndRun, world, buffer
<1>2. verdict' \in {"none", "pending"} \cup Terminal BY DEF EndRun, Verdict, Terminal
<1>3. Works(finished /\ readable) BY DEF EndRun
<1>4. /\ faults' \in Nat /\ faults <= faults' /\ faults' <= MaxFaults
      /\ ~ (finished /\ readable) => faults' = faults + 1
  BY <1>0, <1>3, FaultsBounded
<1>5. crashes \in Nat /\ crashes <= MaxCrashes /\ faults \in Nat BY <1>0 DEF NewsTyped, RunsFew
<1>6. BufferTyped' BY <1>0, <1>1 DEF BufferTyped
<1>7. TaskTyped' BY <1>0, <1>1, <1>2 DEF TaskTyped
<1>8. RunsTyped' BY <1>0, <1>1 DEF RunsTyped
<1>9. RunsFew'
  <2>1. CASE finished
    <3>1. run \in running /\ IsFiniteSet(running) /\ Cardinality(running) \in Nat
      BY <1>0, <1>1, RunsAreFinite DEF RunsTyped
    <3>2. Cardinality(running') = Cardinality(running) - 1
      BY <1>1, <2>1, <3>1, FS_RemoveElement
    <3>3. Cardinality(running) <= faults + crashes + 1 BY <1>0, <1>1 DEF RunsFew
    <3>4. \A c, f, x, g \in Nat : c <= f + x + 1 /\ f <= g => c - 1 <= g + x OBVIOUS
    <3>5. Cardinality(running') <= faults' + crashes BY <1>4, <1>5, <3>1, <3>2, <3>3, <3>4
    <3> QED BY <1>1, <1>4, <1>5, <3>5 DEF RunsFew
  <2>2. CASE ~ finished
    <3>1. \A f, x, g \in Nat : g = f + 1 => f + x + 1 <= g + x OBVIOUS
    <3>2. faults + crashes + 1 <= faults' + crashes' BY <1>1, <1>4, <1>5, <2>2, <3>1
    <3>3. /\ running' \subseteq running
          /\ crashes' \in Nat /\ crashes <= crashes' /\ crashes' <= MaxCrashes
      BY <1>1, <1>5
    <3> QED BY <1>0, <1>4, <3>2, <3>3, FewKept
  <2> QED BY <2>1, <2>2
<1> QED BY <1>6, <1>7, <1>8, <1>9 DEF TypesInv

LEMMA SettleTypes ==
    ASSUME NewsInv, TypesInv, NEW ok \in BOOLEAN, Settle(ok)
    PROVE  TypesInv'
<1>0. NewsTyped /\ BufferTyped /\ TaskTyped /\ RunsTyped /\ RunsFew BY DEF NewsInv, TypesInv
<1>1. /\ phase = "settle" /\ phase' = "idle" /\ batch' = {} /\ run' = NoRun /\ verdict' = "none"
      /\ UNCHANGED <<known, event, running, age, crashes>>
  BY DEF Settle, WriteVerdict, world, buffer
<1>2. /\ runOf' \in [Item -> RunId \cup {NoRun}]
      /\ \A i \in Item : status'[i] # "new" => status[i] # "new" \/ i \in batch
  BY <1>0 DEF Settle, WriteVerdict, WriteStatus, buffer, RunsTyped, NewsTyped
<1>3. elapsed' \in 0..MaxWait
  <2>1. 0 \in 0..MaxWait BY NewsAssumption
  <2> QED BY <1>0, <2>1 DEF Settle, TaskTyped
<1>4. faults' \in Nat /\ faults <= faults' /\ faults' <= MaxFaults
  <2>1. Works(ok) BY DEF Settle
  <2> QED BY <1>0, <2>1, FaultsBounded
<1>5. BufferTyped' BY <1>0, <1>1, <1>2 DEF BufferTyped
<1>6. TaskTyped' BY <1>0, <1>1, <1>3 DEF TaskTyped
<1>7. RunsTyped' BY <1>0, <1>1, <1>2 DEF RunsTyped
<1>8. RunsFew'
  <2>1. crashes \in Nat /\ crashes <= MaxCrashes BY <1>0 DEF NewsTyped, RunsFew
  <2> QED BY <1>0, <1>1, <1>4, <2>1, FewKept
<1> QED BY <1>5, <1>6, <1>7, <1>8 DEF TypesInv

LEMMA CrashTypes ==
    ASSUME NewsInv, TypesInv, Crash
    PROVE  TypesInv'
<1>0. NewsTyped /\ BufferTyped /\ TaskTyped /\ RunsTyped /\ RunsFew BY DEF NewsInv, TypesInv
<1>1. /\ phase' = "down" /\ event' = {} /\ batch' = {} /\ run' = NoRun /\ verdict' = "none"
      /\ elapsed' = 0 /\ crashes < MaxCrashes /\ crashes' = crashes + 1
      /\ UNCHANGED <<known, status, runOf, age, running, faults>>
  BY DEF Crash, rows, buffer
<1>2. 0 \in 0..MaxWait BY NewsAssumption
<1>3. /\ crashes \in Nat /\ crashes' \in Nat /\ crashes <= crashes' /\ crashes' <= MaxCrashes
      /\ faults \in Nat /\ faults <= MaxFaults
  BY <1>0, <1>1, NewsAssumption DEF NewsTyped, RunsFew
<1>4. BufferTyped' BY <1>0, <1>1 DEF BufferTyped
<1>5. TaskTyped' BY <1>0, <1>1, <1>2 DEF TaskTyped
<1>6. RunsTyped' BY <1>0, <1>1 DEF RunsTyped
<1>7. RunsFew'
  <2>1. \A f, x, y \in Nat : y = x + 1 => f + x + 1 <= f + y OBVIOUS
  <2>2. faults + crashes + 1 <= faults' + crashes' BY <1>1, <1>3, <2>1
  <2>3. running' \subseteq running /\ faults' \in Nat /\ faults <= faults' /\ faults' <= MaxFaults
    BY <1>1, <1>3
  <2> QED BY <1>0, <1>3, <2>2, <2>3, FewKept
<1> QED BY <1>4, <1>5, <1>6, <1>7 DEF TypesInv

LEMMA RestartTypes ==
    ASSUME NewsInv, TypesInv, NEW steps \in 0..3, Restart(steps)
    PROVE  TypesInv'
<1>0. NewsTyped /\ BufferTyped /\ TaskTyped /\ RunsTyped /\ RunsFew BY DEF NewsInv, TypesInv
<1>1. /\ phase = "down" /\ phase' = "idle" /\ running' \subseteq running
      /\ UNCHANGED <<known, event, age, batch, run, verdict, elapsed, crashes>>
  BY DEF Restart, world
<1>2. /\ runOf' \in [Item -> RunId \cup {NoRun}]
      /\ \A i \in Item : status'[i] # "new" => status[i] # "new"
  BY <1>0 DEF Restart, Orphans, RunsTyped, NewsTyped
<1>3. faults' \in Nat /\ faults <= faults' /\ faults' <= MaxFaults
  <2>1. Works(steps = 3) BY DEF Restart
  <2> QED BY <1>0, <2>1, FaultsBounded
<1>4. BufferTyped' BY <1>0, <1>1, <1>2 DEF BufferTyped
<1>5. TaskTyped' BY <1>0, <1>1 DEF TaskTyped
<1>6. RunsTyped' BY <1>0, <1>1, <1>2 DEF RunsTyped
<1>7. RunsFew'
  <2>1. crashes \in Nat /\ crashes <= MaxCrashes BY <1>0 DEF NewsTyped, RunsFew
  <2> QED BY <1>0, <1>1, <1>3, <2>1, FewKept
<1> QED BY <1>4, <1>5, <1>6, <1>7 DEF TypesInv

LEMMA TypesStep == NewsInv /\ TypesInv /\ [Next]_vars => TypesInv'
<1> SUFFICES ASSUME NewsInv, TypesInv, [Next]_vars PROVE TypesInv' OBVIOUS
<1>1. CASE Task
  <2>1. CASE \/ BeginReview \/ SkipReview \/ RefuseRun \/ AbandonRun \/ RecordAnalysis
             \/ \E ended, ok \in BOOLEAN : EndReview(ended, ok)
    BY <2>1, QuietTypes
  <2> QED BY <1>1, <2>1, TickTypes, CreateRunTypes, SettleTypes, EndRunTypes, RestartTypes
         DEF Task
<1>2. CASE HalfDay \/ UNCHANGED vars BY <1>2, QuietTypes
<1>3. CASE Crash BY <1>3, CrashTypes
<1> QED BY <1>1, <1>2, <1>3, ArrivalTypes DEF Next

(* The rows and the task keep their types: the batch under way is never empty, what the    *)
(* buffer holds is in the table of news, and create_run finds an id that no row has, since *)
(* each row that still says running is excused by a failure or a crash.                    *)
THEOREM NewsTyping == Spec => []TypeOK
<1>1. Spec => []TypesInv BY InitTypes, NewsInvariant, TypesStep, PTL DEF Spec
<1>2. NewsInv /\ TypesInv => TypeOK
  BY DEF NewsInv, NewsTyped, TypesInv, BufferTyped, TaskTyped, RunsTyped, TypeOK
<1> QED BY <1>1, <1>2, NewsInvariant, PTL
-----------------------------------------------------------------------------
(* News in a batch belong to the batch under way, whatever failed before: the restart *)
(* puts back what no run holds (reset_orphan_in_batch_news), the end of a run the rest. *)
THEOREM BatchOwned == Spec => []InBatchOwned
<1>1. NewsInv => InBatchOwned BY DEF NewsInv
<1> QED BY <1>1, NewsInvariant, PTL

(* A day is reviewed once, and again only after a failure kept its end from being marked *)
(* (maybe_run_eod_review).                                                               *)
THEOREM ReviewedOnce == Spec => []OneReviewADay
<1>1. NewsInv => OneReviewADay
  <2> SUFFICES ASSUME NewsInv, NEW d \in Day PROVE reviews[d] <= 1 + faults + crashes
    BY DEF OneReviewADay
  <2>1. reviews[d] \in Nat /\ faults \in Nat /\ crashes \in Nat BY DEF NewsInv, NewsTyped
  <2>2. reviews[d] <= faults + crashes \/ reviews[d] <= faults + crashes + 1
    BY <2>1 DEF NewsInv, ReviewsExcused
  <2> QED BY <2>1, <2>2
<1> QED BY <1>1, NewsInvariant, PTL

(* News that a completed run has analysed come into no later batch, unless a crash or a *)
(* failed write kept them from being marked (drain_news_batch).                          *)
THEOREM AnalysedOnceHolds == Spec => AnalysedOnce
<1> DEFINE Once == \A i \in covered : i \in batch' /\ i \notin batch => i \in excused
<1>1. NewsInv /\ [Next]_vars => Once
  <2> SUFFICES ASSUME NewsInv, [Next]_vars, NEW i \in covered, i \in batch', i \notin batch
               PROVE  i \in excused
    OBVIOUS
  <2>1. PICK failed \in SUBSET {"count", "age_out", "read"} : Tick(failed)
    BY DEF Next, Refresh, Ingest, Switch, HalfDay, Crash, Task, BeginReview, SkipReview, EndReview,
           CreateRun, Settle, RefuseRun, AbandonRun, RecordAnalysis, EndRun, Restart, vars, task
  <2>2. status[i] = "pending" /\ phase = "news" BY <2>1 DEF Tick, Newest, Pending
  <2> QED BY <2>2 DEF NewsInv, AnalysedMarked, Terminal
<1>2. NewsInv /\ [Next]_vars => [Once]_vars BY <1>1
<1> QED BY <1>2, NewsInvariant, PTL DEF Spec, AnalysedOnce
=============================================================================
