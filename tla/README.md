# A verification development for GangZiTerminal

GangZiTerminal is a desktop terminal in which a language-model agent trades Chinese
A-shares in a simulated account. The backend is Rust (`src/src-tauri/src`), the
frontend TypeScript (`src/src`), the storage one SQLite file behind one mutex.
This directory holds TLA+ modules for the parts of it that keep state, TLC
configurations that check them on small instances, and TLAPS proofs.

## 1. The system

| Component | Code (under `src/src-tauri/src`) | State | Operations | What makes it correct |
|---|---|---|---|---|
| Account service | `pipeline/account/service.rs`, `fills.rs`, `domain/account` | cash, orders, freezes, positions, lots, watchlist, season | place, cancel, open, scale, close, protect, invalidate, reset, watchlist | one position per code; lots never oversold; what is frozen equals what is still to be filled; T+1; an ended order stays ended |
| Account evaluation | `pipeline/account/eval.rs`, `snapshot.rs` | page cursor, valuation points, triggers | rebuild, expire, fill, protection triggers | the same tables stay consistent when fills race handlers; each trigger raised once; pending orders are eventually looked at |
| Account tables | `infrastructure/account/repository.rs` | SQLite tables | one transaction per write | a transaction is all or nothing |
| Trigger delivery | `lib.rs`, `orchestrator/trigger_orchestration.rs`, `infrastructure/agent/runtime_repo.rs` | consumption rows: processing, consumed, failed, ignored | real-time sink, startup rescan, mark handled | a trigger starts the agent at most once at a time, and is handled in the end |
| Agent trades, recovery | `handlers.rs`, `records.rs`, `recovery.rs` | trade rows: submitting, settled (accepted or not); order index; dedup rows | operate with a fresh clientOrderId, settle, reconcile at start | a trade's row agrees with what the account did |
| Agent orchestration | `pipeline/agent_runtime/orchestrator`, `executor.rs`, `scheduler.rs` | runs, end-of-day gate | dialogue, news, trigger, review runs | a run ends, after its subagents; a review a day |
| News buffer | `news_buffer.rs`, `news_orchestration.rs` | buffer rows: pending, in_batch, analyzed, dropped | push, take, revert, age out, orphan reset | every headline is analysed or dropped, once |
| Agent loop, messages | `infrastructure/agent/loop_executor.rs`, `messages_repo.rs` | history, sequence numbers, turn count | turn, tool calls, compaction, persist | every tool call is answered; history is a sequence |
| Subagents | `infrastructure/agent/subagent` | task table, notifications | register, finish, kill, notify | a task ends once and is announced once |
| Providers, web search | `infrastructure/agent/providers`, `web_search` | none | HTTP | translation only |
| Quotes | `pipeline/quotes`, `infrastructure/quotes` | close rows, record of refreshes, snapshot cache, calendars, host pool | refresh, daily jobs, catch-up | a close snapshot that says complete is; newer data is not replaced by older; each daily job runs |
| News collection | `pipeline/news`, `infrastructure/news` | articles, source health | refresh | an article is stored once |
| Adapters, CLI, frontend | `adapters`, `bin`, `src/src` | none | forwarding, views | - |

How they interact. The agent's `operate_account` tool writes a trade row, calls the
account service, and settles the row. Every ten seconds the scheduler runs
the evaluation tick on the account; the tick and the handlers commit transactions on the
same tables, but only the handlers take `write_lock`. A fill, an expiry or a protection
breach raises a trigger in the same transaction; the sink in `lib.rs` starts an agent run
on it, which may call `operate_account` again. Quotes feed fills and valuation; news feeds
the buffer, which feeds runs. All of them write through one connection mutex
(`AppDb`), so a transaction is atomic while a handler, which makes several calls, is not.

Hard behaviours: the evaluator races the handlers; partial fills adjust four tables at
once; freezes and first-in-first-out consumption disagree about which shares are sold;
a crash can fall between any two transactions; triggers, batches and trades are
delivered at least once or not at all; a cursor runs over rows that move under it;
subagents finish while they are stopped, or after the call that waits for them was dropped; refreshes of one
day overlap and each replaces the record of the other. `PROJECT.json`
lists each at its line under `hazards`.

## 2. The modules

| Module | Models | Code |
|---|---|---|
| `Money` | commission, stamp tax, cost of a buy, cash change of a fill, in integers with the code's rounding (half to even) | `domain/account/money.rs` |
| `Account` | every operation that makes, fills or ends orders, as the design states it: writes serialised | `service.rs`, `eval.rs`, `fills.rs`, `snapshot.rs`, `repository.rs` |
| `OrderLifecycle` | what the account promises of one order | the status fields above |
| `AccountRace` | the same transactions, with the evaluator as a second writer outside the lock | `service.rs`, `eval.rs` |
| `TriggerScan` | the evaluation tick page by page, its cursor and drain loop, beside the commands that set protections | `eval.rs`, `trigger_orchestration.rs`, `service.rs`, `domain/account/triggers.rs` |
| `AtLeastOnce` | what the runtime promises of a trigger | the sink's comments and the consumption records |
| `TriggerDelivery` | sink, startup rescan, consumption records, crash, recovery and restart | `lib.rs`, `trigger_orchestration.rs`, `runtime_repo.rs` |
| `AgentTrade` | the trades of runs, the order index and the reconciliation, on top of `TriggerDelivery` | `handlers.rs`, `records.rs`, `recovery.rs` |
| `NewsAnalysis` | the news buffer, its batches and their runs, the end-of-day review, crash and recovery | `news_buffer.rs`, `news_orchestration.rs`, `review_orchestration.rs`, `scheduler.rs`, `recovery.rs`, `runtime_repo.rs` |
| `AgentRun` | the loop of a run and of the subagents it forks, their registry and notifications, the executor's end | `loop_executor.rs`, `subagent/`, `executor.rs` |
| `CloseSnapshot` | the close refresh of all quotes: daily job, retries, fallback, catch-up at a start | `quotes/service.rs`, `quotes/scheduler.rs`, `lib.rs`, `quotes/repository.rs` |

Theorems are in modules of their own: `AccountProofs` and `AccountBooksProofs` (the sums) about `Account`,
`AccountRaceProofs`, `TriggerScanProofs`, `AgentTradeProofs` (which begins with `TriggerDelivery`),
`NewsAnalysisProofs`, `AgentRunProofs`, `CloseSnapshotProofs`. An `MC` module beside a component gives its constants
values for TLC (`TriggerDelivery.cfg` needs none). `AgentTrade` extends `TriggerDelivery`, and
`AccountRace` extends `Account`; the other components meet at inputs: what one raises, commits or answers
is a choice (`\E`) in the other.

### Account

The variables are the tables: `cash`, `order`, `freeze` (by order: cash, or shares of each
lot), `position`, `lot`, `watchlist`, `trigger`, with `season` for the archive, `today` for
the trade date, `evaluating` for a tick that has passed its rebuild, and the history
variable `crossed`: some sale of this season consumed shares other than those frozen for it.

`PlaceOrder`, `OpenPosition`, `ScalePosition`, `ClosePosition` and `CancelOrder` are the
order-making requests of `operate_account`; the first four end in `handle_place_order`, which
fills at market (`PlaceMarketOrder`) or freezes and waits (`PlaceLimitOrder`).
`StartEvaluation` is the rebuild, which fails closed: it is enabled only when the books agree.
`ExpireOrder`, `FillLimitOrder` and `FinishEvaluation` are the tick. `ResetAccount`, the
watchlist and the change of the trade day complete `Next`.

The transactions (`CommitMarketFill`, `CommitLimitFill`, `CommitRelease`,
`CommitLimitOrder`) take what their writer had read as parameters. `Account` passes the
current rows; `AccountRace` passes rows read earlier. So both modules commit the same code.

What is abstracted: quantities are in board lots; amounts are integers; a quote is any
price and depth (`\E`), and so are the prices risk control values holdings at; an intent is
reduced to whether it opens a position, which is what the code compares; the order
status `rejected` is left out because no row with it is ever written; expiry at the close of
day d is the first moment of day d + 1, and the day changes between ticks only.
Average cost, profit and the event log are left out; protections are in `TriggerScan`.

### AccountRace

A handler holds `write_lock` from `BeginOperate` to `CommitOperate`: it reads, computes and
commits, and no other handler runs meanwhile. The evaluator takes no lock
(`service.rs:1054`): `BeginTick` rebuilds, `ListActiveOrders` reads the page,
`EvaluateNext` reads for one order (`ReadForExpiry`, `ReadForFill`, or passes it over),
`CommitEvaluation` commits. A reset takes the lock too. `overlapped` is a history variable:
a transaction was committed from reads that were no longer current. The reads
a writer makes before its transaction are one step, so the interleavings are a subset of
the code's, but every conflict of a read with a later commit is present.

### OrderLifecycle

The abstract specification: an order is placed, filled in steps up to its quantity,
withdrawn at most once, and never touched after its end, until a reset. `Account` implements
it under the mapping `OrderView` (property `FollowsLifecycle`, theorem `LifecycleRefinement`).

### TriggerDelivery

The durable tables are `raised` and `handled` (`account_triggers`), `consumption`
(`agent_event_consumption`) and `channel`. `emitting` holds triggers that are committed and
not yet passed to the sink, `worker` how far each of the two routes, the sink's task and the
rescan, is with a trigger, `rescanDue` and `unrouted` the rescan. `Crash` keeps the tables only, and
may also cut a recovery short; `RecoverRecord` resets one record, `Restart` sets the sink
and spawns the rescan.
Each call of the database after whose error the code goes on may fail: `Begin` (logged, and the trigger passed by; the read of the
trigger before its emission alike), the start of a run, `MarkHandled`, `MarkConsumption` (`let _`: the task ends, the
record stays processing), `ListUnhandled` (an error of either read lists nothing, and there is no second try), and the
recovery, which `Restart` may cut off at any record (`lib.rs:626` warns). An error uses up the step it strikes, so errors need no bound.
History: `completed`; `tried`, what a route has begun since the start; `missed`, what an error since then kept from being begun;
`stuck`, the records that an error of their final write or of the last recovery left in processing.
The two routes run the same steps (`RouteStep`), which the code has twice; only the rescan waits for
one trigger before it goes to the next.

### AgentTrade

Extends `TriggerDelivery`; a trigger is named by the order whose end raised it. The handler's
steps under `operate_lock` are `RecordSubmitting`, the account's answer (`AccountRefuses`,
`AccountPlaces`, `AccountCancels`), `AccountEmits` for an order filled at once,
`SettleTrade`, `UpsertOrderRunIndex`; `operating` says where the handler, or after a crash the
recovery's current trade, stands. `Reconcile` and `RecoverDelivery` are the recovery in its
order, and an error in any of its steps is `RestartWithTrades`: the program starts with what is done. `SettleTrade` may fail, which leaves
the trade submitting, and so may `UpsertOrderRunIndex`, which leaves the order without its entry for good; the reconciler takes
an error of its read for an order that is not there (`service.rs:1127-1132`). `lapse` is history: the last of these faults, or of
the crashes between settling and index, by trade. Between `RecordSubmitting` and the settling the handler has no await
that waits, so neither a timeout of the tool nor a cancellation of the run falls between them. The account itself is reduced to the orders it has, since `Account` models the rest: it
may refuse any request. `Dialogue` is any run that no trigger started.

### TriggerScan

`left` and `book` are the active orders, `book` in the order of their sort key
(updated_at, order_id): a fill moves an order to its end. `status`, `protection` and `quote` are of
positions, named in the order of their opening, which is their sort key; `raised` holds the keys behind the ids
of triggers, so that a trigger that exists is not raised again. A tick is `StartTick`, or
`RebuildFails`; then pages: `StartPage` copies the rows past the cursor, `VisitOrder`
and `VisitPosition` work on the copies, `OrdersDone` goes on to the positions, and `EndPage` asks for the next page
or ends the tick when nothing is left or the budget of pages is used. The cursor is `passed`, the rows at or before the
anchor. Commands run between any two of these steps, one at a time: they hold `write_lock`, which the
tick does not. `todo` is the set of copies, each with its place in the list it was read from (`at`), and
`First` the next one. The protection of a new position is a transaction after its order
(`ApplyInitialProtection`), and may fail. An error of a read is an empty list, as in the code.
Money is left out (it is in `Account`), and a quote either hits a condition or not.

### NewsAnalysis

`known` is the table of news, `status`, `runOf`, `age` the rows of the buffer, `running` the rows of
runs that say running, `review` the consumption record of each day. `Refresh` commits news and announces
them, `Ingest` is the sink that writes them one by one, `Switch` turns the analysis on, with the backfill, or off.
One task does the rest, tick by tick: `BeginReview`, `EndReview` or `SkipReview`, then
`Tick`, which is `drain_news_buffer` up to the choice of a batch, then the steps of its run
(`CreateRun`, `RefuseRun`, `AbandonRun`, `RecordAnalysis`, `EndRun`) and `Settle`, which writes what the end of the
run means for the batch. Every read and write of these may fail. `Crash` keeps the tables; `Restart` is the recovery, whose
steps (runs, consumptions, news) end at the first error while the program starts all the same.
Time is counted in ticks. `covered`, `excused`, `stranded`, `waited` and `reviews` are history.

### AgentRun

Main and every child run the loop `run_agent_turn_forked`: `Start`, `StopAtBoundary` or `StartTurn`,
`Interrupt`, `Answer`, `TooLong` or `Fatal`, `EndTools`. Tools of the run that
matter here are the forks, in the background or the foreground, where the loop waits until `EndForeground`
or `TimeOut`, and `StopChild`. `status` is the registry of tasks; `Record` and `Notify` are the end of a child's task,
`Abort` the use of its handle, which takes effect only where the task waits. `EndRun` is the executor:
the drainer of events ends when no task can send any more, that is when no child is alive.
What is said in messages, compaction and the retries of a provider call are left out; the token of a cancelled run
is shared with the children, as in the code.

### CloseSnapshot

`row` is `quote_close_snapshot` with the instant each row was captured, `recorded` the row of kind
close in `quote_refresh_state`. A day has five parts (night, trading, to 15:30, to 16:00, evening). A
refresh of a caller (`DailyJob`, an attempt of the retry helper, `CatchUp`) begins with the
codes that lack a row (`Begin`, `Targets`), takes answers in any order (`Fetch`), spawns its fallback for the rest
(`SpawnFallback`) and records its count (`Record`); the fallback goes on beside it
(`FallbackAnswer`) and replaces the record when it ends (`EndFallback`). The retry helper
(`WakeRetry`) and the start (`DecideCatchUp`) look at the record only. `lost` is history: rows whose write failed,
an error the code drops while it counts the code. `Quiet` is an assumption on time: the
evening is long enough for the refreshes of its day and their retries (six, minutes apart).

## 3. The runs

| Run | Bounds | Question | Result |
|---|---|---|---|
| `account` | 1 code, 3 orders, 2 positions, 2 lots, 2 days, reset on the second day | are the books kept when writes are serialised | holds, 65 824 states |
| `account_race` | 1 code, 2 orders, 2 positions, 2 lots, 2 days, reset on the second day | what survives the evaluator outside the lock | holds, 594 318 states |
| `trigger_scan` | 2 orders, 2 positions, pages of 1 row, 4 pages a tick, 3 commands or quotes, 2 days, 1 failure | does a tick that gets through see every row, and every condition get its trigger | holds, about 681 000 states |
| `delivery` | 2 triggers, rescan of 1, 2 crashes | does each trigger get its run, one at a time, and its record an end | holds, 66 192 states |
| `agent_trade` | 2 orders, 2 trades, 2 crashes | do the trades' rows and the index agree with the account | holds, about 1 742 000 states |
| `news` | 2 news, batches of 2, a wait and a window of 2 ticks, 3 events, a day and a half, 1 failure, 1 crash | is each headline analysed once, and none lost in a batch | holds, 575 793 states |
| `agent_run` | 2 subagents, 2 turns, a budget of 2 | does a run end, after its children, with true and final verdicts | holds, 238 892 states |
| `close` | 2 codes, 1 of them served by the fallback only, 2 days, 1 retry, 1 failure | is a snapshot that says complete there, and does an evening get it | holds, 259 859 states |
| `account_freezes` | as `account` | does each lot's frozen quantity equal its freezes (`snapshot.rs:215`) | violated |
| `race_ended_orders` | as `account_race` | is an ended order final (`account-module.md:178`) | violated |
| `trade_cancellation` | as `agent_trade` | is a cancellation that was carried out on record (`recovery.rs:55`) | violated |
| `close_rows` | as `close` | are close rows the last quotes of their day (`quotes-module.md:1078`) | violated |

Why the bounds are enough. *Account*: two lots are what it takes for a sale to reach past
the oldest; three orders let one buy, and two sales freeze different lots of one position, or
one sale fill while another is waiting; two days give T+1 both sides of its boundary and let orders
expire; two positions let a code be closed and opened again or, in a faulty model, opened
twice. A reset is enough once, with orders in every state before it. The initial cash allows
a buy of both lots and refuses a third. In the race, two orders are a handler's and the
evaluator's, and every table they share is there. With every order id used and the season bound
met the account may stop, hence `CHECK_DEADLOCK FALSE` in its cfgs.
*TriggerScan*: pages of one row put a border between every two rows; an order of two lots
filled in parts comes back behind the cursor, so that a tick can need more pages than the four it has;
one protection has a stop, the other a take, a time stop and a signal.
*Delivery*: one route per kind, so two triggers give each route one to hold while the other
waits; two crashes give a crash in a recovery or a life after a recovered one; a rescan of one
is below the number of triggers, so what it leaves out happens. Errors have no bound. The runs of `AgentTrade` have a
`VIEW` without the delivery's history, which no step and none of their properties reads. Two trades are what it takes to place and
cancel one order, or to place one from the run of another's trigger.
*NewsAnalysis*: a batch of both news, or of one of them while the other arrives, is updated or ages;
the window can pass while a batch is under way; one failure and one crash fall at every step, the failure in the recovery too.
*AgentRun*: two children are one that waits in the foreground and one in the background, or two that end in
either order; two turns let a notification arrive between them and let the context be refused once and again;
a budget of two can be used up by a child. A run that ended stops, hence `CHECK_DEADLOCK FALSE`.
*CloseSnapshot*: two codes are one for each source, so that a refresh and its fallback overlap; the
second day is a trade day on which the close of the first can be made up for. With more failures than retries
`EveningCovered` would be false, as in the code. The clock ends after the second day, hence
`CHECK_DEADLOCK FALSE`.

What the properties say. *Account*: `OnePositionPerCode`, `FreezeWhileActive`, `LotsWithinBounds`,
`TriggersMatchOrders` and `ShortfallBounded` hold of every state. `BooksAgree`,
`PositionsMatchLots` and `NoSaleBeforeSellable` are conditional on
`~ crossed`, because the code does violate them once a sale has eaten another's frozen shares
(that is what `account_freezes` shows). `ShortfallBounded` is what holds in place of "cash covers what is
frozen": the shortfall is at most a commission, at its order's price, for each unit that a limit order bought
or that was sold.
In `AccountRace`, `LotsNeverOversold` holds of every interleaving, and
`SoundWithoutOverlap` says that what holds of `Account` holds until
a transaction commits from changed reads; each of its conjuncts is violated within
seconds when that condition is dropped.

*TriggerScan*: `DrainedVisitsAll` says that a tick that reports no more rows has evaluated every row that was
there from its start to its end, a read that failed apart; `FreshRevision`, that a protection set anew
is not silenced by the id of an earlier trigger; `AlarmsRaised`, that a condition that goes on to hold gets its
trigger, if ticks get through again and again. They do not when the rebuild fails closed
(`account_freezes`), or when orders that fill in parts use up every tick's pages.

*TriggerDelivery*: `OneRunPerTrigger` is about begin_consumption under crashes and errors; `ProcessingHasWorker` says that a
record in processing has a route at work on it or is `stuck`, and that to a stuck one no route comes: an error of
the final write, or of the recovery, locks a trigger out until the next start, and nothing else does. `FollowsAtLeastOnce`
says no run follows a consumed record; `EveryTriggerTried` that a
trigger gets its turn in each life of the process that lasts, provided a channel is active and
no more triggers are unhandled than the rescan lists, unless an error in that life passed it by (`missed`, `stuck`); errors of an
earlier life are no excuse. `BegunIsFinished` says that no record stays processing, those stuck apart. What the code does not promise is left unclaimed: a failed run is tried again
only by the rescan of a later start, and a completed run is repeated when the crash came before its
record. In `AgentTrade`, `SettledAgreesWithAccount` is about orders placed
only, since it is false of cancellations (`trade_cancellation`), and excepts a row that the reconciler misread;
`NothingLeftSubmitting` says that while the program runs a submitting trade is under way, or its settling or the last recovery
failed: a crash alone leaves none. `OrdersIndexed` says that an entry names a trade that acted on the order; that an
order of a trade without a fault has its entry as soon as the call that placed it is over, whichever of the handler
and the recovery wrote it; and that the run of a trigger misses the origin of its order only before that, or after a fault of that
very trade. A crash or an error elsewhere is no excuse, and one between `settle_trade` and
`upsert_order_run_index` loses the entry for good.

*NewsAnalysis*: `InBatchOwned`, that a headline that says it is in a batch is in the one under way;
`AnalysedOnce` and `OneReviewADay`, that work is repeated only when a failure or a crash came between it and
its mark; `RetriesEnd`, that batches whose runs fail are not tried for ever, because a retry keeps the time of
entry and the window ends it (the loop itself tries again at every tick).

*AgentRun*: `ChildrenWithinRun`, that nothing works on after the run has ended; `VerdictFinal` and `NotesTrue`,
that finish, stop, error and notification agree however they fall together; `VerdictAtEnd`, that every
child has a verdict, except one that failed after its tool call was dropped; `RunEnds` and `ChildrenTell` that
the run ends and a background child tells of its end unless it was stopped.

*CloseSnapshot*: `CompleteMeansRows`, that the record on which retries and catch-up stop is right,
whichever of refresh, fallback and retry wrote it last; `EveningCovered`, that a day whose refresh has begun
gets its rows while the program runs and fewer things fail than there are attempts.

Findings. The four violations are told in `PROJECT.json`. In short: sales consume frozen
shares of other sales, after which the rebuild fails closed and the evaluation tick returns at once, so that no order
fills or expires; the evaluator overwrites cancelled orders; a cancellation made just before a crash
is recorded as without effect; a start during trading writes the quotes of the moment as the final rows of the
day before, and since a refresh skips codes that have a row nothing corrects them (`lib.rs:397`).

Smaller disagreements that were met and have no run of their own:

- An order filled in many parts pays the minimum commission for each, so that cash can fall below what is frozen
  and the rebuild refuses (`eval.rs:633`, `snapshot.rs:214`); `ShortfallBounded` bounds by how much.
- The reconciler turns an error of its read into "no order" (`service.rs:1131`), so that the recovery may settle the trade of a
  placed order as `submission_no_account_effect`: a guessed failure, which `recovery.rs:55` and `service.rs:1126` say there is
  not. `SettledAgreesWithAccount` has to except it (`lapse[d] = "misread"`).
- A trade whose settling failed, and one that a failed recovery did not come to, stay submitting until a later start
  (`handlers.rs:394`, `lib.rs:626`); a record whose final mark failed locks its trigger out until then (`lib.rs:517`).
- The gross exposure counts the pending buys of the code being bought only (`service.rs:3270`), while
  `account-module.md:707` and `:709` speak of all.
- The trigger of a market order is emitted before the order is in the index (`service.rs:1819`), so that its
  run may not find the run that placed it (`agent-runtime-module.md:649`, `triggers.rs:29`).
- A batch whose run failed is tried again at the next tick of 60 s; `scheduler.rs:28`, `news_buffer.rs:114` and
  `runtime_repo.rs:556` speak of the next window.
- A foreground child that fails after its tool call was dropped stays running in the registry; `fork.rs:398`
  says its end gets there.
- A background child that is stopped never notifies; `agent-infra-module.md:544` says each ends with a notification.
- `executor.rs:237` says that the drainer ends with the turn; it waits for the children, which hold senders.
- After a resumed refresh the record counts the missing codes only, so that a snapshot that is there may say
  it is not (`quotes-module.md:1101`, `:1128`); the catch-up of the next start then begins a refresh of what is missing.

Fairness. All of it is weak. `TriggerDelivery!FairSpec`: the emission, each
task's steps and the rescan. tokio runs spawned tasks, the account's emission is plain code
after a commit, and a run ends, since its turns are bounded (`max_turns`), each model call has an HTTP timeout
(`http_provider.rs:60`) and each tool one of its own (`tool_registry.rs:406`). Nothing is assumed of the
user: neither a restart nor a channel is fair; `EveryTriggerTried` takes both as hypotheses.
`TriggerScan!FairSpec`: the start of a tick and the steps of a page, which are one task's, run by a ticker.
`NewsAnalysis!FairSpec`: the steps of its one task, a restart included, since `RetriesEnd` speaks of a program that is used.
`AgentRun!FairSpec`: each loop, each waiting tool call (which has a timeout), each child's task and the executor's
end; the fork of a child and the cancellation are choices and not fair.
`CloseSnapshot!FairSpec`: the retry helper, which sleeps between attempts, and each refresh and fallback, whose
requests end by timeouts; neither the start of the daily job nor the program's own start is fair.

## 4. The proofs

Proved with TLAPS for all values of the constants, under the named assumptions of each module.

About `Account` (`AccountAssumption`, the ranges of the
constants; `FiniteAssumption`, a season has finitely many orders and lots; `AbsentAssumption`, the value for "no
row" is no row; `FeeAssumption`, the minimum commission is positive and commission and stamp tax are together at most the whole
notional, as in `domain/account/policy.rs:28-30`), in `AccountProofs`:

- `Typing`: `Spec => []TypeOK`. Every action is a market fill, a placement of a limit order, a
  release, a limit fill, or leaves the typed tables alone (`StepKinds`); one lemma each.
- `LotsStayWithinBounds`: a lot's remaining and frozen shares stay within
  `0 <= frozen <= remaining <= quantity`. The argument rests on a lemma about `TakesFifo`:
  it never takes more of a lot than was available, and a sale lowers frozen by what it took.
- `OnePosition`: a fill writes the row it found open, or an unused id when none was.
- `FreezesLiveWithOrders`: `FreezeWhileActive` is not inductive by itself, since a fill
  decides by what is left to fill whether the freeze goes, and by the status whether
  the order ends. The invariant `OrderInv` adds `OrdersSound`: an active order has something left to
  fill and a market order is never active.
- `TriggersFollowOrders`: from `OrderInv`, since the trigger is raised exactly by the step that
  ends an order and ids are not used twice in a season.
- `LifecycleRefinement`: initial states map to initial states and each step to a step of
  `OrderLifecycle` or a stutter.

In `AccountBooksProofs`, the properties that compare sums. The fold behind `SumFunctionOnSet` is a recursive function on
subsets, which exists and is unique because a smallest set without, or with two different, values cannot be
(`SmallestSet`, `SumsExist`: well-foundedness of strict inclusion, no induction over an operator). From its
recursive equation follow the facts used later: the sum when one term changes, of two functions, over a
larger set, and its sign.

- `PositionsFollowLots`, `BooksStayInAgreement`, `SharesAreSoldInTime`: `PositionsMatchLots`, `BooksAgree` and
  `NoSaleBeforeSellable` from one invariant, `BooksInv`. Positions and lots are not enough: that a partial fill
  leaves every lot's frozen shares equal to its freezes needs that lots are in the order of their buying
  (`LotsInOrder`), that a freeze never exceeds what is left of its order (`FreezesFitOrders`), and that the lots frozen for an
  order belong to its position and are past their T+1 day (`SalesBacked`). All but the second are conditional on
  `~ crossed`, as the properties are.
- `ShortfallStaysBounded`: `ShortfallInv` follows what each transaction does to cash, to what is held and to the
  bound; a fill in parts pays a commission for each, which the strengthened `FeeAssumption` bounds by a commission for each unit.

About `AccountRace`:

- `LotsNeverOversoldInRace`. The lemmas on the transactions take any row a writer may have
  read, so they serve both modules. The invariant `RaceInv` says what makes stale reads
  harmless for lots: what a handler or the evaluator holds is typed (`HandlerSound`, `EvaluationSound`,
  `PageSound`), and the lots a handler means to freeze still exist, because only a reset removes lots and a
  reset waits for the lock. The evaluator's transaction reads the lots again.
- `OverlapIsTheOnlyHarm`: `SoundWithoutOverlap`, that is everything above but the lots, from `SoundInv`. A transaction whose reads
  are unchanged is a step of `Account` (`CommitsSoundly`), so its lemmas apply; what is new is that a handler has
  *checked* things between its reads and its transaction (`HandlerReady`: a sale's shares are free and sellable, a code
  has no open position) that no row it read again would show, and that these stay true while the evaluator commits:
  it only relieves freezes and keeps the rows of lots and positions (`Relieved`, `RowsStay`).

About `TriggerScan` (`ScanAssumption`), from one inductive invariant, `ScanInv`:

- `ScanTyping`, with the list of active orders: `WithoutIs` and `AppendedIs` say what a commit does to it, whether or
  not the order of the copy is still in the list.
- `NoRowPassedOver`: `DrainedVisitsAll`. `OrdersCovered` says that an order that was there from the start and is unvisited is in
  the list, and on a page of orders among the copies; the tick comes to the positions only when none is left.
  `PositionsCovered` says that an unvisited position lies behind the anchor and, on a page of positions, among the copies; the anchor
  moves to the least copy (`FirstIs`), so it passes over none. Both end with a failed read, as the property does.
- `RevisionsAreFresh`: `FreshRevision`. `RevisionsKnown` bounds the revision of every raised key, and of every copy a page
  still works on, by the one its position has; a position that is being opened has none yet, since no command
  runs before its protection is written.

About `TriggerDelivery` (`DeliveryAssumption`), in `AgentTradeProofs`, from one inductive invariant, `DeliveryInv`:

- `DeliveryTyping`, `OneRun`, `NothingLockedOut`. One run per trigger and a worker for every record in
  processing that is not stuck (`RecordsWorked`, which is `ProcessingHasWorker` trigger by trigger) need each other: begin_consumption refuses a record in processing, and only the second
  fact says that a trigger with a worker has such a record. Both need `DownIsIdle` (a process that
  is down holds nothing) at a restart, where what the recovery has left in processing becomes stuck.
- `DeliveryRefinement`: needs `AnsweredFirst` (past `completed`, a route has a completed run behind
  it) for the step that acknowledges, and the two facts above for the step that answers: a
  trigger whose run ends is in processing, hence not acknowledged.

About `AgentTrade`, from `TradeInv == DeliveryInv /\ RowsInv`:

- `DeliveryWithTrades`: `TradeSpec => Spec`. Trades do not disturb the delivery, so the theorems of
  `TriggerDelivery` hold of the composition.
- `SettledRowsAgree`, `NoTradeLeft`, `OrdersAreIndexed`. What the handler or the recovery holds is a trade without a fault
  (`HeldTrade`), and what it holds of the account's answer is what the account did (`HeldAnswer`); an order
  has a maker that placed it and no other (`MakersPlace`, `OneOrderEach`). What the index lacks while the program runs comes from what a crash
  found while it was down, so `IndexKept` is not inductive: `IndexedOrDue` says at all times that an order without its entry has a faulty
  trade, one that is not settled, or its entry as the next thing to be written. That a run misses its origin in those cases only needs
  also that a trigger is of an order (`RaisedOrdered`).

About `NewsAnalysis` (`NewsAssumption`, finitely many news and bounds that are numbers), from `NewsInv`: `BatchOwned`, `ReviewedOnce`, `AnalysedOnceHolds`. `InBatchOwned` is
inductive with its types; `AnalysedOnce` needs `AnalysedMarked` (what a completed run covered is marked,
about to be marked, or excused) and `OneReviewADay` needs `ReviewsExcused`, a count of the reviews by failures, crashes
and the mark of the day. `NewsTyping` adds `TypesInv`: that a new run finds an id no row uses is a count (`RunsFew`: beside the run under way,
each row that says running was left by a failure or a crash; and a headline names one run).

About `AgentRun` (`RunAssumption`), from `RunInv`: `RunTyping`, `NoChildOutlivesRun`, `NotificationsTrue`,
`VerdictsAtEnd`, `VerdictsFinal`. The invariant relates each child's place to its entry: an entry follows its
task (`EntryFollowsTask`), only a child that was stopped is aborted (`StoppedKilled`), a foreground child
that failed is awaited by its tool call or that call was dropped (`ErrorAwaited`), and a turn
that is taken back was begun (`TurnBegun`).

About `CloseSnapshot` (`CodeAssumption`, `DayAssumption`, `BoundAssumption`): `CompleteHasRows`, that is `CompleteMeansRows` for
any universe. The invariant counts: the successes of a refresh are at most the codes of its day that have a row, or
whose write failed, and are not still open in it. Refreshes and fallbacks of a day overlap, but each counts a code
once and rows are only added. `SnapshotTyping` adds the totals of refreshes, fallbacks and records, and that every day a
caller names is a day: the latest completed one exists at every instant (`LatestIsDate`), since day 0 was completed
at the installation.

Every invariant and every action property that a passing run checks is proved, and both refinements. Model-checked only are the
liveness properties (`EveryTriggerTried`, `BegunIsFinished`, `AlarmsRaised`, `RetriesEnd`, `RunEnds`, `ChildrenTell`,
`EveningCovered`): they need fairness and ENABLED, which are out of the prover's reach. The four violations are
traces of TLC; nothing is proved from them.

Next: the safety halves of the liveness properties, as measures that no step raises (a batch's age against its window, the turns
of a run, the pages of a tick), and invariants for the hazards that have no property yet.

## 5. Not modelled

- Intraday refreshes, the snapshot cache, candles, adjustment factors and company events of the quotes service, and the
  other daily jobs of its scheduler: the largest part of the repository by lines, mostly requests, parsing
  and tables written once. Of the cache one hazard is known (an older answer that arrives late replaces a newer quote); its
  readers take any quote as an input here.
- Wire protocols of quote sources, news sources and model providers; their parsing and retries of one request. Services outside
  the program, which the modules take as choices.
- Dialogue runs, strategy versions, settings and heartbeats of the orchestrator; messages of the loop, their sequence
  numbers, and compaction. A second writer of one session's messages is a known hazard.
- Average cost, profit, valuation points and the event log of the account, and the transfer fee (a
  hundred-thousandth of the notional in Shanghai), which `Money` leaves out: with it the bound of `ShortfallBounded` would be
  larger by the rounding of that fee.
- The error of the write of a refresh's record (`quotes/service.rs:1371`), after which a retry or catch-up begins again; and the difference
  between the codes a refresh counts as its universe (listed ones, `repository.rs:954`) and those it asks for (all, `:158`).
- The merge of news that come from several sources, and articles.
- Prompt text, rendering of tools, adapters, the command line and the frontend: no state that these properties
  could be about. Tests in the files of the source are not modelled either.
