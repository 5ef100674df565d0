------------------------------ MODULE AgentRun ------------------------------
(***************************************************************************)
(* One run of the agent with the subagents it forks.  Main and every child *)
(* run the same loop, run_agent_turn_forked, each in a task of its own; a  *)
(* child has an entry in the registry of tasks, tells the run of its end   *)
(* by a notification when it runs in the background, and hands its result  *)
(* to the waiting tool call otherwise.                                     *)
(*                                                                         *)
(* A turn uses one unit of tokens.  Left out: the messages and what they   *)
(* say, tools that fork nothing, compaction but for its refusals, retries  *)
(* of one provider call, which end after max_attempts_per_channel, and the *)
(* row that the end of the run writes, which NewsAnalysis has.             *)
(***************************************************************************)
EXTENDS Naturals

CONSTANTS
    Child,     \* agent_id of the subagents the run may fork
    Main,      \* the run itself
    MaxTurns,  \* max_turns, of the run and of its children
    Budget     \* token_budget of the run

ASSUME RunAssumption ==
    /\ Main \notin Child
    /\ MaxTurns \in Nat
    /\ Budget \in Nat \ {0}

Run == Child \cup {Main}
Terminal == {"completed", "failed", "killed"}
Nobody == "nobody"

VARIABLES
    phase,      \* where each loop is
    turn,       \* its turns
    retried,    \* reactive_retry_used
    stop,       \* why it stopped, "none" before that; "limit": turns, budget or context
    cancelled,  \* the token of the run, which its children share
    used,       \* tokens of the run and of its children, counted up to Budget
    waitsFor,   \* the child a tool call of the run waits for
    status,     \* SubAgentTaskRegistry: status of the task, "none" if there is no entry
    background, \* children forked with run_in_background
    aborted,    \* tasks whose abort handle was used
    notified,   \* tasks whose flag was taken
    notes,      \* notifications in the queue of the run
    told,       \* notifications that entered its messages, by child
    said,       \* the status that the notification of a child gives
    timedOut    \* children whose tool call was dropped

loops == <<phase, turn, retried, stop>>
tasks == <<status, background, aborted, notified>>
news == <<notes, told, said>>
vars == <<loops, cancelled, used, waitsFor, tasks, news, timedOut>>

Goto(r, p) == phase' = [phase EXCEPT ![r] = p]
\* The loop goes on with its next step, or it returns and its locals are gone.
Stay(r, p) == Goto(r, p) /\ UNCHANGED <<turn, retried, stop>>
Return(r, reason) ==
    /\ Goto(r, "returned")
    /\ stop' = [stop EXCEPT ![r] = reason]
    /\ turn' = [turn EXCEPT ![r] = 0]
    /\ retried' = retried \ {r}
-----------------------------------------------------------------------------
(* The loop of a run *)

\* The messages are loaded, or, for a child, its tools and providers are built; or not.
Start(r, ok) ==
    /\ phase[r] = "starting"
    /\ IF ok THEN Stay(r, "boundary") ELSE Return(r, "error")
    /\ UNCHANGED <<cancelled, used, waitsFor, tasks, news, timedOut>>

\* drain_notifications; the children have no queue
Count(c) == told[c] + (IF c \in notes THEN 1 ELSE 0)
DrainByAny(r) ==
    /\ told' = [c \in Child |-> IF r = Main THEN Count(c) ELSE told[c]]
    /\ notes' = {}
Drain(r) ==
    /\ told' = [c \in Child |-> IF r = Main THEN Count(c) ELSE told[c]]
    /\ notes' = IF r = Main THEN {} ELSE notes

\* The boundary of turns: cancelled, max_turns, the budget, which a child has none of.
OverBudget(r) == r = Main /\ used >= Budget
StopAtBoundary(r) ==
    /\ phase[r] = "boundary"
    /\ IF cancelled
       THEN Return(r, "cancelled")
       ELSE (turn[r] >= MaxTurns \/ OverBudget(r)) /\ Return(r, "limit")
    /\ UNCHANGED <<cancelled, used, waitsFor, tasks, news, timedOut>>

\* A turn begins; its context may be over the hard limit.
StartTurnLate(r, fits) ==
    /\ phase[r] = "boundary" /\ fits
    /\ ~ cancelled /\ turn[r] <= MaxTurns /\ ~ OverBudget(r)
    /\ Drain(r)
    /\ Goto(r, "call")
    /\ turn' = [turn EXCEPT ![r] = @ + 1]
    /\ UNCHANGED <<retried, stop, cancelled, used, waitsFor, tasks, said, timedOut>>
StartTurn(r, fits) ==
    /\ phase[r] = "boundary"
    /\ ~ cancelled /\ turn[r] < MaxTurns /\ ~ OverBudget(r)
    /\ Drain(r)
    /\ IF fits
       THEN /\ Goto(r, "call")
            /\ turn' = [turn EXCEPT ![r] = @ + 1]
            /\ UNCHANGED <<retried, stop>>
       ELSE Return(r, "limit")
    /\ UNCHANGED <<cancelled, used, waitsFor, tasks, said, timedOut>>

\* The call races with the token, which wins.
Interrupt(r) ==
    /\ phase[r] = "call" /\ cancelled
    /\ Return(r, "cancelled")
    /\ UNCHANGED <<cancelled, used, waitsFor, tasks, news, timedOut>>

\* The tokens of a child reach the run as its collector reads them, before its next await.
Answer(r, dispatches) ==
    /\ phase[r] = "call" /\ ~ cancelled
    /\ used' = IF used < Budget THEN used + 1 ELSE used
    /\ IF dispatches THEN Stay(r, "tools") ELSE Return(r, "completed")
    /\ UNCHANGED <<cancelled, waitsFor, tasks, news, timedOut>>

\* One retry with a smaller context, for which the turn does not count.
RetryTurn(r) ==
    /\ Goto(r, "boundary")
    /\ turn' = [turn EXCEPT ![r] = @ - 1]
    /\ UNCHANGED stop
TooLongUnmarked(r) ==
    /\ phase[r] = "call" /\ ~ cancelled
    /\ RetryTurn(r)
    /\ UNCHANGED <<retried, cancelled, used, waitsFor, tasks, news, timedOut>>
TooLong(r) ==
    /\ phase[r] = "call" /\ ~ cancelled
    /\ IF r \in retried
       THEN Return(r, "limit")
       ELSE RetryTurn(r) /\ retried' = retried \cup {r}
    /\ UNCHANGED <<cancelled, used, waitsFor, tasks, news, timedOut>>

\* Every channel is exhausted, or the error is fatal: Err to the caller.
Fatal(r) ==
    /\ phase[r] = "call" /\ ~ cancelled
    /\ Return(r, "error")
    /\ UNCHANGED <<cancelled, used, waitsFor, tasks, news, timedOut>>

\* The results of the tools are appended.
EndTools(r) ==
    /\ phase[r] = "tools"
    /\ Stay(r, "boundary")
    /\ UNCHANGED <<cancelled, used, waitsFor, tasks, news, timedOut>>
-----------------------------------------------------------------------------
(* The tools of the run that concern its children *)

\* register, then spawn; the entry comes first.
Fork(c) ==
    /\ phase[Main] = "tools"
    /\ status[c] = "none"
    /\ status' = [status EXCEPT ![c] = "running"]

ForkInBackground(c) ==
    /\ Fork(c)
    /\ Goto(c, "starting")
    /\ background' = background \cup {c}
    /\ UNCHANGED <<turn, retried, stop, cancelled, used, waitsFor, aborted, notified, news, timedOut>>

ForkInForeground(c) ==
    /\ Fork(c)
    /\ phase' = [phase EXCEPT ![c] = "starting", ![Main] = "waiting"]
    /\ waitsFor' = c
    /\ UNCHANGED <<turn, retried, stop, cancelled, used, background, aborted, notified, news, timedOut>>

\* finish: killed is final
FinishAnyway(c, s) == status' = [status EXCEPT ![c] = s]
Finish(c, s) == status' = [status EXCEPT ![c] = IF @ = "killed" THEN @ ELSE s]

\* The tool call has the result of the child it waits for, or its error.
EndForeground(c) ==
    /\ phase[Main] = "waiting" /\ waitsFor = c
    /\ phase[c] = "over"
    /\ IF stop[c] = "error" THEN Finish(c, "failed") ELSE UNCHANGED status
    /\ Goto(Main, "tools")
    /\ waitsFor' = Nobody
    /\ UNCHANGED <<turn, retried, stop, cancelled, used, background, aborted, notified, news, timedOut>>

\* The tool call is dropped after its time, the task of the child goes on.
TimeOut(c) ==
    /\ phase[Main] = "waiting" /\ waitsFor = c
    /\ Goto(Main, "tools")
    /\ waitsFor' = Nobody
    /\ timedOut' = timedOut \cup {c}
    /\ UNCHANGED <<turn, retried, stop, cancelled, used, tasks, news>>

\* stop_subagent, mark_killed: the run knows the ids of the children in the background.
StopChild(c) ==
    /\ phase[Main] = "tools"
    /\ c \in background /\ status[c] = "running"
    /\ status' = [status EXCEPT ![c] = "killed"]
    /\ aborted' = aborted \cup {c}
    /\ UNCHANGED <<loops, cancelled, used, waitsFor, background, notified, news, timedOut>>
-----------------------------------------------------------------------------
(* The end of a child *)

\* An abort takes effect where the task waits, never after its loop has returned.
Abort(c) ==
    /\ c \in aborted
    /\ phase[c] \in {"starting", "call", "tools"}
    /\ Goto(c, "over")
    /\ turn' = [turn EXCEPT ![c] = 0]
    /\ retried' = retried \ {c}
    /\ UNCHANGED <<stop, cancelled, used, waitsFor, tasks, news, timedOut>>

StatusOf(reason) == IF reason = "cancelled" THEN "killed" ELSE "completed"

RecordResult(c) ==
    /\ phase[c] = "returned"
    /\ IF stop[c] = "error" THEN UNCHANGED status ELSE Finish(c, StatusOf(stop[c]))
    /\ Goto(c, IF c \in background /\ stop[c] # "error" THEN "notify" ELSE "over")
    /\ UNCHANGED <<turn, retried, stop, cancelled, used, waitsFor, background, aborted,
                   notified, news, timedOut>>
\* The end of run_forked_agent, which leaves an error to its caller.
Record(c) ==
    /\ phase[c] = "returned"
    /\ IF stop[c] = "error" THEN UNCHANGED status ELSE Finish(c, StatusOf(stop[c]))
    /\ Goto(c, IF c \in background THEN "notify" ELSE "over")
    /\ UNCHANGED <<turn, retried, stop, cancelled, used, waitsFor, background, aborted,
                   notified, news, timedOut>>

NotifyOnly(c) ==
    /\ phase[c] = "notify"
    /\ notified' = notified \cup {c}
    /\ said' = [said EXCEPT ![c] = status[c]]
    /\ notes' = notes \cup {c}
    /\ Goto(c, "over")
    /\ UNCHANGED <<turn, retried, stop, cancelled, used, waitsFor, status, background, aborted,
                   told, timedOut>>
\* take_notify_flag, then the text: of an error, which is recorded now, or of the entry.
Notify(c) ==
    /\ phase[c] = "notify"
    /\ c \notin notified
    /\ notified' = notified \cup {c}
    /\ IF stop[c] = "error" THEN Finish(c, "failed") ELSE UNCHANGED status
    /\ said' = [said EXCEPT ![c] = IF stop[c] = "error" THEN "failed" ELSE status[c]]
    /\ notes' = notes \cup {c}
    /\ Goto(c, "over")
    /\ UNCHANGED <<turn, retried, stop, cancelled, used, waitsFor, background, aborted,
                   told, timedOut>>
-----------------------------------------------------------------------------
(* The executor *)

\* cancel_run finds the token until the run has ended.
Cancel ==
    /\ phase[Main] # "over" /\ ~ cancelled
    /\ cancelled' = TRUE
    /\ UNCHANGED <<loops, used, waitsFor, tasks, news, timedOut>>

\* The drainer ends when no task can send events any more.
Alive(c) == phase[c] \notin {"none", "over"}
EndRunAtOnce == phase[Main] = "returned" /\ Goto(Main, "over")
                /\ UNCHANGED <<turn, retried, stop, cancelled, used, waitsFor, tasks, news, timedOut>>
EndRun ==
    /\ phase[Main] = "returned"
    /\ \A c \in Child : ~ Alive(c)
    /\ Goto(Main, "over")
    /\ UNCHANGED <<turn, retried, stop, cancelled, used, waitsFor, tasks, news, timedOut>>
-----------------------------------------------------------------------------
Init ==
    /\ phase = [r \in Run |-> IF r = Main THEN "starting" ELSE "none"]
    /\ turn = [r \in Run |-> 0]
    /\ retried = {}
    /\ stop = [r \in Run |-> "none"]
    /\ cancelled = FALSE
    /\ used = 0
    /\ waitsFor = Nobody
    /\ status = [c \in Child |-> "none"]
    /\ background = {} /\ aborted = {} /\ notified = {}
    /\ notes = {}
    /\ told = [c \in Child |-> 0]
    /\ said = [c \in Child |-> "none"]
    /\ timedOut = {}

Loop(r) ==
    \/ \E ok \in BOOLEAN : Start(r, ok) \/ StartTurn(r, ok) \/ Answer(r, ok)
    \/ StopAtBoundary(r)
    \/ Interrupt(r)
    \/ TooLong(r)
    \/ Fatal(r)
    \/ EndTools(r)

Tools(c) == ForkInBackground(c) \/ ForkInForeground(c) \/ StopChild(c)
Handler(c) == EndForeground(c) \/ TimeOut(c)
Task(c) == Loop(c) \/ Abort(c) \/ Record(c) \/ Notify(c)

Next ==
    \/ Loop(Main) \/ EndRun \/ Cancel
    \/ \E c \in Child : Tools(c) \/ Handler(c) \/ Task(c)

Spec == Init /\ [][Next]_vars

(* The tasks run; a call of a provider and a tool end, if by their timeout, and *)
(* an answer has finitely many tools, which EndTools stands for.                *)
FairSpec ==
    /\ Spec
    /\ WF_vars(Loop(Main)) /\ WF_vars(EndRun)
    /\ \A c \in Child : WF_vars(Handler(c)) /\ WF_vars(Task(c))
-----------------------------------------------------------------------------
(* The loops and the registry hold values of their types. *)
TypeOK ==
    /\ phase \in [Run -> {"none", "starting", "boundary", "call", "tools", "waiting",
                          "returned", "notify", "over"}]
    /\ turn \in [Run -> 0..MaxTurns]
    /\ retried \subseteq Run
    /\ stop \in [Run -> {"none", "completed", "limit", "cancelled", "error"}]
    /\ cancelled \in BOOLEAN
    /\ used \in 0..Budget
    /\ waitsFor \in Child \cup {Nobody}
    /\ status \in [Child -> {"none", "running"} \cup Terminal]
    /\ background \subseteq Child /\ aborted \subseteq Child /\ notified \subseteq Child
    /\ notes \subseteq Child /\ timedOut \subseteq Child
    /\ told \in [Child -> Nat]
    /\ said \in [Child -> {"none"} \cup Terminal]

(* A run whose row says that it ended has no task left that could still act for it: *)
(* no child calls a tool, uses tokens or sends an event after the end.              *)
ChildrenWithinRun == phase[Main] = "over" => \A c \in Child : ~ Alive(c)

(* The verdict on a task is final, however the finish of its task, the stop by the *)
(* run and the error its caller records fall together.                             *)
VerdictFinal == [][\A c \in Child : status[c] \in Terminal => status'[c] = status[c]]_vars

(* A child that tells of its end is in the queue or in the messages of the run, once; *)
(* it runs in the background, and its verdict is in the registry and the one it tells, *)
(* but for a child that was stopped while it failed.                                   *)
NotesTrue ==
    \A c \in Child :
        /\ Count(c) = IF c \in notified THEN 1 ELSE 0
        /\ c \in notified =>
              /\ c \in background /\ status[c] \in Terminal
              /\ said[c] = status[c] \/ (said[c] = "failed" /\ status[c] = "killed")

(* At the end of the run the registry has a verdict on every task, except for a child *)
(* that failed after the tool call that would have recorded it was dropped.           *)
VerdictAtEnd ==
    phase[Main] = "over" =>
        \A c \in Child :
            status[c] = "running" => c \in timedOut /\ stop[c] = "error"

(* The run ends, whatever the provider answers and the children do. *)
RunEnds == <>(phase[Main] = "over")

(* A child in the background tells of its end, whatever that is, unless the run stopped it. *)
ChildrenTell == \A c \in Child : c \in background ~> (c \in notified \/ c \in aborted)
=============================================================================
