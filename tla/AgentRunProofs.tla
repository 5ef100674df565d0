--------------------------- MODULE AgentRunProofs ---------------------------
(***************************************************************************)
(* Theorems about AgentRun: its types, and that the verdicts of the        *)
(* registry and the notifications agree with what the tasks did.           *)
(***************************************************************************)
EXTENDS AgentRun, TLAPS

Working == {"starting", "boundary", "call", "tools", "returned"}
Undecided == {"running", "killed"}
Waited(c) == phase[Main] = "waiting" /\ waitsFor = c

(* A turn that is retried has begun. *)
TurnBegun == \A r \in Run : phase[r] = "call" => turn[r] > 0

(* The entry of a child follows its task: no verdict but "killed" while it works, *)
(* and a verdict at its end, unless its error waits for someone to record it.     *)
EntryFollowsTask ==
    \A c \in Child :
        /\ status[c] = "none" <=> phase[c] = "none"
        /\ c \in background => phase[c] # "none"
        /\ phase[c] \in Working => status[c] \in Undecided
        /\ c \in notified => phase[c] = "over"
        /\ phase[c] = "notify" =>
              /\ c \in background
              /\ status[c] \in IF stop[c] = "error" THEN Undecided ELSE Terminal
        /\ phase[c] = "over" =>
              status[c] \in Terminal \/ (stop[c] = "error" /\ status[c] = "running")

(* A stopped child is one of the background, and its verdict says so. *)
StoppedKilled == \A c \in aborted : c \in background /\ status[c] = "killed"

(* Whoever waits for a child has yet to record its error. *)
ErrorAwaited ==
    \A c \in Child :
        /\ Waited(c) => c \notin background /\ phase[c] # "none"
        /\ Waited(c) /\ stop[c] = "error" => status[c] \in Undecided
        /\ phase[c] = "over" /\ status[c] = "running" =>
              c \notin background /\ (Waited(c) \/ c \in timedOut)
        /\ c \notin background /\ phase[c] \notin {"none", "over"} =>
              Waited(c) \/ c \in timedOut

(* The loops have their types; only the run waits, only the children notify. *)
LoopsTyped ==
    /\ TypeOK
    /\ phase[Main] \notin {"none", "notify"}
    /\ \A c \in Child : phase[c] # "waiting"

Registry == LoopsTyped /\ TurnBegun /\ EntryFollowsTask /\ StoppedKilled /\ ErrorAwaited

RunInv == Registry /\ NotesTrue /\ ChildrenWithinRun
-----------------------------------------------------------------------------
LEMMA CountIs ==
    ASSUME NEW c \in Child, told[c] \in Nat
    PROVE  Count(c) \in Nat /\ Count(c) = IF c \in notes THEN told[c] + 1 ELSE told[c]
<1>1. CASE c \in notes
  <2>1. (IF c \in notes THEN 1 ELSE 0) = 1 BY <1>1
  <2>2. Count(c) = told[c] + 1 BY <2>1 DEF Count
  <2> QED BY <1>1, <2>2
<1>2. CASE c \notin notes
  <2>1. (IF c \in notes THEN 1 ELSE 0) = 0 BY <1>2
  <2>2. Count(c) = told[c] + 0 BY <2>1 DEF Count
  <2> QED BY <1>2, <2>2
<1> QED BY <1>1, <1>2

LEMMA InitRun == Init => RunInv
<1> SUFFICES ASSUME Init PROVE RunInv OBVIOUS
<1>1. /\ \A r \in Run : phase[r] = IF r = Main THEN "starting" ELSE "none"
      /\ Main \in Run
      /\ \A c \in Child : c \in Run /\ c # Main
  BY RunAssumption DEF Init, Run
<1>2. TypeOK
  <2>1. /\ phase \in [Run -> {"starting", "none"}]
        /\ turn \in [Run -> 0..MaxTurns]
        /\ stop \in [Run -> {"none"}]
        /\ used \in 0..Budget
    BY RunAssumption DEF Init
  <2>2. /\ status \in [Child -> {"none"}]
        /\ said \in [Child -> {"none"}]
        /\ told \in [Child -> Nat]
    BY DEF Init
  <2> QED BY <2>1, <2>2 DEF Init, TypeOK
<1>3. LoopsTyped BY <1>1, <1>2 DEF LoopsTyped
<1>4. TurnBegun BY <1>1 DEF TurnBegun
<1>5. EntryFollowsTask BY <1>1 DEF Init, EntryFollowsTask, Working
<1>6. StoppedKilled BY DEF Init, StoppedKilled
<1>7. ErrorAwaited BY <1>1 DEF Init, ErrorAwaited, Waited
<1>8. NotesTrue
  <2>1. \A c \in Child : told[c] = 0 /\ told[c] \in Nat /\ c \notin notes /\ c \notin notified
    BY DEF Init
  <2>2. \A c \in Child : Count(c) = 0 BY <2>1, CountIs
  <2> QED BY <2>1, <2>2 DEF NotesTrue
<1>9. ChildrenWithinRun BY <1>1 DEF ChildrenWithinRun
<1> QED BY <1>3, <1>4, <1>5, <1>6, <1>7, <1>8, <1>9 DEF RunInv, Registry

(* A loop moves on, with its locals, or returns for a reason. *)
Moves(r) ==
    /\ \E p \in {"boundary", "call", "tools", "returned"} : phase' = [phase EXCEPT ![r] = p]
    /\ \/ UNCHANGED stop
       \/ \E s \in {"completed", "limit", "cancelled", "error"} : stop' = [stop EXCEPT ![r] = s]
    /\ turn' \in [Run -> 0..MaxTurns]
    /\ \A q \in Run : phase'[q] = "call" => turn'[q] > 0
    /\ retried' \subseteq Run

(* The notifications of the run stay, or enter its messages. *)
Drains == UNCHANGED <<notes, told>> \/ (notes' = {} /\ told' = [c \in Child |-> Count(c)])

LEMMA ReturnMoves ==
    ASSUME TypeOK, TurnBegun, NEW r \in Run,
           NEW reason \in {"completed", "limit", "cancelled", "error"}, Return(r, reason)
    PROVE  Moves(r)
<1>1. \A q \in Run : phase'[q] = "call" => q # r /\ phase[q] = "call"
  BY DEF Return, Goto, TypeOK
<1>2. turn' \in [Run -> 0..MaxTurns] /\ \A q \in Run : q # r => turn'[q] = turn[q]
  BY RunAssumption DEF Return, TypeOK
<1> QED BY <1>1, <1>2 DEF Return, Goto, Moves, TypeOK, TurnBegun

LEMMA StayMoves ==
    ASSUME TypeOK, TurnBegun, NEW r \in Run, NEW p \in {"boundary", "tools"}, Stay(r, p)
    PROVE  Moves(r)
<1>1. \A q \in Run : phase'[q] = "call" => phase[q] = "call"
  BY DEF Stay, Goto, TypeOK
<1> QED BY <1>1 DEF Stay, Goto, Moves, TypeOK, TurnBegun

(* What a step of a loop may change. *)
LEMMA LoopStep ==
    ASSUME TypeOK, TurnBegun, NEW r \in Run, Loop(r)
    PROVE  /\ phase[r] \in {"starting", "boundary", "call", "tools"}
           /\ Moves(r)
           /\ Drains
           /\ used' \in 0..Budget
           /\ UNCHANGED <<cancelled, waitsFor, tasks, said, timedOut>>
<1> USE DEF Drains, news
<1>0. used \in 0..Budget /\ Budget \in Nat BY RunAssumption DEF TypeOK
<1>1. ASSUME NEW ok \in BOOLEAN, Start(r, ok) PROVE Moves(r)
  BY <1>1, ReturnMoves, StayMoves DEF Start
<1>2. ASSUME NEW fits \in BOOLEAN, StartTurn(r, fits) PROVE Moves(r)
  <2>1. CASE fits
    <3>1. /\ phase' = [phase EXCEPT ![r] = "call"]
          /\ turn' = [turn EXCEPT ![r] = @ + 1]
          /\ turn[r] < MaxTurns
          /\ UNCHANGED <<retried, stop>>
      BY <1>2, <2>1 DEF StartTurn, Goto
    <3>2. /\ turn' \in [Run -> 0..MaxTurns]
          /\ \A q \in Run : turn'[q] = IF q = r THEN turn[q] + 1 ELSE turn[q]
      BY <3>1, RunAssumption DEF TypeOK
    <3>3. \A q \in Run : phase'[q] = "call" => turn'[q] > 0
      BY <3>1, <3>2, RunAssumption DEF TypeOK, TurnBegun
    <3> QED BY <3>1, <3>2, <3>3 DEF Moves, TypeOK
  <2>2. CASE ~ fits BY <1>2, <2>2, ReturnMoves DEF StartTurn
  <2> QED BY <2>1, <2>2
<1>3. ASSUME StopAtBoundary(r) PROVE Moves(r)
  BY <1>3, ReturnMoves DEF StopAtBoundary
<1>4. ASSUME NEW dispatches \in BOOLEAN, Answer(r, dispatches)
      PROVE  Moves(r) /\ used' \in 0..Budget
  <2>1. Moves(r) BY <1>4, ReturnMoves, StayMoves DEF Answer
  <2>2. used' \in 0..Budget BY <1>0, <1>4 DEF Answer
  <2> QED BY <2>1, <2>2
<1>5. ASSUME TooLong(r) PROVE Moves(r)
  <2>1. CASE r \in retried BY <1>5, <2>1, ReturnMoves DEF TooLong
  <2>2. CASE r \notin retried
    <3>1. /\ phase' = [phase EXCEPT ![r] = "boundary"]
          /\ turn' = [turn EXCEPT ![r] = @ - 1]
          /\ turn[r] > 0
          /\ retried' = retried \cup {r}
          /\ UNCHANGED stop
      BY <1>5, <2>2 DEF TooLong, RetryTurn, Goto, TurnBegun
    <3>2. /\ turn' \in [Run -> 0..MaxTurns]
          /\ \A q \in Run : q # r => turn'[q] = turn[q]
      BY <3>1, RunAssumption DEF TypeOK
    <3>3. \A q \in Run : phase'[q] = "call" => turn'[q] > 0
      BY <3>1, <3>2 DEF TypeOK, TurnBegun
    <3> QED BY <3>1, <3>2, <3>3 DEF Moves, TypeOK
  <2> QED BY <2>1, <2>2
<1>6. ASSUME Interrupt(r) \/ Fatal(r) PROVE Moves(r)
  BY <1>6, ReturnMoves DEF Interrupt, Fatal
<1>7. ASSUME EndTools(r) PROVE Moves(r) BY <1>7, StayMoves DEF EndTools
<1>8. Moves(r)
  BY <1>1, <1>2, <1>3, <1>4, <1>5, <1>6, <1>7 DEF Loop
<1>9. used' \in 0..Budget
  <2>1. CASE \E dispatches \in BOOLEAN : Answer(r, dispatches) BY <1>4, <2>1
  <2>2. CASE ~ \E dispatches \in BOOLEAN : Answer(r, dispatches)
    <3>1. UNCHANGED used
      BY <2>2 DEF Loop, Start, StartTurn, StopAtBoundary, TooLong, Interrupt, Fatal, EndTools
    <3> QED BY <1>0, <3>1
  <2> QED BY <2>1, <2>2
<1>10. Drains
  <2>1. CASE \E fits \in BOOLEAN : StartTurn(r, fits)
    <3>1. Drain(r) BY <2>1 DEF StartTurn
    <3>2. CASE r = Main BY <3>1, <3>2 DEF Drain
    <3>3. CASE r # Main
      <4>1. notes' = notes /\ told' = [c \in Child |-> told[c]] BY <3>1, <3>3 DEF Drain
      <4> QED BY <4>1 DEF TypeOK
    <3> QED BY <3>2, <3>3
  <2>2. CASE ~ \E fits \in BOOLEAN : StartTurn(r, fits)
    <3>1. UNCHANGED <<notes, told>>
      BY <2>2 DEF Loop, Start, StopAtBoundary, Answer, TooLong, Interrupt, Fatal, EndTools
    <3> QED BY <3>1
  <2> QED BY <2>1, <2>2
<1>11. /\ phase[r] \in {"starting", "boundary", "call", "tools"}
       /\ UNCHANGED <<cancelled, waitsFor, tasks, said, timedOut>>
  BY DEF Loop, Start, StartTurn, StopAtBoundary, Answer, TooLong, Interrupt, Fatal, EndTools
<1> QED BY <1>8, <1>9, <1>10, <1>11
-----------------------------------------------------------------------------
(* Steps of a loop *)

LEMMA DrainKeepsCount ==
    ASSUME TypeOK, Drains
    PROVE  /\ told' \in [Child -> Nat] /\ notes' \subseteq Child
           /\ \A c \in Child : Count(c)' = Count(c)
<1>1. \A c \in Child : told[c] \in Nat BY DEF TypeOK
<1>2. CASE UNCHANGED <<notes, told>>
  <2>1. \A c \in Child : Count(c)' = Count(c) BY <1>2 DEF Count
  <2> QED BY <1>2, <2>1 DEF TypeOK
<1>3. CASE notes' = {} /\ told' = [c \in Child |-> Count(c)]
  <2>1. \A c \in Child : Count(c) \in Nat BY <1>1, CountIs
  <2>2. told' \in [Child -> Nat] BY <1>3, <2>1
  <2>3. ASSUME NEW c \in Child PROVE Count(c)' = Count(c)
    <3>1. told'[c] = Count(c) /\ c \notin notes' /\ Count(c) \in Nat BY <1>3, <2>1
    <3>2. (IF c \in notes' THEN 1 ELSE 0) = 0 BY <3>1
    <3> QED BY <3>1, <3>2 DEF Count
  <2> QED BY <1>3, <2>2, <2>3
<1> QED BY <1>2, <1>3 DEF Drains

LEMMA LoopKeeps ==
    ASSUME RunInv, NEW r \in Run, Loop(r)
    PROVE  RunInv'
<1> USE DEF Working, Undecided
<1>0. TypeOK /\ LoopsTyped /\ TurnBegun /\ EntryFollowsTask /\ StoppedKilled /\ ErrorAwaited
  BY DEF RunInv, Registry, LoopsTyped
<1>1. /\ phase[r] \in {"starting", "boundary", "call", "tools"}
      /\ Moves(r)
      /\ Drains
      /\ used' \in 0..Budget
      /\ UNCHANGED <<cancelled, waitsFor, tasks, said, timedOut>>
  BY <1>0, LoopStep
<1>2. UNCHANGED <<status, background, aborted, notified>> BY <1>1 DEF tasks
<1>3. PICK p \in {"boundary", "call", "tools", "returned"} : phase' = [phase EXCEPT ![r] = p]
  BY <1>1 DEF Moves
<1>4. \A q \in Run : phase'[q] = IF q = r THEN p ELSE phase[q]
  BY <1>0, <1>3 DEF TypeOK
<1>5. \A q \in Run : q # r => stop'[q] = stop[q]
  BY <1>0, <1>1 DEF Moves, TypeOK
<1>6. Main \in Run /\ (\A c \in Child : c \in Run /\ c # Main)
  BY RunAssumption DEF Run
<1>7. LoopsTyped'
  <2>1. TypeOK'
    <3>1. phase' \in [Run -> {"none", "starting", "boundary", "call", "tools", "waiting",
                              "returned", "notify", "over"}]
      BY <1>0, <1>3 DEF TypeOK
    <3>2. stop' \in [Run -> {"none", "completed", "limit", "cancelled", "error"}]
      BY <1>0, <1>1 DEF TypeOK, Moves
    <3>3. turn' \in [Run -> 0..MaxTurns] /\ retried' \subseteq Run BY <1>1 DEF Moves
    <3>4. told' \in [Child -> Nat] /\ notes' \subseteq Child BY <1>0, <1>1, DrainKeepsCount
    <3> QED BY <1>0, <1>1, <1>2, <3>1, <3>2, <3>3, <3>4 DEF TypeOK
  <2> QED BY <1>0, <1>4, <1>6, <2>1 DEF LoopsTyped
<1>8. TurnBegun' BY <1>1 DEF Moves, TurnBegun
<1>9. EntryFollowsTask' BY <1>0, <1>1, <1>2, <1>4, <1>5, <1>6 DEF EntryFollowsTask
<1>10. StoppedKilled' BY <1>0, <1>2 DEF StoppedKilled
<1>11. ErrorAwaited'
  <2>1. \A c \in Child : Waited(c)' <=> Waited(c)
    BY <1>1, <1>4, <1>6 DEF Waited
  <2>2. \A c \in Child : c = r => status[c] \in Undecided
    BY <1>0, <1>1 DEF EntryFollowsTask
  <2> QED BY <1>0, <1>1, <1>2, <1>4, <1>5, <1>6, <2>1, <2>2 DEF ErrorAwaited
<1>12. NotesTrue'
  <2>1. \A c \in Child : Count(c)' = Count(c) BY <1>0, <1>1, DrainKeepsCount
  <2> QED BY <1>1, <1>2, <2>1 DEF RunInv, NotesTrue
<1>13. ChildrenWithinRun'
  BY <1>1, <1>4, <1>6 DEF RunInv, ChildrenWithinRun, Alive
<1> QED BY <1>7, <1>8, <1>9, <1>10, <1>11, <1>12, <1>13 DEF RunInv, Registry
-----------------------------------------------------------------------------
(* Steps of a child, and of the tools that concern it *)

(* Steps that leave the notifications and the flags alone keep the counts. *)
LEMMA CountKept ==
    ASSUME UNCHANGED <<notes, told>>
    PROVE  \A c \in Child : Count(c)' = Count(c)
BY DEF Count

LEMMA ForkKeeps ==
    ASSUME RunInv, NEW c \in Child, ForkInBackground(c) \/ ForkInForeground(c)
    PROVE  RunInv'
<1> USE DEF Working, Undecided, Terminal
<1>0. TypeOK /\ LoopsTyped /\ TurnBegun /\ EntryFollowsTask /\ StoppedKilled /\ ErrorAwaited
      /\ NotesTrue /\ ChildrenWithinRun
  BY DEF RunInv, Registry, LoopsTyped
<1>1. Main \in Run /\ (\A d \in Child : d \in Run /\ d # Main)
  BY RunAssumption DEF Run
<1>2. /\ phase[Main] = "tools" /\ status[c] = "none" /\ phase[c] = "none"
      /\ c \notin background /\ c \notin aborted /\ c \notin notified
      /\ UNCHANGED <<turn, retried, stop, cancelled, used, aborted, notified, notes, told, said,
                     timedOut>>
      /\ waitsFor' \in {waitsFor, c}
      /\ \/ background' = background \cup {c} /\ phase'[Main] = "tools"
         \/ background' = background /\ phase'[Main] = "waiting" /\ waitsFor' = c
  BY <1>0, <1>1 DEF ForkInBackground, ForkInForeground, Fork, Goto, news, EntryFollowsTask,
       StoppedKilled, NotesTrue, TypeOK
<1>3. /\ phase' \in [Run -> {"none", "starting", "boundary", "call", "tools", "waiting",
                               "returned", "notify", "over"}]
      /\ \A q \in Run : q # Main => phase'[q] = IF q = c THEN "starting" ELSE phase[q]
      /\ status' = [status EXCEPT ![c] = "running"]
      /\ \A d \in Child : status'[d] = IF d = c THEN "running" ELSE status[d]
  BY <1>0, <1>1 DEF ForkInBackground, ForkInForeground, Fork, Goto, TypeOK
<1>4. LoopsTyped' BY <1>0, <1>1, <1>2, <1>3 DEF LoopsTyped, TypeOK
<1>5. TurnBegun' BY <1>0, <1>1, <1>2, <1>3 DEF TurnBegun, TypeOK
<1>6. EntryFollowsTask'
  BY <1>0, <1>1, <1>2, <1>3
  DEF EntryFollowsTask, ErrorAwaited, StoppedKilled, NotesTrue, TypeOK
<1>7. StoppedKilled' BY <1>0, <1>1, <1>2, <1>3 DEF StoppedKilled, EntryFollowsTask, TypeOK
<1>8. ErrorAwaited'
  BY <1>0, <1>1, <1>2, <1>3 DEF ErrorAwaited, Waited, EntryFollowsTask, StoppedKilled
<1>9. NotesTrue' BY <1>0, <1>1, <1>2, <1>3, CountKept DEF NotesTrue, ErrorAwaited, EntryFollowsTask
<1>10. ChildrenWithinRun' BY <1>0, <1>1, <1>2, <1>3 DEF ChildrenWithinRun, Alive
<1> QED BY <1>4, <1>5, <1>6, <1>7, <1>8, <1>9, <1>10 DEF RunInv, Registry

LEMMA EndForegroundKeeps ==
    ASSUME RunInv, NEW c \in Child, EndForeground(c)
    PROVE  RunInv'
<1> USE DEF Working, Undecided, Terminal
<1>0. TypeOK /\ LoopsTyped /\ TurnBegun /\ EntryFollowsTask /\ StoppedKilled /\ ErrorAwaited
      /\ NotesTrue /\ ChildrenWithinRun
  BY DEF RunInv, Registry, LoopsTyped
<1>1. Main \in Run /\ (\A d \in Child : d \in Run /\ d # Main)
  BY RunAssumption DEF Run
<1>2. /\ Waited(c) /\ phase[c] = "over"
      /\ waitsFor' = Nobody
      /\ UNCHANGED <<turn, retried, stop, cancelled, used, background, aborted, notified, notes,
                     told, said, timedOut>>
      /\ phase' = [phase EXCEPT ![Main] = "tools"]
  BY DEF EndForeground, Goto, Waited, news
<1>3. /\ \A q \in Run : phase'[q] = IF q = Main THEN "tools" ELSE phase[q]
      /\ status' \in [Child -> {"none", "running"} \cup Terminal]
      /\ \A d \in Child : d # c => status'[d] = status[d]
      /\ status'[c] \in IF stop[c] = "error" THEN {"failed", "killed"} ELSE {status[c]}
      /\ status[c] = "killed" => status'[c] = "killed"
  BY <1>0, <1>1, <1>2 DEF EndForeground, Finish, TypeOK, ErrorAwaited
<1>4. LoopsTyped' BY <1>0, <1>1, <1>2, <1>3 DEF LoopsTyped, TypeOK
<1>5. TurnBegun' BY <1>0, <1>1, <1>2, <1>3 DEF TurnBegun, TypeOK
<1>6. EntryFollowsTask'
  BY <1>0, <1>1, <1>2, <1>3
  DEF EntryFollowsTask, ErrorAwaited, StoppedKilled, NotesTrue, TypeOK
<1>7. StoppedKilled' BY <1>0, <1>1, <1>2, <1>3 DEF StoppedKilled, EntryFollowsTask, TypeOK
<1>8. ErrorAwaited'
  BY <1>0, <1>1, <1>2, <1>3 DEF ErrorAwaited, Waited, EntryFollowsTask, StoppedKilled
<1>9. NotesTrue' BY <1>0, <1>1, <1>2, <1>3, CountKept DEF NotesTrue, ErrorAwaited, EntryFollowsTask
<1>10. ChildrenWithinRun' BY <1>0, <1>1, <1>2, <1>3 DEF ChildrenWithinRun, Alive
<1> QED BY <1>4, <1>5, <1>6, <1>7, <1>8, <1>9, <1>10 DEF RunInv, Registry

LEMMA TimeOutKeeps ==
    ASSUME RunInv, NEW c \in Child, TimeOut(c)
    PROVE  RunInv'
<1> USE DEF Working, Undecided, Terminal
<1>0. TypeOK /\ LoopsTyped /\ TurnBegun /\ EntryFollowsTask /\ StoppedKilled /\ ErrorAwaited
      /\ NotesTrue /\ ChildrenWithinRun
  BY DEF RunInv, Registry, LoopsTyped
<1>1. Main \in Run /\ (\A d \in Child : d \in Run /\ d # Main)
  BY RunAssumption DEF Run
<1>2. /\ Waited(c)
      /\ waitsFor' = Nobody
      /\ timedOut' = timedOut \cup {c}
      /\ UNCHANGED <<turn, retried, stop, cancelled, used, status, background, aborted, notified,
                     notes, told, said>>
      /\ phase' = [phase EXCEPT ![Main] = "tools"]
  BY DEF TimeOut, Goto, Waited, news, tasks
<1>3. \A q \in Run : phase'[q] = IF q = Main THEN "tools" ELSE phase[q]
  BY <1>0, <1>1, <1>2 DEF TypeOK
<1>4. LoopsTyped' BY <1>0, <1>1, <1>2, <1>3 DEF LoopsTyped, TypeOK
<1>5. TurnBegun' BY <1>0, <1>1, <1>2, <1>3 DEF TurnBegun, TypeOK
<1>6. EntryFollowsTask'
  BY <1>0, <1>1, <1>2, <1>3
  DEF EntryFollowsTask, ErrorAwaited, StoppedKilled, NotesTrue, TypeOK
<1>7. StoppedKilled' BY <1>0, <1>1, <1>2, <1>3 DEF StoppedKilled, EntryFollowsTask, TypeOK
<1>8. ErrorAwaited'
  BY <1>0, <1>1, <1>2, <1>3 DEF ErrorAwaited, Waited, EntryFollowsTask, StoppedKilled
<1>9. NotesTrue' BY <1>0, <1>1, <1>2, <1>3, CountKept DEF NotesTrue, ErrorAwaited, EntryFollowsTask
<1>10. ChildrenWithinRun' BY <1>0, <1>1, <1>2, <1>3 DEF ChildrenWithinRun, Alive
<1> QED BY <1>4, <1>5, <1>6, <1>7, <1>8, <1>9, <1>10 DEF RunInv, Registry

LEMMA StopChildKeeps ==
    ASSUME RunInv, NEW c \in Child, StopChild(c)
    PROVE  RunInv'
<1> USE DEF Working, Undecided, Terminal
<1>0. TypeOK /\ LoopsTyped /\ TurnBegun /\ EntryFollowsTask /\ StoppedKilled /\ ErrorAwaited
      /\ NotesTrue /\ ChildrenWithinRun
  BY DEF RunInv, Registry, LoopsTyped
<1>1. Main \in Run /\ (\A d \in Child : d \in Run /\ d # Main)
  BY RunAssumption DEF Run
<1>2. /\ phase[Main] = "tools" /\ c \in background /\ status[c] = "running"
      /\ aborted' = aborted \cup {c}
      /\ UNCHANGED <<phase, turn, retried, stop, cancelled, used, waitsFor, background, notified,
                     notes, told, said, timedOut>>
  BY DEF StopChild, loops, news
<1>3. /\ status' = [status EXCEPT ![c] = "killed"]
      /\ \A d \in Child : status'[d] = IF d = c THEN "killed" ELSE status[d]
  BY <1>0 DEF StopChild, TypeOK
<1>4. LoopsTyped' BY <1>0, <1>1, <1>2, <1>3 DEF LoopsTyped, TypeOK
<1>5. TurnBegun' BY <1>0, <1>1, <1>2, <1>3 DEF TurnBegun, TypeOK
<1>6. EntryFollowsTask'
  BY <1>0, <1>1, <1>2, <1>3
  DEF EntryFollowsTask, ErrorAwaited, StoppedKilled, NotesTrue, TypeOK
<1>7. StoppedKilled' BY <1>0, <1>1, <1>2, <1>3 DEF StoppedKilled, EntryFollowsTask, TypeOK
<1>8. ErrorAwaited'
  BY <1>0, <1>1, <1>2, <1>3 DEF ErrorAwaited, Waited, EntryFollowsTask, StoppedKilled
<1>9. NotesTrue' BY <1>0, <1>1, <1>2, <1>3, CountKept DEF NotesTrue, ErrorAwaited, EntryFollowsTask
<1>10. ChildrenWithinRun' BY <1>0, <1>1, <1>2, <1>3 DEF ChildrenWithinRun, Alive
<1> QED BY <1>4, <1>5, <1>6, <1>7, <1>8, <1>9, <1>10 DEF RunInv, Registry

LEMMA AbortKeeps ==
    ASSUME RunInv, NEW c \in Child, Abort(c)
    PROVE  RunInv'
<1> USE DEF Working, Undecided, Terminal
<1>0. TypeOK /\ LoopsTyped /\ TurnBegun /\ EntryFollowsTask /\ StoppedKilled /\ ErrorAwaited
      /\ NotesTrue /\ ChildrenWithinRun
  BY DEF RunInv, Registry, LoopsTyped
<1>1. Main \in Run /\ (\A d \in Child : d \in Run /\ d # Main)
  BY RunAssumption DEF Run
<1>2. /\ c \in aborted /\ phase[c] \in {"starting", "call", "tools"}
      /\ phase' = [phase EXCEPT ![c] = "over"]
      /\ turn' = [turn EXCEPT ![c] = 0]
      /\ retried' = retried \ {c}
      /\ UNCHANGED <<stop, cancelled, used, waitsFor, status, background, aborted, notified,
                     notes, told, said, timedOut>>
  BY DEF Abort, Goto, news, tasks
<1>3. /\ \A q \in Run : phase'[q] = IF q = c THEN "over" ELSE phase[q]
      /\ turn' \in [Run -> 0..MaxTurns] /\ \A q \in Run : q # c => turn'[q] = turn[q]
  BY <1>0, <1>1, <1>2, RunAssumption DEF TypeOK
<1>4. LoopsTyped' BY <1>0, <1>1, <1>2, <1>3 DEF LoopsTyped, TypeOK
<1>5. TurnBegun' BY <1>0, <1>1, <1>2, <1>3 DEF TurnBegun, TypeOK
<1>6. EntryFollowsTask'
  BY <1>0, <1>1, <1>2, <1>3
  DEF EntryFollowsTask, ErrorAwaited, StoppedKilled, NotesTrue, TypeOK
<1>7. StoppedKilled' BY <1>0, <1>1, <1>2, <1>3 DEF StoppedKilled, EntryFollowsTask, TypeOK
<1>8. ErrorAwaited'
  BY <1>0, <1>1, <1>2, <1>3 DEF ErrorAwaited, Waited, EntryFollowsTask, StoppedKilled
<1>9. NotesTrue' BY <1>0, <1>1, <1>2, <1>3, CountKept DEF NotesTrue, ErrorAwaited, EntryFollowsTask
<1>10. ChildrenWithinRun' BY <1>0, <1>1, <1>2, <1>3 DEF ChildrenWithinRun, Alive
<1> QED BY <1>4, <1>5, <1>6, <1>7, <1>8, <1>9, <1>10 DEF RunInv, Registry

LEMMA RecordKeeps ==
    ASSUME RunInv, NEW c \in Child, Record(c)
    PROVE  RunInv'
<1> USE DEF Working, Undecided, Terminal
<1>0. TypeOK /\ LoopsTyped /\ TurnBegun /\ EntryFollowsTask /\ StoppedKilled /\ ErrorAwaited
      /\ NotesTrue /\ ChildrenWithinRun
  BY DEF RunInv, Registry, LoopsTyped
<1>1. Main \in Run /\ (\A d \in Child : d \in Run /\ d # Main)
  BY RunAssumption DEF Run
<1>2. /\ phase[c] = "returned"
      /\ UNCHANGED <<turn, retried, stop, cancelled, used, waitsFor, background, aborted, notified,
                     notes, told, said, timedOut>>
      /\ phase' = [phase EXCEPT ![c] = IF c \in background THEN "notify" ELSE "over"]
      /\ c \notin notified
  BY <1>0 DEF Record, Goto, news, NotesTrue, EntryFollowsTask
<1>3. /\ \A q \in Run : phase'[q] = IF q = c THEN IF c \in background THEN "notify" ELSE "over"
                                              ELSE phase[q]
      /\ status' \in [Child -> {"none", "running"} \cup Terminal]
      /\ \A d \in Child : d # c => status'[d] = status[d]
      /\ IF stop[c] = "error" THEN status'[c] = status[c] ELSE status'[c] \in Terminal
      /\ status[c] = "killed" => status'[c] = "killed"
  BY <1>0, <1>1, <1>2 DEF Record, Finish, StatusOf, TypeOK
<1>4. LoopsTyped' BY <1>0, <1>1, <1>2, <1>3 DEF LoopsTyped, TypeOK
<1>5. TurnBegun' BY <1>0, <1>1, <1>2, <1>3 DEF TurnBegun, TypeOK
<1>6. EntryFollowsTask'
  BY <1>0, <1>1, <1>2, <1>3
  DEF EntryFollowsTask, ErrorAwaited, StoppedKilled, NotesTrue, TypeOK
<1>7. StoppedKilled' BY <1>0, <1>1, <1>2, <1>3 DEF StoppedKilled, EntryFollowsTask, TypeOK
<1>8. ErrorAwaited'
  BY <1>0, <1>1, <1>2, <1>3 DEF ErrorAwaited, Waited, EntryFollowsTask, StoppedKilled
<1>9. NotesTrue' BY <1>0, <1>1, <1>2, <1>3, CountKept DEF NotesTrue, ErrorAwaited, EntryFollowsTask
<1>10. ChildrenWithinRun' BY <1>0, <1>1, <1>2, <1>3 DEF ChildrenWithinRun, Alive
<1> QED BY <1>4, <1>5, <1>6, <1>7, <1>8, <1>9, <1>10 DEF RunInv, Registry

LEMMA NotifyKeeps ==
    ASSUME RunInv, NEW c \in Child, Notify(c)
    PROVE  RunInv'
<1> USE DEF Working, Undecided, Terminal
<1>0. TypeOK /\ LoopsTyped /\ TurnBegun /\ EntryFollowsTask /\ StoppedKilled /\ ErrorAwaited
      /\ NotesTrue /\ ChildrenWithinRun
  BY DEF RunInv, Registry, LoopsTyped
<1>1. Main \in Run /\ (\A d \in Child : d \in Run /\ d # Main)
  BY RunAssumption DEF Run
<1>2. /\ phase[c] = "notify" /\ c \notin notified /\ c \in background
      /\ UNCHANGED <<turn, retried, stop, cancelled, used, waitsFor, background, aborted, told,
                     timedOut>>
      /\ phase' = [phase EXCEPT ![c] = "over"]
      /\ notified' = notified \cup {c}
      /\ notes' = notes \cup {c}
  BY <1>0 DEF Notify, Goto, EntryFollowsTask
<1>3. /\ \A q \in Run : phase'[q] = IF q = c THEN "over" ELSE phase[q]
      /\ status' \in [Child -> {"none", "running"} \cup Terminal]
      /\ \A d \in Child : d # c => status'[d] = status[d]
      /\ IF stop[c] = "error" THEN status'[c] \in {"failed", "killed"}
                              ELSE status'[c] = status[c] /\ status[c] \in Terminal
      /\ status[c] = "killed" => status'[c] = "killed"
  BY <1>0, <1>1, <1>2 DEF Notify, Finish, TypeOK, EntryFollowsTask
<1>4. /\ said' \in [Child -> {"none"} \cup Terminal]
      /\ \A d \in Child : d # c => said'[d] = said[d]
      /\ said'[c] = IF stop[c] = "error" THEN "failed" ELSE status[c]
  BY <1>0, <1>3 DEF Notify, TypeOK
<1>5. LoopsTyped' BY <1>0, <1>1, <1>2, <1>3, <1>4 DEF LoopsTyped, TypeOK
<1>6. TurnBegun' BY <1>0, <1>1, <1>2, <1>3 DEF TurnBegun
<1>7. EntryFollowsTask' BY <1>0, <1>1, <1>2, <1>3 DEF EntryFollowsTask
<1>8. StoppedKilled' BY <1>0, <1>1, <1>2, <1>3 DEF StoppedKilled, TypeOK
<1>9. ErrorAwaited' BY <1>0, <1>1, <1>2, <1>3 DEF ErrorAwaited, Waited, EntryFollowsTask
<1>10. ASSUME NEW d \in Child PROVE Count(d)' = IF d = c THEN 1 ELSE Count(d)
  <2>1. told[d] \in Nat BY <1>0 DEF TypeOK
  <2>2. CASE d = c
    <3>1. Count(c) = 0 BY <1>0, <1>2 DEF NotesTrue
    <3>2. told[c] = 0 BY <2>1, <2>2, <3>1, CountIs
    <3>3. (IF c \in notes' THEN 1 ELSE 0) = 1 BY <1>2
    <3>4. Count(c)' = 0 + 1 BY <1>2, <3>2, <3>3 DEF Count
    <3> QED BY <2>2, <3>4
  <2>3. CASE d # c
    <3>1. d \in notes' <=> d \in notes BY <1>2, <2>3
    <3>2. Count(d)' = Count(d) BY <1>2, <3>1 DEF Count
    <3> QED BY <2>3, <3>2
  <2> QED BY <2>2, <2>3
<1>11. NotesTrue' BY <1>0, <1>2, <1>3, <1>4, <1>10 DEF NotesTrue
<1>12. ChildrenWithinRun' BY <1>0, <1>1, <1>2, <1>3 DEF ChildrenWithinRun, Alive
<1> QED BY <1>5, <1>6, <1>7, <1>8, <1>9, <1>11, <1>12 DEF RunInv, Registry
-----------------------------------------------------------------------------
(* The executor, and all steps *)

LEMMA ExecutorKeeps ==
    ASSUME RunInv, EndRun \/ Cancel
    PROVE  RunInv'
<1> USE DEF Working, Undecided, Terminal
<1>0. TypeOK /\ LoopsTyped /\ TurnBegun /\ EntryFollowsTask /\ StoppedKilled /\ ErrorAwaited
      /\ NotesTrue /\ ChildrenWithinRun
  BY DEF RunInv, Registry, LoopsTyped
<1>1. Main \in Run /\ (\A d \in Child : d \in Run /\ d # Main)
  BY RunAssumption DEF Run
<1>2. /\ UNCHANGED <<turn, retried, stop, used, waitsFor, status, background, aborted, notified,
                     notes, told, said, timedOut>>
      /\ cancelled' \in BOOLEAN
      /\ phase' \in [Run -> {"none", "starting", "boundary", "call", "tools", "waiting",
                              "returned", "notify", "over"}]
      /\ \A c \in Child : phase'[c] = phase[c]
      /\ \/ phase'[Main] = phase[Main]
         \/ phase[Main] = "returned" /\ phase'[Main] = "over" /\ \A c \in Child : ~ Alive(c)
  BY <1>0, <1>1 DEF EndRun, Cancel, Goto, loops, tasks, news, TypeOK
<1>3. LoopsTyped' BY <1>0, <1>2 DEF LoopsTyped, TypeOK
<1>4. TurnBegun' BY <1>0, <1>2 DEF TurnBegun, Run
<1>5. EntryFollowsTask' BY <1>0, <1>2 DEF EntryFollowsTask
<1>6. StoppedKilled' BY <1>0, <1>2 DEF StoppedKilled
<1>7. ErrorAwaited' BY <1>0, <1>2 DEF ErrorAwaited, Waited
<1>8. NotesTrue' BY <1>0, <1>2, CountKept DEF NotesTrue
<1>9. ChildrenWithinRun' BY <1>0, <1>2 DEF ChildrenWithinRun, Alive
<1> QED BY <1>3, <1>4, <1>5, <1>6, <1>7, <1>8, <1>9 DEF RunInv, Registry

LEMMA StutterKeeps ==
    ASSUME RunInv, UNCHANGED vars
    PROVE  RunInv'
<1> USE DEF vars, loops, tasks, news
<1>1. UNCHANGED <<phase, turn, retried, stop, cancelled, used, waitsFor, status, background,
                  aborted, notified, notes, told, said, timedOut>>
  OBVIOUS
<1>2. Registry'
  BY <1>1 DEF RunInv, Registry, LoopsTyped, TypeOK, TurnBegun, EntryFollowsTask, StoppedKilled,
              ErrorAwaited, Waited
<1>3. NotesTrue' BY <1>1, CountKept DEF RunInv, NotesTrue
<1>4. ChildrenWithinRun' BY <1>1 DEF RunInv, ChildrenWithinRun, Alive
<1> QED BY <1>2, <1>3, <1>4 DEF RunInv

LEMMA NextKeeps == RunInv /\ [Next]_vars => RunInv'
<1> SUFFICES ASSUME RunInv, [Next]_vars PROVE RunInv' OBVIOUS
<1>1. Main \in Run /\ Child \subseteq Run BY DEF Run
<1>2. CASE Loop(Main) BY <1>1, <1>2, LoopKeeps
<1>3. CASE EndRun \/ Cancel BY <1>3, ExecutorKeeps
<1>4. ASSUME NEW c \in Child, Tools(c) PROVE RunInv'
  BY <1>4, ForkKeeps, StopChildKeeps DEF Tools
<1>5. ASSUME NEW c \in Child, Handler(c) PROVE RunInv'
  BY <1>5, EndForegroundKeeps, TimeOutKeeps DEF Handler
<1>6. ASSUME NEW c \in Child, Task(c) PROVE RunInv'
  BY <1>1, <1>6, LoopKeeps, AbortKeeps, RecordKeeps, NotifyKeeps DEF Task
<1>7. CASE UNCHANGED vars BY <1>7, StutterKeeps
<1> QED BY <1>2, <1>3, <1>4, <1>5, <1>6, <1>7 DEF Next

LEMMA Invariant == Spec => []RunInv
BY InitRun, NextKeeps, PTL DEF Spec
-----------------------------------------------------------------------------
(* The loops and the registry keep their types (loop_executor.rs, task_registry.rs). *)
THEOREM RunTyping == Spec => []TypeOK
<1>1. RunInv => TypeOK BY DEF RunInv, Registry, LoopsTyped
<1> QED BY <1>1, Invariant, PTL

(* No task of a run is left when the run has ended: the drainer of execute_run waits for *)
(* all that hold its channel.                                                            *)
THEOREM NoChildOutlivesRun == Spec => []ChildrenWithinRun
<1>1. RunInv => ChildrenWithinRun BY DEF RunInv
<1> QED BY <1>1, Invariant, PTL

(* What a child tells of its end is told once and is the verdict of the registry, but for *)
(* a child stopped while it failed (take_notify_flag, finish).                            *)
THEOREM NotificationsTrue == Spec => []NotesTrue
<1>1. RunInv => NotesTrue BY DEF RunInv
<1> QED BY <1>1, Invariant, PTL

(* At the end of the run a verdict is missing only for a child that failed after its tool *)
(* call was dropped (fork_subagent, run_forked_agent).                                    *)
THEOREM VerdictsAtEnd == Spec => []VerdictAtEnd
<1>1. RunInv => VerdictAtEnd
  <2> SUFFICES ASSUME RunInv, phase[Main] = "over", NEW c \in Child, status[c] = "running"
               PROVE  c \in timedOut /\ stop[c] = "error"
    BY DEF VerdictAtEnd
  <2>1. phase[c] \in {"none", "over"} BY DEF RunInv, ChildrenWithinRun, Alive
  <2>2. phase[c] = "over" /\ stop[c] = "error"
    BY <2>1 DEF RunInv, Registry, EntryFollowsTask, Terminal
  <2>3. c \in timedOut BY <2>2 DEF RunInv, Registry, ErrorAwaited, Waited
  <2> QED BY <2>2, <2>3
<1> QED BY <1>1, Invariant, PTL

(* A verdict is never changed: finish spares a killed entry, and for an error nobody  *)
(* records a verdict before the one who waits for it or tells of it.                  *)
THEOREM VerdictsFinal == Spec => VerdictFinal
<1> DEFINE Final == \A c \in Child : status[c] \in Terminal => status'[c] = status[c]
<1>1. RunInv /\ [Next]_vars => Final
  <2> SUFFICES ASSUME RunInv, [Next]_vars PROVE Final OBVIOUS
  <2> HIDE DEF Final
  <2>0. /\ status \in [Child -> {"none", "running"} \cup Terminal]
        /\ EntryFollowsTask /\ ErrorAwaited
        /\ TypeOK /\ TurnBegun
        /\ Child \subseteq Run /\ Main \in Run
    BY DEF RunInv, Registry, LoopsTyped, TypeOK, Run
  <2>1. ASSUME UNCHANGED status PROVE Final BY <2>1 DEF Final
  <2>2. ASSUME NEW c \in Child, status[c] \in {"none", "running"} \/ status'[c] = status[c],
               \A d \in Child : d # c => status'[d] = status[d]
        PROVE  Final
    BY <2>2 DEF Final, Terminal
  <2>3. CASE Loop(Main) \/ EndRun \/ Cancel \/ UNCHANGED vars
    BY <2>0, <2>1, <2>3, LoopStep DEF EndRun, Cancel, vars, tasks
  <2>4. ASSUME NEW c \in Child, Tools(c) PROVE Final
    <3>1. status[c] \in {"none", "running"} /\ \A d \in Child : d # c => status'[d] = status[d]
      BY <2>0, <2>4 DEF Tools, ForkInBackground, ForkInForeground, Fork, StopChild
    <3> QED BY <2>2, <3>1
  <2>5. ASSUME NEW c \in Child, Handler(c) PROVE Final
    <3>1. CASE TimeOut(c) BY <2>1, <3>1 DEF TimeOut, tasks
    <3>2. CASE EndForeground(c)
      <4>1. status[c] \in {"none", "running"} \/ status'[c] = status[c]
        BY <2>0, <3>2 DEF EndForeground, Finish, ErrorAwaited, Waited, Undecided
      <4>2. \A d \in Child : d # c => status'[d] = status[d]
        BY <2>0, <3>2 DEF EndForeground, Finish
      <4> QED BY <2>2, <4>1, <4>2
    <3> QED BY <2>5, <3>1, <3>2 DEF Handler
  <2>6. ASSUME NEW c \in Child, Task(c) PROVE Final
    <3>1. CASE Loop(c) BY <2>0, <2>1, <3>1, LoopStep DEF tasks
    <3>2. CASE Abort(c) BY <2>1, <3>2 DEF Abort, tasks
    <3>3. CASE Record(c)
      <4>1. status[c] \in {"none", "running"} \/ status'[c] = status[c]
        BY <2>0, <3>3 DEF Record, Finish, EntryFollowsTask, Working, Undecided
      <4>2. \A d \in Child : d # c => status'[d] = status[d]
        BY <2>0, <3>3 DEF Record, Finish
      <4> QED BY <2>2, <4>1, <4>2
    <3>4. CASE Notify(c)
      <4>1. status[c] \in {"none", "running"} \/ status'[c] = status[c]
        BY <2>0, <3>4 DEF Notify, Finish, EntryFollowsTask, Undecided
      <4>2. \A d \in Child : d # c => status'[d] = status[d]
        BY <2>0, <3>4 DEF Notify, Finish
      <4> QED BY <2>2, <4>1, <4>2
    <3> QED BY <2>6, <3>1, <3>2, <3>3, <3>4 DEF Task
  <2> QED BY <2>3, <2>4, <2>5, <2>6 DEF Next
<1>2. RunInv /\ [Next]_vars => [Final]_vars BY <1>1
<1> QED BY <1>2, Invariant, PTL DEF Spec, VerdictFinal
=============================================================================
