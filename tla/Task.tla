-------------------------------- MODULE Task --------------------------------
(***************************************************************************)
(* common/task/task.go: the periodic task every controller and every core  *)
(* uses.  Start launches one loop goroutine; each round the loop waits for *)
(* the timer or for Stop, then ExecuteWithTimeout runs Execute in a        *)
(* goroutine of its own and waits for it or for its context's deadline.    *)
(* On the deadline the loop asks for a reload and goes on WITHOUT waiting  *)
(* for the goroutine, so several runs of Execute may exist at a time.      *)
(***************************************************************************)
EXTENDS Naturals, FiniteSets

CONSTANTS
    Runs,     \* slots for Execute goroutines that may exist at a time (a bound)
    First,    \* the argument of Start: run once before the first wait
    None      \* no run

ASSUME NoneAssumption == None \notin Runs
ASSUME FirstAssumption == First \in BOOLEAN

VARIABLES
    running,   \* t.Running
    stopped,   \* t.Stop is closed
    loop,      \* where the loop goroutine is
    cur,       \* the run ExecuteWithTimeout is waiting for
    run,       \* the Execute goroutines; "ok"/"failed": result is in the done channel
    expired,   \* the runs whose context is past its deadline
    reloadCh,  \* number of signals in the reload channel (capacity 1)
    late       \* history: runs launched after Close (counted up to 2)

taskVars == <<running, stopped, loop, cur, run, expired, reloadCh, late>>

LoopStates == {"none", "top", "wait", "fired", "exec", "gone"}
RunStates  == {"idle", "running", "ok", "failed"}

TaskTypeOK ==
    /\ running \in BOOLEAN
    /\ stopped \in BOOLEAN
    /\ loop \in LoopStates
    /\ cur \in Runs \cup {None}
    /\ run \in [Runs -> RunStates]
    /\ expired \in SUBSET Runs
    /\ reloadCh \in 0..1
    /\ late \in 0..2

TaskInit ==
    /\ running = FALSE
    /\ stopped = FALSE
    /\ loop = "none"
    /\ cur = None
    /\ run = [r \in Runs |-> "idle"]
    /\ expired = {}
    /\ reloadCh = 0
    /\ late = 0

-----------------------------------------------------------------------------
(* Start: guarded by Running; the program starts a Task object once. *)
Start ==
    /\ ~running
    /\ loop = "none"
    /\ running' = TRUE
    /\ loop' = IF First THEN "fired" ELSE "top"
    /\ UNCHANGED <<stopped, cur, run, expired, reloadCh, late>>

(* Mutant: the head of the loop waits for the timer without polling Stop. *)
LoopTop_IgnoresStop ==
    /\ loop = "top"
    /\ loop' = "wait"
    /\ UNCHANGED <<running, stopped, cur, run, expired, reloadCh, late>>

(* The head of the loop: the timer is reset and select polls its two
   channels.  The interval is at least a second, so the fresh timer is not
   ready at that poll; a closed Stop is. *)
LoopTop ==
    /\ loop = "top"
    /\ loop' = IF stopped THEN "gone" ELSE "wait"
    /\ UNCHANGED <<running, stopped, cur, run, expired, reloadCh, late>>

(* The timer wakes the parked select. *)
TimerFires ==
    /\ loop = "wait"
    /\ loop' = "fired"
    /\ UNCHANGED <<running, stopped, cur, run, expired, reloadCh, late>>

(* ExecuteWithTimeout up to its select: new context, new goroutine. *)
Launch(r) ==
    /\ loop = "fired"
    /\ run[r] = "idle"
    /\ loop' = "exec"
    /\ cur' = r
    /\ run' = [run EXCEPT ![r] = "running"]
    /\ late' = IF stopped /\ late < 2 THEN late + 1 ELSE late
    /\ UNCHANGED <<running, stopped, expired, reloadCh>>

(* Execute returns.  Its result stays in the buffered channel for the loop,
   or is dropped if the loop gave the run up. *)
RunReturns(r, result) ==
    /\ run[r] = "running"
    /\ run' = [run EXCEPT ![r] = IF cur = r THEN result ELSE "idle"]
    /\ expired' = IF cur = r THEN expired ELSE expired \ {r}
    /\ UNCHANGED <<running, stopped, loop, cur, reloadCh, late>>

(* The deadline of the context the loop is waiting on passes. *)
Expire ==
    /\ loop = "exec"
    /\ cur \notin expired
    /\ expired' = expired \cup {cur}
    /\ UNCHANGED <<running, stopped, loop, cur, run, reloadCh, late>>

(* Mutants: a send that blocks while a signal is queued; a second signal
   queued behind the first; no signal at all; a loop that gives up on a timer of
   its own and leaves the context alone. *)
NoticeTimeout_BlockingSend ==
    /\ loop = "exec"
    /\ cur \in expired
    /\ reloadCh = 0
    /\ loop' = "top"
    /\ cur' = None
    /\ run' = [run EXCEPT ![cur] = IF @ = "running" THEN @ ELSE "idle"]
    /\ expired' = IF run[cur] = "running" THEN expired ELSE expired \ {cur}
    /\ reloadCh' = 1
    /\ UNCHANGED <<running, stopped, late>>

NoticeTimeout_Unbuffered ==
    /\ loop = "exec"
    /\ cur \in expired
    /\ loop' = "top"
    /\ cur' = None
    /\ run' = [run EXCEPT ![cur] = IF @ = "running" THEN @ ELSE "idle"]
    /\ expired' = IF run[cur] = "running" THEN expired ELSE expired \ {cur}
    /\ reloadCh' = reloadCh + 1
    /\ UNCHANGED <<running, stopped, late>>

NoticeTimeout_Silent ==
    /\ loop = "exec"
    /\ cur \in expired
    /\ loop' = "top"
    /\ cur' = None
    /\ run' = [run EXCEPT ![cur] = IF @ = "running" THEN @ ELSE "idle"]
    /\ expired' = IF run[cur] = "running" THEN expired ELSE expired \ {cur}
    /\ UNCHANGED <<running, stopped, reloadCh, late>>

NoticeTimeout_Early ==
    /\ loop = "exec"
    /\ loop' = "top"
    /\ cur' = None
    /\ run' = [run EXCEPT ![cur] = IF @ = "running" THEN @ ELSE "idle"]
    /\ reloadCh' = 1
    /\ UNCHANGED <<running, stopped, expired, late>>

(* select takes ctx.Done(): a non-blocking send on ReloadCh, and the loop
   goes on; the goroutine, if it still runs, is left alone. *)
NoticeTimeout ==
    /\ loop = "exec"
    /\ cur \in expired
    /\ loop' = "top"
    /\ cur' = None
    /\ run' = [run EXCEPT ![cur] = IF @ = "running" THEN @ ELSE "idle"]
    /\ expired' = IF run[cur] = "running" THEN expired ELSE expired \ {cur}
    /\ reloadCh' = 1
    /\ UNCHANGED <<running, stopped, late>>

(* select takes done: nil and context errors go on, any other error ends
   the loop, with Running still true. *)
NoticeDone ==
    /\ loop = "exec"
    /\ run[cur] \in {"ok", "failed"}
    /\ loop' = IF run[cur] = "ok" THEN "top" ELSE "gone"
    /\ cur' = None
    /\ run' = [run EXCEPT ![cur] = "idle"]
    /\ expired' = expired \ {cur}
    /\ UNCHANGED <<running, stopped, reloadCh, late>>

(* Close = safeStop: closes Stop, which wakes a parked select.  It waits for
   neither the loop nor the run. *)
Close ==
    /\ running
    /\ running' = FALSE
    /\ stopped' = TRUE
    /\ loop' = IF loop = "wait" THEN "gone" ELSE loop
    /\ UNCHANGED <<cur, run, expired, reloadCh, late>>

(* The main loop of cmd/server.go receives the reload signal. *)
TakeReload ==
    /\ reloadCh = 1
    /\ reloadCh' = 0
    /\ UNCHANGED <<running, stopped, loop, cur, run, expired, late>>

-----------------------------------------------------------------------------
(* The steps of the loop goroutine other than Launch, which a component that
   gives Execute a body extends with the start of that body. *)
LoopStep == LoopTop \/ TimerFires \/ Expire \/ NoticeTimeout \/ NoticeDone

TaskNext ==
    \/ Start \/ LoopStep \/ Close \/ TakeReload
    \/ \E r \in Runs : Launch(r)
    \/ \E r \in Runs, result \in {"ok", "failed"} : RunReturns(r, result)

TaskSpec == TaskInit /\ [][TaskNext]_taskVars

(* The scheduler runs the loop goroutine and timers expire.  Nothing is
   assumed of Execute: it may hang. *)
TaskFairness ==
    /\ WF_taskVars(LoopTop)
    /\ WF_taskVars(TimerFires)
    /\ WF_taskVars(\E r \in Runs : Launch(r))
    /\ WF_taskVars(Expire)
    /\ WF_taskVars(NoticeTimeout)
    /\ WF_taskVars(NoticeDone)

TaskFairSpec == TaskSpec /\ TaskFairness

-----------------------------------------------------------------------------
Live(r) == run[r] = "running" /\ r \notin expired

(* Timed-out runs go on in the background, but two runs whose contexts are
   both unexpired never exist: ExecuteWithTimeout leaves a run only when it
   is over or its context is done.  Every HTTP call of a run that was given
   up is refused by its context because of this. *)
LiveRunIsCurrent == \A r \in Runs : Live(r) => loop = "exec" /\ cur = r

AtMostOneLiveRun == \A r, s \in Runs : Live(r) /\ Live(s) => r = s

(* Close does not wait for the loop, which may be past its select: one more
   run may begin after Close, never two. *)
AtMostOneLateRun == late <= 1

(* A run that hangs does not hang the task: the loop always leaves
   ExecuteWithTimeout. *)
Watchdog == []<>(loop # "exec")

(* A closed task's loop ends, whatever its runs do (unless every slot of the
   model is taken by a hanging run). *)
ClosedLoopEnds ==
    stopped ~> (loop = "gone" \/ \A r \in Runs : run[r] = "running")
=============================================================================
