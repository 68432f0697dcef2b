----------------------------- MODULE Task_proofs -----------------------------
(***************************************************************************)
(* Proofs about Task, for any number of Execute goroutines: its types, the *)
(* uniqueness of the unexpired run, and the bound on runs begun after      *)
(* Close.  TrafficReport_proofs cites the step lemmas.                     *)
(***************************************************************************)
EXTENDS Task, TLAPS

(* The loop waits for a run exactly while it is in ExecuteWithTimeout. *)
CurIsAwaited == (loop = "exec") <=> (cur # None)

(* A slot without a goroutine has no context and nobody waits for it; a result is only kept for the
   run the loop waits for. *)
IdleIsFresh ==
    \A r \in Runs : /\ run[r] = "idle" => r \notin expired /\ cur # r
                    /\ run[r] \in {"ok", "failed"} => cur = r

(* A closed task's loop is not parked in its select, and once a run has been
   launched after Close the loop can only finish it. *)
LateRunIsLast ==
    /\ stopped => loop # "wait"
    /\ late # 0 => stopped /\ loop \in {"exec", "top", "gone"}
    /\ late <= 1

TaskInv == CurIsAwaited /\ IdleIsFresh /\ LiveRunIsCurrent /\ LateRunIsLast

(* The initial state of task.go's Task satisfies the invariant. *)
LEMMA TaskInitInv == TaskInit => TaskTypeOK /\ TaskInv
  <1> SUFFICES ASSUME TaskInit
               PROVE  TaskTypeOK /\ TaskInv
      OBVIOUS
  <1> USE DEF TaskInit
  <1>1. TaskTypeOK
    <2>1. running \in BOOLEAN /\ stopped \in BOOLEAN
          OBVIOUS
    <2>2. run \in [Runs -> RunStates]
          BY DEF RunStates
    <2>3. loop \in LoopStates /\ cur \in Runs \cup {None} /\ expired \in SUBSET Runs
          BY DEF LoopStates
    <2>4. reloadCh \in 0..1 /\ late \in 0..2
          OBVIOUS
    <2> QED
        BY <2>1, <2>2, <2>3, <2>4 DEF TaskTypeOK
  <1>2. TaskInv
        BY NoneAssumption DEF TaskInv, CurIsAwaited, IdleIsFresh, LiveRunIsCurrent, Live, LateRunIsLast
  <1> QED
      BY <1>1, <1>2

(* Every step of the task, and a step that leaves it alone, keeps its types. *)
LEMMA TaskTypeStep == TaskTypeOK /\ TaskInv /\ [TaskNext]_taskVars => TaskTypeOK'
  <1> SUFFICES ASSUME TaskTypeOK, TaskInv, [TaskNext]_taskVars
               PROVE  TaskTypeOK'
      OBVIOUS
  <1> USE FirstAssumption, NoneAssumption
      DEF TaskTypeOK, LoopStates, RunStates, TaskInv, CurIsAwaited
  <1>1. CASE Start
        BY <1>1 DEF Start
  <1>2. CASE LoopTop
        BY <1>2 DEF LoopTop
  <1>3. CASE TimerFires
        BY <1>3 DEF TimerFires
  <1>4. CASE Expire
        BY <1>4 DEF Expire
  <1>5. CASE NoticeTimeout
        BY <1>5 DEF NoticeTimeout
  <1>6. CASE NoticeDone
        BY <1>6 DEF NoticeDone
  <1>7. CASE Close
        BY <1>7 DEF Close
  <1>8. CASE TakeReload
        BY <1>8 DEF TakeReload
  <1>9. ASSUME NEW r \in Runs, Launch(r)
        PROVE  TaskTypeOK'
        BY <1>9 DEF Launch
  <1>10. ASSUME NEW r \in Runs, NEW result \in {"ok", "failed"}, RunReturns(r, result)
         PROVE  TaskTypeOK'
         BY <1>10 DEF RunReturns
  <1>11. CASE UNCHANGED taskVars
         BY <1>11 DEF taskVars
  <1> QED
      BY <1>1, <1>2, <1>3, <1>4, <1>5, <1>6, <1>7, <1>8, <1>9, <1>10, <1>11
      DEF TaskNext, LoopStep

(* Every step of the task, and a step that leaves it alone, keeps the
   invariant. *)
LEMMA TaskInvStep == TaskTypeOK /\ TaskInv /\ [TaskNext]_taskVars => TaskInv'
  <1> SUFFICES ASSUME TaskTypeOK, TaskInv, [TaskNext]_taskVars
               PROVE  TaskInv'
      OBVIOUS
  <1> USE FirstAssumption, NoneAssumption
      DEF TaskTypeOK, LoopStates, RunStates, TaskInv, CurIsAwaited, IdleIsFresh,
          LiveRunIsCurrent, Live, LateRunIsLast
  <1>1. CASE Start
        BY <1>1 DEF Start
  <1>2. CASE LoopTop
        BY <1>2 DEF LoopTop
  <1>3. CASE TimerFires
        BY <1>3 DEF TimerFires
  <1>4. CASE Expire
        BY <1>4 DEF Expire
  <1>5. CASE NoticeTimeout
        BY <1>5 DEF NoticeTimeout
  <1>6. CASE NoticeDone
        BY <1>6 DEF NoticeDone
  <1>7. CASE Close
        BY <1>7 DEF Close
  <1>8. CASE TakeReload
        BY <1>8 DEF TakeReload
  <1>9. ASSUME NEW r \in Runs, Launch(r)
        PROVE  TaskInv'
        BY <1>9 DEF Launch
  <1>10. ASSUME NEW r \in Runs, NEW result \in {"ok", "failed"}, RunReturns(r, result)
         PROVE  TaskInv'
         BY <1>10 DEF RunReturns
  <1>11. CASE UNCHANGED taskVars
         BY <1>11 DEF taskVars
  <1> QED
      BY <1>1, <1>2, <1>3, <1>4, <1>5, <1>6, <1>7, <1>8, <1>9, <1>10, <1>11
      DEF TaskNext, LoopStep

(* The invariant bounds what Close leaves behind and leaves no room for a
   second unexpired run. *)
LEMMA TaskInvImplies == TaskInv => AtMostOneLiveRun /\ AtMostOneLateRun
  BY DEF TaskInv, LiveRunIsCurrent, LateRunIsLast, AtMostOneLiveRun, AtMostOneLateRun

(* The task's variables keep their types. *)
THEOREM TaskTypeCorrect == TaskSpec => []TaskTypeOK
  <1> QED
      BY TaskInitInv, TaskTypeStep, TaskInvStep, PTL DEF TaskSpec

(* However many timed-out runs are left in the background, at most one run
   has an unexpired context (ExecuteWithTimeout). *)
THEOREM TaskOneLiveRun == TaskSpec => []AtMostOneLiveRun
  <1> QED
      BY TaskInitInv, TaskTypeStep, TaskInvStep, TaskInvImplies, PTL DEF TaskSpec

(* At most one run begins after Close (safeStop and the loop's select). *)
THEOREM TaskOneLateRun == TaskSpec => []AtMostOneLateRun
  <1> QED
      BY TaskInitInv, TaskTypeStep, TaskInvStep, TaskInvImplies, PTL DEF TaskSpec
=============================================================================
