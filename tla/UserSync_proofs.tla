--------------------------- MODULE UserSync_proofs ---------------------------
(***************************************************************************)
(* Type correctness of UserSync and SyncedOrRestarting, for every set of   *)
(* users, speeds and run slots and any number of edits of the panel.       *)
(*                                                                         *)
(* SyncedOrRestarting says nothing while a run is in progress, so it is    *)
(* not inductive.  SyncInv says where each step of a run has brought the   *)
(* limits between the old list and the new one, and, as long as no account *)
(* failed to build, the inbound and uidMap.  It needs the run to be alone: *)
(* a run the loop has given up goes on beside its successor, but then a    *)
(* reload was asked for, and that stays so until the controller is closed. *)
(* An empty list is the one answer that is kept and not applied (the run   *)
(* user_sync_empty): AppliedOrRestarting holds of every panel, and         *)
(* SyncedOrRestarting is proved from it for one whose list never becomes   *)
(* empty.                                                                  *)
(***************************************************************************)
EXTENDS UserSync, Task_proofs

Restarting == reloadCh = 1 \/ reloading

(* A run has a place in userListMonitor as long as its goroutine runs. *)
PcMatchesRun == \A r \in Runs : pc[r] # "none" <=> run[r] = "running"

(* Nobody but the run the loop waits for is in progress. *)
RunIsAlone == \A r \in Runs : pc[r] # "none" => cur = r

(* The inbound has the users of the controller's list, and the program will ask
   for any other list: the one it last received is this one, or one without
   users. *)
Agrees ==
    /\ inbound = Users(userList) /\ uids = inbound
    /\ etag = userList \/ Users(etag) = {}

(* What a run that is not in progress leaves behind. *)
Applied == limit = userList /\ (Agrees \/ refused)

(* The differences of the list the run r has fetched to the present one. *)
Compared(r) ==
    /\ deleted[r] = Missing(userList, newU[r])
    /\ added[r] = Missing(newU[r], userList)

(* How far the run r has brought the limits ... *)
LimitStage(r) ==
    /\ pc[r] \in {"del", "add", "limit"} => Compared(r)
    /\ pc[r] # "commit" => limit = userList
    /\ pc[r] = "commit" => limit = newU[r]

(* ... and the inbound and uidMap. *)
Received(r) == etag = newU[r] /\ uids = inbound

UserStage(r) ==
    CASE pc[r] \in {"compare", "del"} -> Received(r) /\ inbound = Users(userList)
      [] pc[r] = "add" -> Received(r) /\ inbound = Users(userList) \ deleted[r]
      [] pc[r] \in {"limit", "commit"} -> Received(r) /\ inbound = Users(newU[r])
      [] OTHER -> Agrees

Stage(r) == LimitStage(r) /\ (UserStage(r) \/ refused)

SyncInv ==
    Restarting \/ (/\ RunIsAlone
                   /\ \A r \in Runs : pc[r] # "none" => Stage(r)
                   /\ (\A r \in Runs : pc[r] = "none") => Applied)

-----------------------------------------------------------------------------
(* Every step of the component is a step of its Task or leaves it alone. *)
LEMMA NextIsTaskStep == [Next]_vars => [TaskNext]_taskVars
  <1> SUFFICES ASSUME [Next]_vars
               PROVE  [TaskNext]_taskVars
      OBVIOUS
  <1>1. CASE TaskSteps
        BY <1>1 DEF TaskSteps, TaskNext
  <1>2. CASE BeginReload \/ CloseTask
        BY <1>2 DEF BeginReload, CloseTask, TaskNext
  <1>3. ASSUME NEW r \in Runs, LaunchSync(r) \/ ReturnSync(r)
        PROVE  [TaskNext]_taskVars
        BY <1>3 DEF LaunchSync, ReturnSync, TaskNext
  <1>4. ASSUME NEW r \in Runs, RunStep(r), ~ReturnSync(r)
        PROVE  UNCHANGED taskVars
        BY <1>4 DEF RunStep, FetchError, FetchReply, Compare, Delete, Add, Limit, Commit
  <1>5. ASSUME NEW l \in PanelLists, PanelChanges(l)
        PROVE  UNCHANGED taskVars
        BY <1>5 DEF PanelChanges
  <1>6. CASE UNCHANGED vars
        BY <1>6 DEF vars
  <1> QED
      BY <1>1, <1>2, <1>3, <1>4, <1>5, <1>6 DEF Next

-----------------------------------------------------------------------------
(* The part of the types that is not the Task's. *)
SyncTypeOK ==
    /\ list \in Lists /\ etag \in Lists /\ userList \in Lists /\ limit \in Lists
    /\ changes \in 0..MaxChanges
    /\ inbound \in SUBSET Uuids /\ uids \in SUBSET Uuids
    /\ pc \in [Runs -> PcStates]
    /\ newU \in [Runs -> Lists]
    /\ deleted \in [Runs -> SUBSET Uuids]
    /\ added \in [Runs -> SUBSET Uuids]
    /\ reloading \in BOOLEAN /\ refused \in BOOLEAN

(* The users of a list, and the differences of two, are users. *)
LEMMA UsersAreUuids ==
    \A a, b : Users(a) \in SUBSET Uuids /\ Missing(a, b) \in SUBSET Uuids
  BY DEF Users, Missing

(* The first list is one of the lists, and nobody runs yet. *)
LEMMA SyncTypeInit == Init => SyncTypeOK
  <1> SUFFICES ASSUME Init
               PROVE  SyncTypeOK
      OBVIOUS
  <1>1. list \in Lists /\ etag = list /\ userList = list /\ limit = list
        BY FirstListsAssumption DEF Init
  <1>2. NoUsers \in Lists
        BY DEF NoUsers, Lists
  <1>3. inbound \in SUBSET Uuids /\ uids \in SUBSET Uuids /\ changes \in 0..MaxChanges
        BY UsersAreUuids, MaxChangesAssumption DEF Init
  <1>4. /\ pc \in [Runs -> PcStates] /\ newU \in [Runs -> Lists]
        /\ deleted \in [Runs -> SUBSET Uuids] /\ added \in [Runs -> SUBSET Uuids]
        BY <1>2 DEF Init, PcStates
  <1> QED
      BY <1>1, <1>3, <1>4 DEF Init, SyncTypeOK

(* A step of the component keeps the types of its own variables. *)
LEMMA SyncTypeStep == SyncTypeOK /\ [Next]_vars => SyncTypeOK'
  <1> SUFFICES ASSUME SyncTypeOK, [Next]_vars
               PROVE  SyncTypeOK'
      OBVIOUS
  <1> USE DEF SyncTypeOK, PcStates, Go
  <1>1. CASE TaskSteps \/ CloseTask
        BY <1>1 DEF TaskSteps, CloseTask, syncVars
  <1>2. CASE BeginReload
        BY <1>2 DEF BeginReload
  <1>3. ASSUME NEW r \in Runs, LaunchSync(r)
        PROVE  SyncTypeOK'
        BY <1>3 DEF LaunchSync
  <1>4. ASSUME NEW r \in Runs, RunStep(r)
        PROVE  SyncTypeOK'
    <2>1. CASE FetchError(r)
          BY <2>1 DEF FetchError
    <2>2. CASE FetchReply(r)
          BY <2>2 DEF FetchReply
    <2>3. CASE Compare(r)
          BY <2>3, UsersAreUuids DEF Compare
    <2>4. CASE Delete(r)
          BY <2>4 DEF Delete
    <2>5. CASE Add(r)
          BY <2>5 DEF Add
    <2>6. CASE Limit(r)
      <3>1. limit' \in Lists
            BY <2>6 DEF Limit, Lists
      <3> QED
          BY <2>6, <3>1 DEF Limit
    <2>7. CASE Commit(r)
          BY <2>7 DEF Commit
    <2>8. CASE ReturnSync(r)
      <3>1. NoUsers \in Lists
            BY DEF NoUsers, Lists
      <3> QED
          BY <2>8, <3>1 DEF ReturnSync
    <2> QED
        BY <1>4, <2>1, <2>2, <2>3, <2>4, <2>5, <2>6, <2>7, <2>8 DEF RunStep
  <1>5. ASSUME NEW l \in PanelLists, PanelChanges(l)
        PROVE  SyncTypeOK'
        BY <1>5, MaxChangesAssumption, PanelListsAssumption DEF PanelChanges
  <1>6. CASE UNCHANGED vars
        BY <1>6 DEF vars, syncVars
  <1> QED
      BY <1>1, <1>2, <1>3, <1>4, <1>5, <1>6 DEF Next

-----------------------------------------------------------------------------
(* What a run does with two lists *)

(* A user that is kept is not added, and the users that are kept and those that
   are added are the new list's. *)
LEMMA ApplyUsers ==
  ASSUME NEW a \in Lists, NEW b \in Lists
  PROVE  /\ Missing(a, b) \subseteq Users(a)
         /\ Missing(b, a) \cap (Users(a) \ Missing(a, b)) = {}
         /\ (Users(a) \ Missing(a, b)) \cup Missing(b, a) = Users(b)
  BY DEF Missing, Users, Lists

(* Taking the limits of the deleted away and setting those of the added makes
   the limits of one list those of the other. *)
LEMMA ApplyLimits ==
  ASSUME NEW a \in Lists, NEW b \in Lists
  PROVE  [u \in Uuids |-> IF u \in Missing(b, a) THEN b[u]
                          ELSE IF u \in Missing(a, b) THEN None ELSE a[u]] = b
  BY DEF Missing, Users, Lists

-----------------------------------------------------------------------------
(* Once a reload has been asked for, the controller is closed before anything
   else can be said of it: the signal stays until the main loop takes it. *)
LEMMA RestartingStays == TaskTypeOK /\ Restarting /\ [Next]_vars => Restarting'
  <1> SUFFICES ASSUME TaskTypeOK, Restarting, [Next]_vars
               PROVE  Restarting'
      OBVIOUS
  <1>1. CASE BeginReload
        BY <1>1 DEF BeginReload, Restarting
  <1>2. CASE ~BeginReload
    <2>1. reloading' = reloading
          BY <1>2 DEF Next, TaskSteps, CloseTask, LaunchSync, RunStep, FetchError, FetchReply,
                      Compare, Delete, Add, Limit, Commit, ReturnSync, PanelChanges, vars, syncVars
    <2>2. reloadCh' = reloadCh \/ reloadCh' = 1
      <3>1. CASE TaskSteps \/ CloseTask
            BY <3>1 DEF TaskSteps, CloseTask, Start, LoopStep, LoopTop, TimerFires, Expire,
                        NoticeTimeout, NoticeDone, Close
      <3>2. ASSUME NEW r \in Runs, LaunchSync(r)
            PROVE  reloadCh' = reloadCh
            BY <3>2 DEF LaunchSync, Launch
      <3>3. ASSUME NEW r \in Runs, RunStep(r)
            PROVE  reloadCh' = reloadCh
            BY <3>3 DEF RunStep, FetchError, FetchReply, Compare, Delete, Add, Limit, Commit,
                        ReturnSync, RunReturns, taskVars
      <3>4. ASSUME NEW l \in PanelLists, PanelChanges(l)
            PROVE  reloadCh' = reloadCh
            BY <3>4 DEF PanelChanges, taskVars
      <3>5. CASE UNCHANGED vars
            BY <3>5 DEF vars, taskVars
      <3> QED
          BY <1>2, <3>1, <3>2, <3>3, <3>4, <3>5 DEF Next
    <2> QED
        BY <2>1, <2>2 DEF Restarting
  <1> QED
      BY <1>1, <1>2

(* A goroutine begins and ends with its place in userListMonitor. *)
LEMMA PcMatchesStep ==
  TaskTypeOK /\ TaskInv /\ SyncTypeOK /\ PcMatchesRun /\ [Next]_vars => PcMatchesRun'
  <1> SUFFICES ASSUME TaskTypeOK, TaskInv, SyncTypeOK, PcMatchesRun, [Next]_vars
               PROVE  PcMatchesRun'
      OBVIOUS
  <1> USE DEF TaskTypeOK, TaskInv, SyncTypeOK, PcMatchesRun, Go, syncVars
  <1>1. CASE TaskSteps
    <2>1. CASE NoticeTimeout
          BY <1>1, <2>1, NoneAssumption DEF TaskSteps, NoticeTimeout, CurIsAwaited
    <2>2. CASE NoticeDone
          BY <1>1, <2>2, NoneAssumption DEF TaskSteps, NoticeDone, CurIsAwaited
    <2>3. CASE Start \/ LoopTop \/ TimerFires \/ Expire
          BY <1>1, <2>3 DEF TaskSteps, Start, LoopTop, TimerFires, Expire
    <2> QED
        BY <1>1, <2>1, <2>2, <2>3 DEF TaskSteps, LoopStep
  <1>2. CASE BeginReload \/ CloseTask
        BY <1>2 DEF BeginReload, CloseTask, TakeReload, Close
  <1>3. ASSUME NEW r \in Runs, LaunchSync(r)
        PROVE  PcMatchesRun'
        BY <1>3 DEF LaunchSync, Launch
  <1>4. ASSUME NEW r \in Runs, ReturnSync(r)
        PROVE  PcMatchesRun'
        BY <1>4 DEF ReturnSync, RunReturns
  <1>5. ASSUME NEW r \in Runs, RunStep(r), ~ReturnSync(r)
        PROVE  PcMatchesRun'
        BY <1>5 DEF RunStep, FetchError, FetchReply, Compare, Delete, Add, Limit, Commit, taskVars
  <1>6. ASSUME NEW l \in PanelLists, PanelChanges(l)
        PROVE  PcMatchesRun'
        BY <1>6 DEF PanelChanges, taskVars
  <1>7. CASE UNCHANGED vars
        BY <1>7 DEF vars, taskVars
  <1> QED
      BY <1>1, <1>2, <1>3, <1>4, <1>5, <1>6, <1>7 DEF Next

-----------------------------------------------------------------------------
(* Every step of the one run that is in progress brings the limits to the next
   stage, whatever it meets ... *)
LEMMA LimitStageStep ==
  ASSUME SyncTypeOK, NEW r \in Runs, LimitStage(r), pc[r] # "none",
         RunStep(r), ~ReturnSync(r)
  PROVE  LimitStage(r)' /\ pc'[r] # "none"
  <1> USE DEF SyncTypeOK, Go, LimitStage, Compared
  <1>1. CASE FetchError(r)
        BY <1>1 DEF FetchError
  <1>2. CASE FetchReply(r)
        BY <1>2 DEF FetchReply
  <1>3. CASE Compare(r)
    <2>1. /\ pc'[r] = "del"
          /\ deleted'[r] = Missing(userList, newU[r])
          /\ added'[r] = Missing(newU[r], userList)
          BY <1>3 DEF Compare
    <2>2. limit = userList /\ UNCHANGED <<userList, limit, newU>>
          BY <1>3 DEF Compare
    <2> QED
        BY <2>1, <2>2
  <1>4. CASE Delete(r)
        BY <1>4 DEF Delete
  <1>5. CASE Add(r)
    <2>1. Compared(r) /\ limit = userList /\ pc'[r] \in {"limit", "return"}
          BY <1>5 DEF Add
    <2>2. UNCHANGED <<userList, limit, newU, deleted, added>>
          BY <1>5 DEF Add
    <2> QED
        BY <2>1, <2>2
  <1>6. CASE Limit(r)
    <2>1. Compared(r) /\ limit = userList
          BY <1>6 DEF Limit
    <2>2. limit' = [u \in Uuids |-> IF u \in Missing(newU[r], userList) THEN newU[r][u]
                                    ELSE IF u \in Missing(userList, newU[r]) THEN None
                                    ELSE userList[u]]
          BY <1>6, <2>1 DEF Limit
    <2>3. limit' = newU[r]
          BY <2>2, ApplyLimits
    <2> QED
        BY <1>6, <2>3 DEF Limit
  <1>7. CASE Commit(r)
    <2>1. limit = newU[r]
          BY <1>7 DEF Commit
    <2>2. pc'[r] = "return" /\ userList' = newU[r] /\ UNCHANGED limit
          BY <1>7 DEF Commit
    <2> QED
        BY <2>1, <2>2
  <1> QED
      BY <1>1, <1>2, <1>3, <1>4, <1>5, <1>6, <1>7 DEF RunStep

(* ... and the inbound, unless an account does not build: nothing else it does
   can fail half-way. *)
LEMMA UserStageStep ==
  ASSUME SyncTypeOK, NEW r \in Runs, LimitStage(r), UserStage(r), pc[r] # "none",
         RunStep(r), ~ReturnSync(r)
  PROVE  UserStage(r)' \/ refused'
  <1> USE DEF SyncTypeOK, Go, Received
  <1>1. CASE FetchError(r)
        BY <1>1 DEF FetchError, UserStage, Agrees
  <1>2. CASE FetchReply(r)
    <2>1. Agrees /\ UNCHANGED <<userList, inbound, uids>>
          BY <1>2 DEF FetchReply, UserStage
    <2>2. CASE list = etag \/ Users(list) = {}
      <3>1. pc'[r] = "return" /\ etag' = list
            BY <1>2, <2>2 DEF FetchReply
      <3> QED
          BY <2>1, <2>2, <3>1 DEF UserStage, Agrees
    <2>3. CASE list # etag /\ Users(list) # {}
      <3>1. pc'[r] = "compare" /\ newU'[r] = list /\ etag' = list
            BY <1>2, <2>3 DEF FetchReply
      <3> QED
          BY <2>1, <3>1 DEF Agrees, UserStage
    <2> QED
        BY <2>2, <2>3
  <1>3. CASE Compare(r)
    <2>1. Received(r) /\ inbound = Users(userList)
          BY <1>3 DEF Compare, UserStage
    <2>2. pc'[r] = "del" /\ UNCHANGED <<etag, userList, inbound, uids, newU>>
          BY <1>3 DEF Compare
    <2> QED
        BY <2>1, <2>2 DEF UserStage
  <1>4. CASE Delete(r)
    <2>1. Received(r) /\ Compared(r) /\ inbound = Users(userList)
          BY <1>4 DEF Delete, UserStage, LimitStage
    <2>2. deleted[r] \subseteq inbound
          BY <2>1, ApplyUsers DEF Compared
    <2>3. pc'[r] = "add" /\ inbound' = inbound \ deleted[r] /\ uids' = uids \ deleted[r]
          BY <1>4, <2>2 DEF Delete
    <2>4. UNCHANGED <<etag, userList, newU, deleted>>
          BY <1>4 DEF Delete
    <2> QED
        BY <2>1, <2>3, <2>4 DEF UserStage
  <1>5. CASE Add(r)
    <2>1. Received(r) /\ Compared(r) /\ inbound = Users(userList) \ deleted[r]
          BY <1>5 DEF Add, UserStage, LimitStage
    <2>2. added[r] \cap inbound = {} /\ inbound \cup added[r] = Users(newU[r])
          BY <2>1, ApplyUsers DEF Compared
    <2>3. CASE added[r] \cap Unbuildable # {}
          BY <1>5, <2>3 DEF Add
    <2>4. CASE added[r] \cap Unbuildable = {}
      <3>1. added[r] \ (inbound \cup Unbuildable) = added[r]
            BY <2>2, <2>4
      <3>2. pc'[r] = "limit" /\ inbound' = inbound \cup added[r] /\ uids' = uids \cup added[r]
            BY <1>5, <3>1 DEF Add
      <3>3. UNCHANGED <<etag, newU>>
            BY <1>5 DEF Add
      <3> QED
          BY <2>1, <2>2, <3>2, <3>3 DEF UserStage
    <2> QED
        BY <2>3, <2>4
  <1>6. CASE Limit(r)
    <2>1. Received(r) /\ inbound = Users(newU[r])
          BY <1>6 DEF Limit, UserStage
    <2>2. pc'[r] = "commit" /\ UNCHANGED <<etag, inbound, uids, newU>>
          BY <1>6 DEF Limit
    <2> QED
        BY <2>1, <2>2 DEF UserStage
  <1>7. CASE Commit(r)
    <2>1. Received(r) /\ inbound = Users(newU[r])
          BY <1>7 DEF Commit, UserStage
    <2>2. pc'[r] = "return" /\ userList' = newU[r] /\ UNCHANGED <<etag, inbound, uids>>
          BY <1>7 DEF Commit
    <2> QED
        BY <2>1, <2>2 DEF UserStage, Agrees
  <1> QED
      BY <1>1, <1>2, <1>3, <1>4, <1>5, <1>6, <1>7 DEF RunStep

(* An account that did not build is never made up for. *)
LEMMA RefusedStays == refused /\ [Next]_vars => refused'
  BY DEF Next, TaskSteps, BeginReload, CloseTask, LaunchSync, RunStep, FetchError, FetchReply,
         Compare, Delete, Add, Limit, Commit, ReturnSync, PanelChanges, vars, syncVars

LEMMA StageStep ==
  ASSUME SyncTypeOK, [Next]_vars, NEW r \in Runs, Stage(r), pc[r] # "none",
         RunStep(r), ~ReturnSync(r)
  PROVE  Stage(r)' /\ pc'[r] # "none"
  <1>1. LimitStage(r)' /\ pc'[r] # "none"
        BY LimitStageStep DEF Stage
  <1>2. CASE refused
        BY <1>1, <1>2, RefusedStays DEF Stage
  <1>3. CASE ~refused
        BY <1>1, <1>3, UserStageStep DEF Stage
  <1> QED
      BY <1>2, <1>3

(* What the steps of others leave of a stage: all of it. *)
LEMMA StageKept ==
  ASSUME NEW r \in Runs,
         UNCHANGED <<etag, userList, inbound, uids, limit, newU, deleted, added, refused>>,
         pc'[r] = pc[r]
  PROVE  (Stage(r) => Stage(r)') /\ (Applied => Applied')
  BY DEF Stage, LimitStage, UserStage, Received, Compared, Agrees, Applied

(* While no reload is asked for, the run in progress is the only one, and what
   it has not applied yet it still will. *)
LEMMA SyncStep ==
  ASSUME TaskTypeOK, TaskInv, SyncTypeOK, PcMatchesRun, SyncInv, [Next]_vars
  PROVE  SyncInv'
  <1>1. CASE Restarting
        BY <1>1, RestartingStays DEF SyncInv
  <1>2. CASE ~Restarting
    <2> DEFINE Kept == UNCHANGED <<etag, userList, inbound, uids, limit, newU, deleted, added, refused>>
    <2>1. /\ RunIsAlone
          /\ \A r \in Runs : pc[r] # "none" => Stage(r)
          /\ (\A r \in Runs : pc[r] = "none") => Applied
          BY <1>2 DEF SyncInv
    <2>2. ASSUME Kept, pc' = pc, \A r \in Runs : pc[r] # "none" => cur' = cur
          PROVE  SyncInv'
      <3>1. \A r \in Runs : (Stage(r) => Stage(r)') /\ (Applied => Applied')
            BY <2>2, StageKept
      <3>2. (\A r \in Runs : pc[r] = "none") => Applied'
            BY <2>1, <2>2 DEF Applied, Agrees
      <3> QED
          BY <2>1, <2>2, <3>1, <3>2 DEF SyncInv, RunIsAlone
    <2>3. CASE TaskSteps
      <3>1. CASE NoticeTimeout
            BY <3>1 DEF NoticeTimeout, SyncInv, Restarting
      <3>2. CASE NoticeDone
        <4>1. cur \in Runs /\ run[cur] # "running"
              BY <3>2, NoneAssumption DEF NoticeDone, TaskInv, CurIsAwaited, TaskTypeOK
        <4>2. \A r \in Runs : pc[r] = "none"
              BY <2>1, <4>1 DEF RunIsAlone, PcMatchesRun
        <4> QED
            BY <2>2, <2>3, <4>2 DEF TaskSteps, syncVars
      <3>3. CASE Start \/ LoopTop \/ TimerFires \/ Expire
        <4>1. cur' = cur
              BY <3>3 DEF Start, LoopTop, TimerFires, Expire
        <4> QED
            BY <2>2, <2>3, <4>1 DEF TaskSteps, syncVars
      <3> QED
          BY <2>3, <3>1, <3>2, <3>3 DEF TaskSteps, LoopStep
    <2>4. CASE BeginReload
          BY <2>4 DEF BeginReload, SyncInv, Restarting
    <2>5. CASE CloseTask
          BY <2>2, <2>5 DEF CloseTask, Close, syncVars
    <2>6. ASSUME NEW r \in Runs, LaunchSync(r)
          PROVE  SyncInv'
      <3>1. \A q \in Runs : pc[q] = "none"
            BY <2>1, <2>6, NoneAssumption DEF LaunchSync, Launch, RunIsAlone, TaskInv, CurIsAwaited
      <3>2. Applied /\ Kept
            BY <2>1, <2>6, <3>1 DEF LaunchSync
      <3>3. cur' = r /\ pc' = [pc EXCEPT ![r] = "fetch"]
            BY <2>6 DEF LaunchSync, Launch, Go
      <3>4. Applied'
            BY <3>2 DEF Applied, Agrees
      <3>5. \A q \in Runs : pc'[q] # "none" => q = r /\ pc'[q] = "fetch"
            BY <3>1, <3>3 DEF SyncTypeOK
      <3> QED
          BY <3>3, <3>4, <3>5 DEF SyncInv, RunIsAlone, Stage, LimitStage, UserStage, Applied
    <2>7. ASSUME NEW r \in Runs, RunStep(r), ~ReturnSync(r)
          PROVE  SyncInv'
      <3>1. pc[r] # "none" /\ cur' = cur /\ \A q \in Runs \ {r} : pc'[q] = pc[q]
            BY <2>7 DEF RunStep, FetchError, FetchReply, Compare, Delete, Add, Limit, Commit,
                        Go, SyncTypeOK, taskVars
      <3>2. \A q \in Runs \ {r} : pc'[q] = "none"
            BY <2>1, <3>1 DEF RunIsAlone
      <3>3. Stage(r)' /\ pc'[r] # "none"
            BY <2>1, <2>7, <3>1, StageStep
      <3> QED
          BY <2>1, <3>1, <3>2, <3>3 DEF SyncInv, RunIsAlone
    <2>8. ASSUME NEW r \in Runs, ReturnSync(r)
          PROVE  SyncInv'
      <3>1. pc[r] = "return" /\ \A q \in Runs \ {r} : pc'[q] = pc[q]
            BY <2>8 DEF ReturnSync, Go, SyncTypeOK
      <3>2. pc'[r] = "none"
            BY <2>8 DEF ReturnSync, Go, SyncTypeOK
      <3>3. \A q \in Runs : pc'[q] = "none"
            BY <2>1, <3>1, <3>2 DEF RunIsAlone
      <3>4. Applied /\ UNCHANGED <<etag, userList, inbound, uids, limit, refused>>
            BY <2>1, <2>8, <3>1 DEF Stage, LimitStage, UserStage, Applied, ReturnSync
      <3>5. Applied'
            BY <3>4 DEF Applied, Agrees
      <3> QED
          BY <3>3, <3>5 DEF SyncInv, RunIsAlone
    <2>9. ASSUME NEW l \in PanelLists, PanelChanges(l)
          PROVE  SyncInv'
          BY <2>2, <2>9 DEF PanelChanges, taskVars
    <2>10. CASE UNCHANGED vars
           BY <2>2, <2>10 DEF vars, taskVars, syncVars
    <2> QED
        BY <2>3, <2>4, <2>5, <2>6, <2>7, <2>8, <2>9, <2>10 DEF Next
  <1> QED
      BY <1>1, <1>2

-----------------------------------------------------------------------------
(* The types, and that a run in progress has a goroutine. *)
Typed == TaskTypeOK /\ TaskInv /\ SyncTypeOK /\ PcMatchesRun

LEMMA TypedInvariant == Spec => []Typed
  <1>1. Init => Typed
    <2>1. Init => TaskTypeOK /\ TaskInv
          BY TaskInitInv DEF Init
    <2>2. Init => PcMatchesRun
          BY DEF Init, TaskInit, PcMatchesRun
    <2> QED
        BY <2>1, <2>2, SyncTypeInit DEF Typed
  <1>2. Typed /\ [Next]_vars => Typed'
        BY NextIsTaskStep, TaskTypeStep, TaskInvStep, SyncTypeStep, PcMatchesStep DEF Typed
  <1> QED
      BY <1>1, <1>2, PTL DEF Spec

(* The variables of userListMonitor and of the lists it keeps in step have
   their types, whatever the panel answers and however many runs overlap. *)
THEOREM UserSyncTypeCorrect == Spec => []TypeOK
  <1>1. Typed => TypeOK
        BY DEF Typed, SyncTypeOK, TypeOK
  <1> QED
      BY <1>1, TypedInvariant, PTL

(* Whenever no run is in progress and no reload was asked for, the limits are
   those of the controller's list, and, unless an account did not build, the
   inbound and uidMap have its users and the panel is asked again for any other
   list but one without users. *)
AppliedOrRestarting ==
    (\A r \in Runs : pc[r] = "none") => Applied \/ Restarting

(* For any panel, an account that does not build and a run that another one
   overlaps are the only ways to a list that is applied in part and not asked
   for again, although the ETag is stored before the list is applied and every
   step of it may fail; and the first of them leaves the limits whole. *)
THEOREM UserSyncAppliedOrRestarting == Spec => []AppliedOrRestarting
  <1>1. Init => SyncInv
    <2>1. Init => Applied /\ \A r \in Runs : pc[r] = "none"
          BY DEF Init, Applied, Agrees
    <2> QED
        BY <2>1 DEF SyncInv, RunIsAlone
  <1>2. Typed /\ SyncInv /\ [Next]_vars => SyncInv'
        BY SyncStep DEF Typed
  <1>3. SyncInv => AppliedOrRestarting
        BY DEF SyncInv, AppliedOrRestarting
  <1> QED
      BY <1>1, <1>2, <1>3, TypedInvariant, PTL DEF Spec

(* Without an empty list a reply is never taken for 304 by mistake. *)
ListsNotEmpty == Users(list) # {} /\ Users(etag) # {}

(* The panel's list, and the one last received, stay lists of users. *)
LEMMA ListsNotEmptyStep ==
  ASSUME \A l \in PanelLists : Users(l) # {}
  PROVE  ListsNotEmpty /\ [Next]_vars => ListsNotEmpty'
  <1> SUFFICES ASSUME ListsNotEmpty, [Next]_vars
               PROVE  ListsNotEmpty'
      OBVIOUS
  <1>1. ASSUME NEW l \in PanelLists, PanelChanges(l)
        PROVE  ListsNotEmpty'
        BY <1>1 DEF PanelChanges, ListsNotEmpty
  <1>2. CASE \A l \in PanelLists : ~PanelChanges(l)
    <2>1. list' = list /\ (etag' = etag \/ etag' = list)
          BY <1>2 DEF Next, TaskSteps, BeginReload, CloseTask, LaunchSync, RunStep, FetchError,
                      FetchReply, Compare, Delete, Add, Limit, Commit, ReturnSync, vars, syncVars
    <2> QED
        BY <2>1 DEF ListsNotEmpty
  <1> QED
      BY <1>1, <1>2

(* With a panel whose list is never empty, and accounts that build, the list
   applied is the one last received: what the program has agrees with its ETag.
   The limits are whole even where an account does not build. *)
THEOREM UserSyncedOrRestarting ==
  ASSUME \A l \in PanelLists : Users(l) # {}
  PROVE  Spec => []SyncedOrRestarting
  <1>1. Init => ListsNotEmpty
        BY FirstListsAssumption DEF Init, ListsNotEmpty
  <1>2. ListsNotEmpty /\ [Next]_vars => ListsNotEmpty'
        BY ListsNotEmptyStep
  <1>3. ListsNotEmpty /\ AppliedOrRestarting => SyncedOrRestarting
        BY DEF ListsNotEmpty, AppliedOrRestarting, Applied, Agrees, Restarting, SyncedOrRestarting, InSync
  <1> QED
      BY <1>1, <1>2, <1>3, UserSyncAppliedOrRestarting, PTL DEF Spec

(* Every user the inbound admits has a uid to report its traffic under. *)
AdmittedHaveUids == inbound \subseteq uids

(* Whatever list is received, whatever account does not build, wherever DelUsers
   and AddUsers give up in the middle and however many runs overlap, no user is
   admitted without a uid: GetUserTrafficSlice drops no amount of a user that
   is admitted (core/user.go:89). *)
THEOREM UserSyncAdmittedHaveUids == Spec => []AdmittedHaveUids
  <1>1. Init => AdmittedHaveUids
        BY DEF Init, AdmittedHaveUids
  <1>2. AdmittedHaveUids /\ [Next]_vars => AdmittedHaveUids'
    <2> SUFFICES ASSUME AdmittedHaveUids, [Next]_vars
                 PROVE  AdmittedHaveUids'
        OBVIOUS
    <2> USE DEF AdmittedHaveUids
    <2>1. ASSUME NEW r \in Runs, Delete(r)
          PROVE  AdmittedHaveUids'
          BY <2>1 DEF Delete
    <2>2. ASSUME NEW r \in Runs, Add(r)
          PROVE  AdmittedHaveUids'
          BY <2>2 DEF Add
    <2>3. CASE \A r \in Runs : ~Delete(r) /\ ~Add(r)
      <3>1. UNCHANGED <<inbound, uids>>
            BY <2>3 DEF Next, TaskSteps, BeginReload, CloseTask, LaunchSync, RunStep, FetchError,
                        FetchReply, Compare, Limit, Commit, ReturnSync, PanelChanges, vars, syncVars
      <3> QED
          BY <3>1
    <2> QED
        BY <2>1, <2>2, <2>3
  <1> QED
      BY <1>1, <1>2, PTL DEF Spec
=============================================================================
