------------------------------ MODULE UserSync ------------------------------
(***************************************************************************)
(* One controller's user list: the panel's list, the client's ETag cache   *)
(* (api/panel/user.go), the controller's userList and the runs of          *)
(* userListMonitor (node/task.go), and what they keep in step: the users   *)
(* of the inbound and uidMap (core/user.go) and the limits                 *)
(* (limiter/limiter.go).  The runs are those of a Task: a run that is      *)
(* timed out goes on beside the next one, and asks for a reload.           *)
(* A list is a function from every Uuid to its speed limit, or None; it    *)
(* stands for its own ETag.                                                *)
(***************************************************************************)
EXTENDS Task

CONSTANTS
    Uuids,       \* the users the panel knows
    Speeds,      \* the values of SpeedLimit
    MaxChanges,  \* changes the panel makes to its list (a bound)
    PanelLists,  \* the lists the panel may have
    Unbuildable, \* the users whose account does not build
    FirstLists   \* the lists the controller may start with

ASSUME SpeedsAssumption == None \notin Speeds /\ Speeds # {}
ASSUME MaxChangesAssumption == MaxChanges \in Nat
ASSUME UnbuildableAssumption == Unbuildable \subseteq Uuids

Lists == [Uuids -> Speeds \cup {None}]
Users(l) == {u \in Uuids : l[u] # None}

ASSUME PanelListsAssumption == PanelLists \subseteq Lists

(* A first list without users, or with one that does not build, ends Start
   with an error, and there is no controller. *)
ASSUME FirstListsAssumption ==
    /\ FirstLists \subseteq Lists
    /\ \A l \in FirstLists : Users(l) # {} /\ Users(l) \cap Unbuildable = {}

NoUsers == [u \in Uuids |-> None]
PcStates == {"none", "fetch", "compare", "del", "add", "limit", "commit", "return"}

VARIABLES
    list,       \* the panel's list
    changes,    \* how often it changed
    etag,       \* c.userEtag: the list last received
    userList,   \* c.userList
    inbound,    \* the users of the xray inbound
    uids,       \* the users of uidMap
    limit,      \* UserLimitInfo
    pc,         \* where each run of userListMonitor is
    newU,       \* its locals: the new list ...
    deleted,    \* ... and its difference to userList
    added,
    reloading,  \* the main loop took a signal and is about to close the node
    refused     \* history: AddUsers met an account that does not build

syncVars == <<list, changes, etag, userList, inbound, uids, limit,
              pc, newU, deleted, added, reloading, refused>>
vars == <<taskVars, syncVars>>

TypeOK ==
    /\ TaskTypeOK
    /\ list \in Lists /\ etag \in Lists /\ userList \in Lists /\ limit \in Lists
    /\ changes \in 0..MaxChanges
    /\ inbound \in SUBSET Uuids /\ uids \in SUBSET Uuids
    /\ pc \in [Runs -> PcStates]
    /\ newU \in [Runs -> Lists]
    /\ deleted \in [Runs -> SUBSET Uuids]
    /\ added \in [Runs -> SUBSET Uuids]
    /\ reloading \in BOOLEAN /\ refused \in BOOLEAN

(* Controller.Start has fetched a list that is not empty, and has given it to
   the limiter and to the new inbound; its tasks are about to start. *)
Init ==
    /\ TaskInit
    /\ list \in FirstLists
    /\ etag = list /\ userList = list /\ limit = list
    /\ inbound = Users(list) /\ uids = Users(list)
    /\ changes = 0
    /\ pc = [r \in Runs |-> "none"]
    /\ newU = [r \in Runs |-> NoUsers]
    /\ deleted = [r \in Runs |-> {}]
    /\ added = [r \in Runs |-> {}]
    /\ reloading = FALSE /\ refused = FALSE

-----------------------------------------------------------------------------
(* The panel: an operator edits the list.  Edits made once the reload has
   begun are for the controller that follows this one. *)
PanelChanges(l) ==
    /\ ~reloading
    /\ changes < MaxChanges
    /\ l # list
    /\ list' = l
    /\ changes' = changes + 1
    /\ UNCHANGED <<taskVars, etag, userList, inbound, uids, limit,
                   pc, newU, deleted, added, reloading, refused>>

(* The main loop takes the signal, and then closes the controller. *)
BeginReload ==
    /\ TakeReload
    /\ reloading' = TRUE
    /\ UNCHANGED <<list, changes, etag, userList, inbound, uids, limit,
                   pc, newU, deleted, added, refused>>

CloseTask ==
    /\ reloading
    /\ Close
    /\ UNCHANGED syncVars

-----------------------------------------------------------------------------
(* A run of userListMonitor *)

Go(r, label) == pc' = [pc EXCEPT ![r] = label]

LaunchSync(r) ==
    /\ Launch(r)
    /\ Go(r, "fetch")
    /\ UNCHANGED <<list, changes, etag, userList, inbound, uids, limit,
                   newU, deleted, added, reloading, refused>>

(* Mutant: the ETag is kept before the body is decoded. *)
FetchError_KeepsEtag(r) ==
    /\ pc[r] = "fetch"
    /\ Go(r, "return")
    /\ etag' = list
    /\ UNCHANGED <<taskVars, list, changes, userList, inbound, uids, limit,
                   newU, deleted, added, reloading, refused>>

(* GetUserList fails: the panel cannot be reached or does not answer with a
   list, or the run's context is over. *)
FetchError(r) ==
    /\ pc[r] = "fetch"
    /\ Go(r, "return")
    /\ UNCHANGED <<taskVars, list, changes, etag, userList, inbound, uids, limit,
                   newU, deleted, added, reloading, refused>>

(* GetUserList gets the list, or 304 if it has the ETag of the list last
   received.  An empty list decodes to a nil slice, which the caller takes
   for 304 as well, after the ETag was stored. *)
FetchReply(r) ==
    /\ pc[r] = "fetch"
    /\ r \notin expired
    /\ etag' = list
    /\ \/ /\ list = etag \/ Users(list) = {}
          /\ Go(r, "return")
          /\ newU' = newU
       \/ /\ list # etag /\ Users(list) # {}
          /\ Go(r, "compare")
          /\ newU' = [newU EXCEPT ![r] = list]
    /\ UNCHANGED <<taskVars, list, changes, userList, inbound, uids, limit,
                   deleted, added, reloading, refused>>

(* The users of one list that the other does not have with the same key,
   Uuid and SpeedLimit: compareUserList. *)
Missing(a, b) == {u \in Users(a) : b[u] # a[u]}

Compare(r) ==
    /\ pc[r] = "compare"
    /\ deleted' = [deleted EXCEPT ![r] = Missing(userList, newU[r])]
    /\ added' = [added EXCEPT ![r] = Missing(newU[r], userList)]
    /\ Go(r, "del")
    /\ UNCHANGED <<taskVars, list, changes, etag, userList, inbound, uids, limit,
                   newU, reloading, refused>>

(* DelUsers, under mapLock: RemoveUser fails on the first user the inbound
   does not have, after removing those before it. *)
Delete(r) ==
    /\ pc[r] = "del"
    /\ \/ /\ deleted[r] \subseteq inbound
          /\ inbound' = inbound \ deleted[r]
          /\ uids' = uids \ deleted[r]
          /\ Go(r, "add")
       \/ /\ ~(deleted[r] \subseteq inbound)
          /\ \E before \in SUBSET (deleted[r] \cap inbound) :
                /\ inbound' = inbound \ before
                /\ uids' = uids \ before
          /\ Go(r, "return")
    /\ UNCHANGED <<taskVars, list, changes, etag, userList, limit,
                   newU, deleted, added, reloading, refused>>

(* AddUsers, under mapLock: uidMap gets every user, and then each is built and
   added to the inbound; the first one that does not build, or that the inbound
   has already, ends it after those before it were added. *)
Add(r) ==
    LET addable == added[r] \ (inbound \cup Unbuildable)
    IN  /\ pc[r] = "add"
        /\ uids' = uids \cup added[r]
        /\ \/ /\ addable = added[r]
              /\ inbound' = inbound \cup added[r]
              /\ Go(r, "limit")
           \/ /\ addable # added[r]
              /\ \E before \in SUBSET addable : inbound' = inbound \cup before
              /\ Go(r, "return")
        /\ refused' = (refused \/ added[r] \cap Unbuildable # {})
        /\ UNCHANGED <<taskVars, list, changes, etag, userList, limit,
                       newU, deleted, added, reloading>>

(* Mutant: a deleted user keeps a limit of 0. *)
Limit_KeepsDeleted(r) ==
    /\ pc[r] = "limit"
    /\ limit' = [u \in Uuids |-> IF u \in added[r] THEN newU[r][u]
                                 ELSE IF u \in deleted[r] THEN 0 ELSE limit[u]]
    /\ Go(r, "commit")
    /\ UNCHANGED <<taskVars, list, changes, etag, userList, inbound, uids,
                   newU, deleted, added, reloading, refused>>

(* limiter.UpdateUser: the deleted first, then the added. *)
Limit(r) ==
    /\ pc[r] = "limit"
    /\ limit' = [u \in Uuids |-> IF u \in added[r] THEN newU[r][u]
                                 ELSE IF u \in deleted[r] THEN None ELSE limit[u]]
    /\ Go(r, "commit")
    /\ UNCHANGED <<taskVars, list, changes, etag, userList, inbound, uids,
                   newU, deleted, added, reloading, refused>>

Commit(r) ==
    /\ pc[r] = "commit"
    /\ userList' = newU[r]
    /\ Go(r, "return")
    /\ UNCHANGED <<taskVars, list, changes, etag, inbound, uids, limit,
                   newU, deleted, added, reloading, refused>>

(* Every path of the task returns nil. *)
ReturnSync(r) ==
    /\ pc[r] = "return"
    /\ RunReturns(r, "ok")
    /\ Go(r, "none")
    /\ newU' = [newU EXCEPT ![r] = NoUsers]
    /\ deleted' = [deleted EXCEPT ![r] = {}]
    /\ added' = [added EXCEPT ![r] = {}]
    /\ UNCHANGED <<list, changes, etag, userList, inbound, uids, limit, reloading, refused>>

-----------------------------------------------------------------------------
RunStep(r) ==
    \/ FetchError(r) \/ FetchReply(r) \/ Compare(r) \/ Delete(r)
    \/ Add(r) \/ Limit(r) \/ Commit(r) \/ ReturnSync(r)

TaskSteps == (Start \/ LoopStep) /\ UNCHANGED syncVars

Next ==
    \/ TaskSteps \/ BeginReload \/ CloseTask
    \/ \E r \in Runs : LaunchSync(r) \/ RunStep(r)
    \/ \E l \in PanelLists : PanelChanges(l)

Spec == Init /\ [][Next]_vars

(* The scheduler runs the loop and the runs, whose calls end; a panel that is
   asked again and again answers now and then.  Deadlines need not pass. *)
Fairness ==
    /\ WF_vars((Start \/ LoopTop \/ TimerFires \/ NoticeDone \/ NoticeTimeout)
               /\ UNCHANGED syncVars)
    /\ WF_vars(\E r \in Runs : LaunchSync(r))
    /\ \A r \in Runs : WF_vars(RunStep(r)) /\ SF_vars(FetchReply(r))

FairSpec == Spec /\ Fairness

-----------------------------------------------------------------------------
(* What the program has agrees with the list it last received. *)
InSync ==
    /\ userList = etag
    /\ inbound = Users(etag)
    /\ uids = Users(etag)
    /\ limit = etag

(* The ETag is stored before the list is applied, applying it takes several
   steps any of which may fail, and runs may overlap; still, whenever no run
   is in progress and no reload that will start afresh has been asked for, the
   limits are those of userList, and a list the program will not ask for again
   has been applied in full, unless a list had a user whose account does not
   build: then AddUsers gave up in the middle, and nothing asks for a reload. *)
SyncedOrRestarting ==
    (\A r \in Runs : pc[r] = "none") =>
        \/ reloadCh = 1 \/ reloading
        \/ limit = userList /\ (InSync \/ refused)

(* When the panel's list stays the same, the program comes to have received it
   for good, with limits that are those of userList, or a reload is asked for;
   and, unless an account did not build, the inbound and the limits come to
   agree with the panel's list. *)
Converges ==
    <>[](list = etag /\ limit = userList /\ (InSync \/ refused)) \/ <>(reloadCh = 1)
=============================================================================
