---------------------------- MODULE TrafficReport ----------------------------
(***************************************************************************)
(* Traffic accounting of one node: the per-user counters                   *)
(* (common/counter/traffic.go), which connections increment without a      *)
(* lock, and the runs of reportUserTrafficTask (node/task.go), which read  *)
(* and reset them (core/user.go, GetUserTrafficSlice) and post the amounts *)
(* to the panel (api/panel/user.go).  The runs are those of a Task: a run  *)
(* that is timed out goes on beside the next one.                          *)
(* users.mapLock: a run holds it for reading while it ranges over the      *)
(* counters; DelUsers and AddUsers hold it for writing, and are atomic.    *)
(***************************************************************************)
EXTENDS Task

CONSTANTS
    Emails,     \* users, by the key format.UserTag gives them
    Storages,   \* the TrafficStorage objects that may be allocated (a bound)
    Threshold,  \* mintraffic * 1000
    MaxSent     \* bytes a connection may count per storage and direction (a bound)

ASSUME ThresholdAssumption == Threshold \in Nat
ASSUME MaxSentAssumption == MaxSent \in Nat
ASSUME StoragesAssumption == None \notin Storages
ASSUME EmailsAssumption == None \notin Emails

Dirs == {"up", "down"}
Zero == [d \in Dirs |-> 0]
PcStates == {"none", "lock", "range", "loadDown", "zeroUp", "zeroDown", "post", "tail"}

VARIABLES
    counter,  \* TrafficCounter.Counters: email -> storage, or None
    val,      \* UpCounter and DownCounter of each storage
    uid,      \* the emails uidMap knows
    pc,       \* where each run of reportUserTrafficTask is
    left,     \* the keys Range has still to pass
    who,      \* the email being visited
    at,       \* and its storage
    ld,       \* the loaded up and down
    slice,    \* trafficSlice: the recorded amounts, per storage
    sent,     \* history: bytes counted into each storage
    claimed   \* history: bytes of each storage the panel has been given

reportVars == <<counter, val, uid, pc, left, who, at, ld, slice, sent, claimed>>
vars == <<taskVars, reportVars>>

Amounts == [Storages -> [Dirs -> Nat]]
NoAmounts == [s \in Storages |-> Zero]

TypeOK ==
    /\ TaskTypeOK
    /\ counter \in [Emails -> Storages \cup {None}]
    /\ val \in Amounts
    /\ uid \in SUBSET Emails
    /\ pc \in [Runs -> PcStates]
    /\ left \in [Runs -> SUBSET Emails]
    /\ who \in [Runs -> Emails \cup {None}]
    /\ at \in [Runs -> Storages \cup {None}]
    /\ ld \in [Runs -> [Dirs -> Nat]]
    /\ slice \in [Runs -> Amounts]
    /\ sent \in Amounts
    /\ claimed \in Amounts

(* Controller.Start has added the first users; no connection yet. *)
Init ==
    /\ TaskInit
    /\ counter = [e \in Emails |-> None]
    /\ val = NoAmounts
    /\ uid = Emails
    /\ pc = [r \in Runs |-> "none"]
    /\ left = [r \in Runs |-> {}]
    /\ who = [r \in Runs |-> None]
    /\ at = [r \in Runs |-> None]
    /\ ld = [r \in Runs |-> Zero]
    /\ slice = [r \in Runs |-> NoAmounts]
    /\ sent = NoAmounts
    /\ claimed = NoAmounts

-----------------------------------------------------------------------------
(* Connections *)

Counted(s) == \E d \in Dirs : sent[s][d] > 0
InMap(s) == \E e \in Emails : counter[e] = s

(* getLink: the counter of the user's email, created if there is none.  The
   user was authenticated earlier and may have been deleted since. *)
OpenConn(e, s) ==
    /\ counter[e] = None
    /\ ~InMap(s) /\ ~Counted(s)
    /\ \A r \in Runs : at[r] # s
    /\ counter' = [counter EXCEPT ![e] = s]
    /\ UNCHANGED <<taskVars, val, uid, pc, left, who, at, ld, slice, sent, claimed>>

(* A connection adds to the storage it was opened with, which may have left
   the map since. *)
Count(s, d) ==
    /\ InMap(s) \/ Counted(s)
    /\ sent[s][d] < MaxSent
    /\ val' = [val EXCEPT ![s][d] = @ + 1]
    /\ sent' = [sent EXCEPT ![s][d] = @ + 1]
    /\ UNCHANGED <<taskVars, counter, uid, pc, left, who, at, ld, slice, claimed>>

-----------------------------------------------------------------------------
(* The user list monitor's writes, under mapLock *)

Reading(r) == pc[r] \in {"range", "loadDown", "zeroUp", "zeroDown"}
Unlocked == \A r \in Runs : ~Reading(r)

DelUsers(us) ==
    /\ Unlocked
    /\ uid' = uid \ us
    /\ counter' = [e \in Emails |-> IF e \in us THEN None ELSE counter[e]]
    /\ UNCHANGED <<taskVars, val, pc, left, who, at, ld, slice, sent, claimed>>

AddUsers(us) ==
    /\ Unlocked
    /\ uid' = uid \cup us
    /\ UNCHANGED <<taskVars, counter, val, pc, left, who, at, ld, slice, sent, claimed>>

-----------------------------------------------------------------------------
(* A run of reportUserTrafficTask *)

Locals == <<left, who, at, ld, slice>>
Go(r, label) == pc' = [pc EXCEPT ![r] = label]

LaunchReport(r) ==
    /\ Launch(r)
    /\ Go(r, "lock")
    /\ slice' = [slice EXCEPT ![r] = NoAmounts]
    /\ UNCHANGED <<counter, val, uid, left, who, at, ld, sent, claimed>>

(* RLock; Range passes the keys in any order. *)
BeginRange(r) ==
    /\ pc[r] = "lock"
    /\ Go(r, "range")
    /\ left' = [left EXCEPT ![r] = Emails]
    /\ UNCHANGED <<taskVars, counter, val, uid, who, at, ld, slice, sent, claimed>>

(* Range passes a key that is not in the map at that moment. *)
PassAbsent(r, e) ==
    /\ pc[r] = "range" /\ e \in left[r] /\ counter[e] = None
    /\ left' = [left EXCEPT ![r] = @ \ {e}]
    /\ UNCHANGED <<taskVars, counter, val, uid, pc, who, at, ld, slice, sent, claimed>>

(* Range reaches a key: its storage, and UpCounter.Load. *)
LoadUp(r, e) ==
    /\ pc[r] = "range" /\ e \in left[r] /\ counter[e] # None
    /\ left' = [left EXCEPT ![r] = @ \ {e}]
    /\ who' = [who EXCEPT ![r] = e]
    /\ at' = [at EXCEPT ![r] = counter[e]]
    /\ ld' = [ld EXCEPT ![r]["up"] = val[counter[e]]["up"]]
    /\ Go(r, "loadDown")
    /\ UNCHANGED <<taskVars, counter, val, uid, slice, sent, claimed>>

(* The callback of Range returns; its locals are gone. *)
EndVisit(r) ==
    /\ Go(r, "range")
    /\ who' = [who EXCEPT ![r] = None]
    /\ at' = [at EXCEPT ![r] = None]
    /\ ld' = [ld EXCEPT ![r] = Zero]

(* DownCounter.Load, and the threshold on the sum of the two. *)
LoadDown(r) ==
    /\ pc[r] = "loadDown"
    /\ LET down == val[at[r]]["down"]
           above == ld[r]["up"] + down > Threshold
       IN \/ /\ above
             /\ ld' = [ld EXCEPT ![r]["down"] = down]
             /\ Go(r, "zeroUp")
             /\ UNCHANGED <<who, at>>
          \/ ~above /\ EndVisit(r)
    /\ UNCHANGED <<taskVars, counter, val, uid, left, slice, sent, claimed>>

(* Mutant: Add(-up) in place of Store(0). *)
ZeroUp_Subtract(r) ==
    /\ pc[r] = "zeroUp"
    /\ val' = [val EXCEPT ![at[r]]["up"] = @ - ld[r]["up"]]
    /\ Go(r, "zeroDown")
    /\ UNCHANGED <<taskVars, counter, uid, left, who, at, ld, slice, sent, claimed>>

ZeroUp(r) ==
    /\ pc[r] = "zeroUp"
    /\ val' = [val EXCEPT ![at[r]]["up"] = 0]
    /\ Go(r, "zeroDown")
    /\ UNCHANGED <<taskVars, counter, uid, left, who, at, ld, slice, sent, claimed>>

(* DownCounter.Store(0); a user uidMap does not know loses its counter, the
   amounts of another are recorded. *)
ZeroDown(r) ==
    /\ pc[r] = "zeroDown"
    /\ val' = [val EXCEPT ![at[r]]["down"] = 0]
    /\ \/ /\ who[r] \notin uid
          /\ counter' = [counter EXCEPT ![who[r]] = None]
          /\ slice' = slice
       \/ /\ who[r] \in uid
          /\ slice' = [slice EXCEPT ![r][at[r]] = [d \in Dirs |-> @[d] + ld[r][d]]]
          /\ counter' = counter
    /\ EndVisit(r)
    /\ UNCHANGED <<taskVars, uid, left, sent, claimed>>

(* Range is over: RUnlock, and the POST if the slice has an entry. *)
EndRange(r) ==
    /\ pc[r] = "range" /\ left[r] = {}
    /\ Go(r, IF slice[r] = NoAmounts THEN "tail" ELSE "post")
    /\ UNCHANGED <<taskVars, counter, val, uid, Locals, sent, claimed>>

Credit(r) == [s \in Storages |-> [d \in Dirs |-> claimed[s][d] + slice[r][s][d]]]

(* Mutant: the POST is made without the run's context. *)
Post_NoContext(r) ==
    /\ pc[r] = "post"
    /\ claimed' \in {Credit(r), claimed}
    /\ slice' = [slice EXCEPT ![r] = NoAmounts]
    /\ Go(r, "tail")
    /\ UNCHANGED <<taskVars, counter, val, uid, left, who, at, ld, sent>>

(* ReportUserTraffic: an expired context refuses the request; otherwise the
   panel takes the amounts or the request is lost.  An error is logged, the
   amounts are dropped and nothing is retried. *)
Post(r) ==
    /\ pc[r] = "post"
    /\ claimed' \in (IF r \in expired THEN {claimed} ELSE {Credit(r), claimed})
    /\ slice' = [slice EXCEPT ![r] = NoAmounts]
    /\ Go(r, "tail")
    /\ UNCHANGED <<taskVars, counter, val, uid, left, who, at, ld, sent>>

(* Mutant: an error of the last report becomes the task's. *)
ReturnReport_WithError(r) ==
    /\ pc[r] = "tail"
    /\ \E result \in {"ok", "failed"} : RunReturns(r, result)
    /\ Go(r, "none")
    /\ UNCHANGED <<counter, val, uid, Locals, sent, claimed>>

(* The online-user and status reports, which touch nothing here; every path
   of the task returns nil. *)
ReturnReport(r) ==
    /\ pc[r] = "tail"
    /\ RunReturns(r, "ok")
    /\ Go(r, "none")
    /\ UNCHANGED <<counter, val, uid, Locals, sent, claimed>>

-----------------------------------------------------------------------------
RunStep(r) ==
    \/ BeginRange(r)
    \/ \E e \in Emails : PassAbsent(r, e) \/ LoadUp(r, e)
    \/ LoadDown(r) \/ ZeroUp(r) \/ ZeroDown(r) \/ EndRange(r)
    \/ Post(r) \/ ReturnReport(r)

TaskStep == Start \/ LoopStep \/ Close \/ TakeReload

Next ==
    \/ TaskStep /\ UNCHANGED reportVars
    \/ \E r \in Runs : LaunchReport(r) \/ RunStep(r)
    \/ \E e \in Emails, s \in Storages : OpenConn(e, s)
    \/ \E s \in Storages, d \in Dirs : Count(s, d)
    \/ \E us \in SUBSET Emails : DelUsers(us) \/ AddUsers(us)

Spec == Init /\ [][Next]_vars

(* The scheduler runs the loop and the runs; each HTTP call of a run ends
   (the client's timeout is 30 s by default), so a run that is scheduled
   ends.  The task is started.  Deadlines need not pass. *)
Fairness ==
    /\ WF_vars((Start \/ LoopTop \/ TimerFires \/ NoticeDone \/ NoticeTimeout)
               /\ UNCHANGED reportVars)
    /\ WF_vars(\E r \in Runs : LaunchReport(r))
    /\ \A r \in Runs : WF_vars(RunStep(r))

FairSpec == Spec /\ Fairness

-----------------------------------------------------------------------------
(* The panel is never told of more traffic of a connection than the
   connection counted, although a timed-out run and the next one may read
   the same counters before either resets them, loads and resets are not
   atomic, and connections count meanwhile. *)
NoOverReport == \A s \in Storages, d \in Dirs : claimed[s][d] <= sent[s][d]

(* As long as the task is not closed, traffic above the threshold of a user
   in the map is eventually taken out of its counter, whatever fails. *)
CounterDrains ==
    \A e \in Emails, s \in Storages :
        (counter[e] = s /\ val[s]["up"] + val[s]["down"] > Threshold)
            ~> (counter[e] # s \/ val[s]["up"] + val[s]["down"] <= Threshold \/ stopped)
=============================================================================
