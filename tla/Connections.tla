---------------------------- MODULE Connections ----------------------------
(***************************************************************************)
(* The connections of one user, from the dispatcher's CheckLimit and       *)
(* getLink (limiter/limiter.go, core/app/dispatcher/default.go) to their   *)
(* end, beside the two tasks that touch what they share: a change of the   *)
(* user list (DelUsers, AddUsers, UpdateUser) and the report of the online *)
(* addresses (GetOnlineDevice).  All of that state is keyed by the user.   *)
(*                                                                         *)
(* The maps are sync.Maps: one call on one of them is atomic, two are not. *)
(* A bucket or a link manager is named by the connection that made it.     *)
(*                                                                         *)
(* The device limit never rejects, the alive list being always empty       *)
(* (GetUserAlive), so OldUserOnline, which only decides whether it is      *)
(* looked at, is left out.                                                 *)
(***************************************************************************)
EXTENDS Naturals

CONSTANTS
    Conns,       \* the connections the user makes (a bound)
    Tcp,         \* those whose source is TCP: only they register an address
    MayLink,     \* those that may come by DispatchLink
    Addresses,
    Address,     \* the source of every connection
    Speeds,      \* the values of SpeedLimit
    Unlimited,   \* the one that sets no limit, 0
    MaxChanges,  \* changes of the user in the panel's list (a bound)
    None

Buckets == [maker : Conns, rate : Speeds]

ASSUME ConnsAssumption ==
    /\ Tcp \subseteq Conns /\ MayLink \subseteq Conns
    /\ Address \in [Conns -> Addresses]
    /\ None \notin Conns \cup Buckets
    /\ \A set \in SUBSET Addresses : set # None
ASSUME SpeedsAssumption == Unlimited \in Speeds /\ None \notin Speeds
ASSUME MaxChangesAssumption == MaxChanges \in Nat

VARIABLES
    (* shared *)
    inbound,   \* is the user one of the inbound's
    limit,     \* UserLimitInfo
    online,    \* UserOnlineIP: the user's map of addresses, or None
    holders,   \* the connections that are about to add to this very map
    bucket,    \* SpeedLimiter
    manager,   \* LinkManagers
    links,     \* the links of every manager
    (* locals of each connection *)
    pc,
    byLink,    \* those that came by DispatchLink, not Dispatch
    read,      \* the speed it found in UserLimitInfo
    mine,      \* its bucket
    joined,    \* its link manager
    (* userListMonitor *)
    stage,
    next,      \* the user's new speed, None if it is deleted
    changes,
    victim,    \* the manager CloseAll works on
    pending,   \* links it has still to close
    (* reportUserTrafficTask *)
    reporting,
    report,    \* the connections whose addresses it has collected
    crashed,   \* a link map was written while CloseAll ranged over it
    (* history *)
    mixed,     \* a connection was set up while a change was made
    late,      \* connections being set up when CloseAll began
    twin,      \* those that looked for a manager while another made one
    unsure,    \* those set up while the addresses were collected or a change
               \* was made
    seen,      \* those whose address the panel was sent since they registered
    lost       \* those whose address was in a report that failed

access == <<inbound, limit>>
registry == <<online, holders>>
linkVars == <<manager, links>>
locals == <<byLink, read, mine, joined>>
sync == <<stage, next, changes, victim, pending>>
reportVars == <<reporting, report>>
history == <<mixed, late, twin, unsure, seen, lost>>
vars == <<access, registry, bucket, linkVars, pc, locals, sync, reportVars, crashed, history>>

SetUp == {"check", "online", "address", "bucket", "store", "link", "keep", "add"}

TypeOK ==
    /\ inbound \in BOOLEAN
    /\ limit \in Speeds \cup {None} /\ next \in Speeds \cup {None}
    /\ online \in (SUBSET Addresses) \cup {None} /\ holders \in SUBSET Conns
    /\ bucket \in Buckets \cup {None}
    /\ manager \in Conns \cup {None} /\ links \in [Conns -> SUBSET Conns]
    /\ pc \in [Conns -> {"idle", "rejected", "open", "closed"} \cup SetUp]
    /\ byLink \in SUBSET MayLink
    /\ read \in [Conns -> Speeds \cup {None}]
    /\ joined \in [Conns -> Conns \cup {None}]
    /\ mine \in [Conns -> Buckets \cup {None}]
    /\ stage \in {"idle", "load", "closing", "closed", "limit", "online", "bucket", "store"}
    /\ changes \in 0..MaxChanges
    /\ victim \in Conns \cup {None} /\ pending \in SUBSET Conns
    /\ reporting \in {"idle", "reset", "post"} /\ report \in SUBSET Conns
    /\ crashed \in BOOLEAN
    /\ mixed \in BOOLEAN /\ late \in SUBSET Conns /\ twin \in SUBSET Conns
    /\ unsure \in SUBSET Conns /\ seen \in SUBSET Conns /\ lost \in SUBSET Conns

(* The node has started with the user (AddLimiter, AddUsers). *)
Init ==
    /\ inbound = TRUE
    /\ limit \in Speeds
    /\ online = None /\ holders = {}
    /\ bucket = None
    /\ manager = None /\ links = [c \in Conns |-> {}]
    /\ pc = [c \in Conns |-> "idle"]
    /\ byLink = {}
    /\ read = [c \in Conns |-> None] /\ mine = [c \in Conns |-> None]
    /\ joined = [c \in Conns |-> None]
    /\ stage = "idle" /\ next = None /\ changes = 0 /\ victim = None /\ pending = {}
    /\ reporting = "idle" /\ report = {} /\ crashed = FALSE
    /\ mixed = FALSE /\ late = {} /\ twin = {} /\ unsure = {} /\ seen = {} /\ lost = {}

Go(c, label) == pc' = [pc EXCEPT ![c] = label]

-----------------------------------------------------------------------------
(* CheckLimit *)

(* The inbound knows the user and calls the dispatcher. *)
Authenticate(c) ==
    /\ pc[c] = "idle" /\ inbound
    /\ Go(c, "check")
    /\ byLink' \in {byLink, byLink \cup ({c} \cap MayLink)}
    /\ mixed' = (mixed \/ stage # "idle")
    /\ unsure' = IF stage = "idle" THEN unsure ELSE unsure \cup {c}
    /\ UNCHANGED <<access, registry, bucket, linkVars, read, mine, joined, sync, reportVars, crashed,
                   late, twin, seen, lost>>

Reject(c) ==
    /\ pc[c] = "check" /\ limit = None
    /\ Go(c, "rejected")
    /\ byLink' = byLink \ {c}
    /\ late' = late \ {c} /\ unsure' = unsure \ {c}
    /\ UNCHANGED <<access, registry, bucket, linkVars, read, mine, joined, sync, reportVars, crashed,
                   mixed, twin, seen, lost>>

ReadLimit(c) ==
    /\ pc[c] = "check" /\ limit # None
    /\ read' = [read EXCEPT ![c] = limit]
    /\ Go(c, IF c \in Tcp THEN "online" ELSE "bucket")
    /\ UNCHANGED <<access, registry, bucket, linkVars, byLink, mine, joined, sync, reportVars,
                   crashed, history>>

MarkUnsure(c) == unsure' = IF reporting = "reset" THEN unsure \cup {c} ELSE unsure

(* UserOnlineIP.LoadOrStore: the first address of the user makes the map, ... *)
RegisterFirst(c) ==
    /\ pc[c] = "online" /\ online = None
    /\ online' = {Address[c]}
    /\ Go(c, "bucket")
    /\ MarkUnsure(c)
    /\ UNCHANGED <<access, holders, bucket, linkVars, locals, sync, reportVars, crashed,
                   mixed, late, twin, seen, lost>>

(* ... the others find it and then add theirs, to a map that may have been
   dropped by then. *)
FindAddresses(c) ==
    /\ pc[c] = "online" /\ online # None
    /\ holders' = holders \cup {c}
    /\ Go(c, "address")
    /\ MarkUnsure(c)
    /\ UNCHANGED <<access, online, bucket, linkVars, locals, sync, reportVars, crashed,
                   mixed, late, twin, seen, lost>>

AddAddress(c) ==
    /\ pc[c] = "address"
    /\ online' = IF c \in holders THEN online \cup {Address[c]} ELSE online
    /\ holders' = holders \ {c}
    /\ Go(c, "bucket")
    /\ MarkUnsure(c)
    /\ UNCHANGED <<access, bucket, linkVars, locals, sync, reportVars, crashed,
                   mixed, late, twin, seen, lost>>

(* A user without a limit has no bucket. *)
NoBucket(c) ==
    /\ pc[c] = "bucket" /\ read[c] = Unlimited
    /\ read' = [read EXCEPT ![c] = None]
    /\ Go(c, "link")
    /\ UNCHANGED <<access, registry, bucket, linkVars, byLink, mine, joined, sync, reportVars, crashed,
                   history>>

(* Mutant: the limit is read a second time, and may be gone. *)
TakeBucket_Rereads(c) ==
    /\ pc[c] = "bucket" /\ read[c] # Unlimited
    /\ LET own == [maker |-> c, rate |-> limit] IN
       IF bucket = None
       THEN bucket' = own /\ mine' = [mine EXCEPT ![c] = own] /\ Go(c, "store")
       ELSE bucket' = bucket /\ mine' = [mine EXCEPT ![c] = bucket] /\ Go(c, "link")
    /\ read' = [read EXCEPT ![c] = None]
    /\ UNCHANGED <<access, registry, linkVars, byLink, joined, sync, reportVars, crashed,
                   history>>

(* SpeedLimiter.LoadOrStore: an own bucket, or the one there is. *)
TakeBucket(c) ==
    /\ pc[c] = "bucket" /\ read[c] # Unlimited
    /\ LET own == [maker |-> c, rate |-> read[c]] IN
       IF bucket = None
       THEN bucket' = own /\ mine' = [mine EXCEPT ![c] = own] /\ Go(c, "store")
       ELSE bucket' = bucket /\ mine' = [mine EXCEPT ![c] = bucket] /\ Go(c, "link")
    /\ read' = [read EXCEPT ![c] = None]
    /\ UNCHANGED <<access, registry, linkVars, byLink, joined, sync, reportVars, crashed,
                   history>>

(* The own bucket is stored once more. *)
StoreBucket(c) ==
    /\ pc[c] = "store"
    /\ bucket' = mine[c]
    /\ Go(c, "link")
    /\ UNCHANGED <<access, registry, linkVars, locals, sync, reportVars, crashed, history>>

-----------------------------------------------------------------------------
(* getLink and DispatchLink *)

Making == {c \in Conns : pc[c] = "keep"}

FindManager(c) ==
    /\ pc[c] = "link" /\ manager # None
    /\ joined' = [joined EXCEPT ![c] = manager]
    /\ Go(c, "add")
    /\ twin' = IF Making = {} THEN twin ELSE twin \cup {c}
    /\ UNCHANGED <<access, registry, bucket, linkVars, byLink, read, mine, sync, reportVars,
                   crashed, mixed, late, unsure, seen, lost>>

(* No manager is found: an own one is made, and then stored whatever there is
   by then. *)
MakeManager(c) ==
    /\ pc[c] = "link" /\ manager = None
    /\ joined' = [joined EXCEPT ![c] = c]
    /\ Go(c, "keep")
    /\ twin' = IF Making = {} THEN twin ELSE twin \cup Making \cup {c}
    /\ UNCHANGED <<access, registry, bucket, linkVars, byLink, read, mine, sync, reportVars,
                   crashed, mixed, late, unsure, seen, lost>>

KeepManager(c) ==
    /\ pc[c] = "keep"
    /\ manager' = c
    /\ Go(c, "add")
    /\ UNCHANGED <<access, registry, bucket, links, locals, sync, reportVars, crashed, history>>

(* DispatchLink makes the ManagedWriter but does not add it. *)
AddLink(c) ==
    /\ pc[c] = "add"
    /\ links' = IF c \in byLink THEN links ELSE [links EXCEPT ![joined[c]] = @ \cup {c}]
    /\ Go(c, "open")
    /\ UNCHANGED <<access, registry, bucket, manager, locals, sync, reportVars, crashed, history>>

(* ManagedWriter.Close and RemoveWriter: the connection has ended. *)
Close(c) ==
    /\ pc' = [pc EXCEPT ![c] = "closed"]
    /\ links' = [links EXCEPT ![joined[c]] = @ \ {c}]
    /\ pending' = pending \ {c}
    /\ byLink' = byLink \ {c}
    /\ mine' = [mine EXCEPT ![c] = None] /\ joined' = [joined EXCEPT ![c] = None]
    /\ late' = late \ {c} /\ twin' = twin \ {c}
    /\ unsure' = unsure \ {c} /\ seen' = seen \ {c} /\ lost' = lost \ {c}
    /\ report' = report \ {c}
    /\ UNCHANGED <<access, registry, bucket, manager, read, stage, next, changes, victim,
                   reporting, crashed, mixed>>

Ends(c) == pc[c] = "open" /\ Close(c)

(* CloseAll ranges over the links without the lock that AddLink and
   RemoveWriter take: the runtime may notice, and ends the process. *)
LinksRace(c) ==
    /\ stage = "closing" /\ joined[c] = victim
    /\ pc[c] = "open" \/ (pc[c] = "add" /\ c \notin byLink)
    /\ crashed' = TRUE
    /\ UNCHANGED <<access, registry, bucket, linkVars, pc, locals, sync, reportVars, history>>

-----------------------------------------------------------------------------
(* userListMonitor: a user whose limit has changed is deleted and added. *)

(* DelUsers: the inbound forgets the user, ...  (It fails on a user that the
   inbound does not have.) *)
RemoveUser(speed) ==
    /\ stage = "idle" /\ inbound /\ limit # None /\ speed # limit
    /\ changes < MaxChanges
    /\ changes' = changes + 1
    /\ next' = speed
    /\ inbound' = FALSE
    /\ stage' = "load"
    /\ UNCHANGED <<limit, registry, bucket, linkVars, pc, locals, victim, pending, reportVars,
                   crashed, history>>

MarkLate ==
    LET caught == {c \in Conns : pc[c] \in SetUp} IN
    /\ mixed' = (mixed \/ caught # {})
    /\ late' = late \cup caught
    /\ unsure' = unsure \cup caught /\ seen' = seen \ caught /\ lost' = lost \ caught
    /\ report' = report \ caught

(* Mutant: the manager is dropped, its links stay open. *)
LoadManager_ClosesNone ==
    /\ stage = "load"
    /\ MarkLate
    /\ victim' = manager
    /\ pending' = {}
    /\ stage' = IF manager = None THEN "closed" ELSE "closing"
    /\ UNCHANGED <<access, registry, bucket, linkVars, pc, locals, next, changes, reporting,
                   crashed, twin>>

(* ... the manager is looked up, ... *)
LoadManager ==
    /\ stage = "load"
    /\ MarkLate
    /\ victim' = manager
    /\ IF manager = None
       THEN stage' = "closed" /\ pending' = {}
       ELSE stage' = "closing" /\ pending' = links[manager]
    /\ UNCHANGED <<access, registry, bucket, linkVars, pc, locals, next, changes, reporting,
                   crashed, twin>>

(* ... its links are closed one by one: a link added meanwhile may be met or
   not, ... *)
CloseLink(c) ==
    /\ stage = "closing"
    /\ c \in links[victim]
    /\ Close(c)

(* ... and the manager is dropped. *)
DropManager ==
    /\ stage = "closing" /\ pending = {}
    /\ manager' = None
    /\ victim' = None
    /\ stage' = "closed"
    /\ UNCHANGED <<access, registry, bucket, links, pc, locals, next, changes, pending,
                   reportVars, crashed, history>>

(* AddUsers comes before UpdateUser. *)
AdmitAgain ==
    /\ stage = "closed"
    /\ inbound' = (next # None)
    /\ stage' = "limit"
    /\ UNCHANGED <<limit, registry, bucket, linkVars, pc, locals, next, changes, victim,
                   pending, reportVars, crashed, history>>

(* DelUsers fails on a user after this one, or AddUsers on one before or after
   it: UpdateUser is skipped, and all that is kept of the user stays. *)
AdmitFails ==
    /\ stage = "closed"
    /\ inbound' \in {FALSE, next # None}
    /\ next' = None
    /\ stage' = "idle"
    /\ UNCHANGED <<limit, registry, bucket, linkVars, pc, locals, changes, victim,
                   pending, reportVars, crashed, history>>

(* AddUsers fails on a user that the inbound has. *)
AdmitNew(speed) ==
    /\ stage = "idle" /\ ~inbound /\ limit = None /\ speed # None
    /\ changes < MaxChanges
    /\ changes' = changes + 1
    /\ next' = speed
    /\ inbound' = TRUE
    /\ stage' = "store"
    /\ UNCHANGED <<limit, registry, bucket, linkVars, pc, locals, victim, pending, reportVars,
                   crashed, history>>

(* AddUsers fails on a user after this one: the inbound has it, without a limit. *)
AdmitNewFails ==
    /\ stage = "idle" /\ ~inbound /\ limit = None
    /\ changes < MaxChanges
    /\ changes' = changes + 1
    /\ inbound' = TRUE
    /\ UNCHANGED <<limit, registry, bucket, linkVars, pc, locals, stage, next, victim, pending,
                   reportVars, crashed, history>>

(* UpdateUser: what is kept of a deleted user is dropped, a map at a time. *)
ForgetLimit ==
    /\ stage = "limit"
    /\ limit' = None
    /\ stage' = "online"
    /\ UNCHANGED <<inbound, registry, bucket, linkVars, pc, locals, next, changes, victim,
                   pending, reportVars, crashed, history>>

ForgetOnline ==
    /\ stage = "online"
    /\ online' = None /\ holders' = {}
    /\ stage' = "bucket"
    /\ UNCHANGED <<access, bucket, linkVars, pc, locals, next, changes, victim, pending,
                   reportVars, crashed, history>>

(* Mutant: the bucket of a user that is deleted is kept. *)
ForgetBucket_Keeps ==
    /\ stage = "bucket"
    /\ stage' = IF next = None THEN "idle" ELSE "store"
    /\ UNCHANGED <<access, registry, bucket, linkVars, pc, locals, next, changes, victim,
                   pending, reportVars, crashed, history>>

ForgetBucket ==
    /\ stage = "bucket"
    /\ bucket' = None
    /\ stage' = IF next = None THEN "idle" ELSE "store"
    /\ UNCHANGED <<access, registry, linkVars, pc, locals, next, changes, victim, pending,
                   reportVars, crashed, history>>

StoreLimit ==
    /\ stage = "store"
    /\ limit' = next
    /\ next' = None
    /\ stage' = "idle"
    /\ UNCHANGED <<inbound, registry, bucket, linkVars, pc, locals, changes, victim, pending,
                   reportVars, crashed, history>>

-----------------------------------------------------------------------------
(* GetOnlineDevice and ReportNodeOnlineUsers *)

Registered == {c \in Tcp : pc[c] \in {"bucket", "store", "link", "keep", "add", "open"}}

(* Mutant: the range ends after the first address. *)
RangeOnline_One ==
    /\ reporting = "idle" /\ online # None
    /\ reporting' = "reset"
    /\ \E a \in online : report' = {c \in Registered \ unsure : Address[c] = a}
    /\ unsure' = unsure \cup {c \in Conns : pc[c] = "address"}
    /\ UNCHANGED <<access, registry, bucket, linkVars, pc, locals, sync, crashed,
                   mixed, late, twin, seen, lost>>

(* It ranges over the addresses of the user ... *)
RangeOnline ==
    /\ reporting = "idle" /\ online # None
    /\ reporting' = "reset"
    /\ report' = {c \in Registered \ unsure : Address[c] \in online}
    /\ unsure' = unsure \cup {c \in Conns : pc[c] = "address"}
    /\ UNCHANGED <<access, registry, bucket, linkVars, pc, locals, sync, crashed,
                   mixed, late, twin, seen, lost>>

(* ... and resets them, ... *)
ResetOnline ==
    /\ reporting = "reset"
    /\ reporting' = "post"
    /\ online' = None /\ holders' = {}
    /\ UNCHANGED <<access, bucket, linkVars, pc, locals, sync, report, crashed, history>>

(* ... what it has collected is sent, ... *)
PostOnline ==
    /\ reporting = "post"
    /\ reporting' = "idle"
    /\ report' = {}
    /\ seen' = seen \cup report
    /\ UNCHANGED <<access, registry, bucket, linkVars, pc, locals, sync, crashed,
                   mixed, late, twin, unsure, lost>>

(* ... or is gone: the panel cannot be reached or the run's context is over,
   which is only logged. *)
PostOnlineFails ==
    /\ reporting = "post"
    /\ reporting' = "idle"
    /\ report' = {}
    /\ lost' = lost \cup report
    /\ UNCHANGED <<access, registry, bucket, linkVars, pc, locals, sync, crashed,
                   mixed, late, twin, unsure, seen>>

-----------------------------------------------------------------------------
Check(c) ==
    \/ Authenticate(c) \/ Reject(c) \/ ReadLimit(c)
    \/ RegisterFirst(c) \/ FindAddresses(c) \/ AddAddress(c)
    \/ NoBucket(c) \/ TakeBucket(c) \/ StoreBucket(c)
Link(c) ==
    FindManager(c) \/ MakeManager(c) \/ KeepManager(c) \/ AddLink(c) \/ Ends(c) \/ LinksRace(c)
Delete == LoadManager \/ DropManager \/ \E c \in Conns : CloseLink(c)
Update ==
    \/ AdmitAgain \/ AdmitFails \/ AdmitNewFails
    \/ ForgetLimit \/ ForgetOnline \/ ForgetBucket \/ StoreLimit
Report == RangeOnline \/ ResetOnline \/ PostOnline \/ PostOnlineFails

Next ==
    /\ ~crashed
    /\ \/ \E c \in Conns : Check(c) \/ Link(c)
       \/ \E speed \in Speeds \cup {None} : RemoveUser(speed) \/ AdmitNew(speed)
       \/ Delete \/ Update \/ Report

Spec == Init /\ [][Next]_vars

-----------------------------------------------------------------------------
(* A deleted user is cut off.  Once DelUsers and UpdateUser are over, no
   connection of the user is open but one the deletion cannot reach: it came
   by DispatchLink, it was being set up when CloseAll began, or it looked for
   the user's link manager while another first connection was making one. *)
DeletedUsersAreCutOff ==
    stage = "idle" /\ ~inbound =>
        \A c \in Conns : pc[c] = "open" => c \in late \cup twin \cup byLink

(* The connections of a user share one bucket, and it has the user's speed: a
   change of the limit leaves neither an old connection nor an old bucket, as
   long as none was set up while the change was made. *)
SpeedIsShared ==
    stage = "idle" /\ ~mixed =>
        \A c \in Conns \ (twin \cup byLink) :
            pc[c] = "open" =>
                IF limit = Unlimited THEN mine[c] = None
                ELSE mine[c] # None /\ mine[c] = bucket /\ bucket.rate = limit

(* No address is dropped on the way to the panel but by a report that fails.
   What an open connection registered is in the user's map, in the report being
   sent, or was in one that was sent or failed since, unless it registered while
   the addresses were collected or a change of the user was being made. *)
OnlineIsReported ==
    \A c \in Tcp \ (twin \cup unsure \cup byLink) :
        pc[c] = "open" =>
            \/ online # None /\ Address[c] \in online
            \/ c \in report \cup seen \cup lost
=============================================================================
