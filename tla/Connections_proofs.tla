------------------------- MODULE Connections_proofs -------------------------
(***************************************************************************)
(* Proofs about Connections, for any connections, addresses and speeds and *)
(* any number of changes.  Four invariants, each proved with those before  *)
(* it: the types; that what is open is where DelUsers finds it; that       *)
(* buckets follow the limit; that addresses reach a report.                *)
(***************************************************************************)
EXTENDS Connections, TLAPS

-----------------------------------------------------------------------------
(* Types *)

HoldersHaveMap == holders # {} => online # None

ReadIsSpeed ==
    \A c \in Conns : pc[c] \in {"online", "address", "bucket"} => read[c] # None

TypeInv == TypeOK /\ HoldersHaveMap /\ ReadIsSpeed

(* Every step keeps the types.  An address is only added to a map that is
   there, and a bucket only made for a limit that was read. *)
LEMMA TypeStep == TypeInv /\ [Next]_vars => TypeInv'
  <1> SUFFICES ASSUME TypeInv, [Next]_vars PROVE TypeInv'
      OBVIOUS
  <1> USE ConnsAssumption, SpeedsAssumption, MaxChangesAssumption
      DEF TypeInv, HoldersHaveMap, ReadIsSpeed, TypeOK, SetUp, access, registry, linkVars, locals,
          sync, reportVars, history
  <1>1. ASSUME NEW c \in Conns, Authenticate(c)
         PROVE  TypeInv'
    <2>1. /\ inbound' \in BOOLEAN /\ mixed' \in BOOLEAN
          /\ reporting' \in {"idle", "reset", "post"} /\ crashed' \in BOOLEAN
         BY <1>1 DEF Authenticate, Go
    <2>2. byLink' \in SUBSET MayLink
         BY <1>1 DEF Authenticate, Go
    <2>3. unsure' \in SUBSET Conns /\ report' \in SUBSET Conns
         BY <1>1 DEF Authenticate, Go
    <2>4. ReadIsSpeed'
         BY <1>1 DEF Authenticate, Go
    <2> QED
        BY <1>1, <2>1, <2>2, <2>3, <2>4 DEF Authenticate, Go
  <1>2. ASSUME NEW c \in Conns, Reject(c)
         PROVE  TypeInv'
         BY <1>2 DEF Reject, Go
  <1>3. ASSUME NEW c \in Conns, ReadLimit(c)
         PROVE  TypeInv'
         BY <1>3 DEF ReadLimit, Go
  <1>4. ASSUME NEW c \in Conns, RegisterFirst(c)
         PROVE  TypeInv'
    <2>1. Address[c] \in Addresses
         BY <1>4 DEF RegisterFirst, Go, MarkUnsure
    <2>2. online' \in (SUBSET Addresses) \cup {None} /\ holders' \in SUBSET Conns
         BY <1>4, <2>1 DEF RegisterFirst, Go, MarkUnsure
    <2>3. unsure' \in SUBSET Conns /\ report' \in SUBSET Conns
         BY <1>4, <2>1 DEF RegisterFirst, Go, MarkUnsure
    <2>4. HoldersHaveMap'
         BY <1>4, <2>1 DEF RegisterFirst, Go, MarkUnsure
    <2>5. ReadIsSpeed'
         BY <1>4, <2>1 DEF RegisterFirst, Go, MarkUnsure
    <2> QED
        BY <1>4, <2>1, <2>2, <2>3, <2>4, <2>5 DEF RegisterFirst, Go, MarkUnsure
  <1>5. ASSUME NEW c \in Conns, FindAddresses(c)
         PROVE  TypeInv'
    <2>1. online' \in (SUBSET Addresses) \cup {None} /\ holders' \in SUBSET Conns
         BY <1>5 DEF FindAddresses, Go, MarkUnsure
    <2>2. unsure' \in SUBSET Conns /\ report' \in SUBSET Conns
         BY <1>5 DEF FindAddresses, Go, MarkUnsure
    <2>3. HoldersHaveMap'
         BY <1>5 DEF FindAddresses, Go, MarkUnsure
    <2>4. ReadIsSpeed'
         BY <1>5 DEF FindAddresses, Go, MarkUnsure
    <2> QED
        BY <1>5, <2>1, <2>2, <2>3, <2>4 DEF FindAddresses, Go, MarkUnsure
  <1>6. ASSUME NEW c \in Conns, AddAddress(c)
         PROVE  TypeInv'
    <2>1. Address[c] \in Addresses
         BY <1>6 DEF AddAddress, Go, MarkUnsure
    <2>2. c \in holders => online \in SUBSET Addresses
         BY <1>6 DEF AddAddress, Go, MarkUnsure
    <2>3. online' \in (SUBSET Addresses) \cup {None} /\ holders' \in SUBSET Conns
         BY <1>6, <2>1, <2>2 DEF AddAddress, Go, MarkUnsure
    <2>4. unsure' \in SUBSET Conns /\ report' \in SUBSET Conns
         BY <1>6, <2>1, <2>2 DEF AddAddress, Go, MarkUnsure
    <2>5. HoldersHaveMap'
         BY <1>6, <2>1, <2>2 DEF AddAddress, Go, MarkUnsure
    <2>6. ReadIsSpeed'
         BY <1>6, <2>1, <2>2 DEF AddAddress, Go, MarkUnsure
    <2> QED
        BY <1>6, <2>1, <2>2, <2>3, <2>4, <2>5, <2>6 DEF AddAddress, Go, MarkUnsure
  <1>7. ASSUME NEW c \in Conns, NoBucket(c)
         PROVE  TypeInv'
         BY <1>7 DEF NoBucket, Go
  <1>8. ASSUME NEW c \in Conns, TakeBucket(c)
         PROVE  TypeInv'
    <2>1. [maker |-> c, rate |-> read[c]] \in Buckets
         BY <1>8 DEF TakeBucket, Buckets
    <2>2. bucket' \in Buckets \cup {None} /\ mine' \in [Conns -> Buckets \cup {None}]
         BY <1>8, <2>1 DEF TakeBucket, Go
    <2>3. read' \in [Conns -> Speeds \cup {None}]
         BY <1>8, <2>1 DEF TakeBucket, Go
    <2>4. ReadIsSpeed'
         BY <1>8, <2>1 DEF TakeBucket, Go
    <2> QED
        BY <1>8, <2>1, <2>2, <2>3, <2>4 DEF TakeBucket, Go
  <1>9. ASSUME NEW c \in Conns, StoreBucket(c)
         PROVE  TypeInv'
         BY <1>9 DEF StoreBucket, Go
  <1>10. ASSUME NEW c \in Conns, FindManager(c)
         PROVE  TypeInv'
         BY <1>10 DEF FindManager, Go, Making
  <1>11. ASSUME NEW c \in Conns, MakeManager(c)
         PROVE  TypeInv'
         BY <1>11 DEF MakeManager, Go, Making
  <1>12. ASSUME NEW c \in Conns, KeepManager(c)
         PROVE  TypeInv'
         BY <1>12 DEF KeepManager, Go
  <1>13. ASSUME NEW c \in Conns, AddLink(c)
         PROVE  TypeInv'
    <2>1. links' \in [Conns -> SUBSET Conns]
         BY <1>13 DEF AddLink, Go
    <2>2. pc' \in [Conns -> {"idle", "rejected", "open", "closed"} \cup SetUp]
         BY <1>13 DEF AddLink, Go
    <2>3. ReadIsSpeed'
         BY <1>13 DEF AddLink, Go
    <2> QED
        BY <1>13, <2>1, <2>2, <2>3 DEF AddLink, Go
  <1>14. ASSUME NEW c \in Conns, Ends(c)
         PROVE  TypeInv'
    <2>1. links' \in [Conns -> SUBSET Conns]
         BY <1>14 DEF Ends, Close
    <2>2. pc' \in [Conns -> {"idle", "rejected", "open", "closed"} \cup SetUp]
         BY <1>14 DEF Ends, Close
    <2>3. late' \in SUBSET Conns /\ twin' \in SUBSET Conns
         BY <1>14 DEF Ends, Close
    <2>4. unsure' \in SUBSET Conns /\ report' \in SUBSET Conns
         BY <1>14 DEF Ends, Close
    <2>5. ReadIsSpeed'
         BY <1>14 DEF Ends, Close
    <2> QED
        BY <1>14, <2>1, <2>2, <2>3, <2>4, <2>5 DEF Ends, Close
  <1>15. ASSUME NEW c \in Conns, LinksRace(c)
         PROVE  TypeInv'
         BY <1>15 DEF LinksRace
  <1>16. ASSUME NEW c \in Conns, CloseLink(c)
         PROVE  TypeInv'
    <2>1. links' \in [Conns -> SUBSET Conns]
         BY <1>16 DEF CloseLink, Close
    <2>2. pc' \in [Conns -> {"idle", "rejected", "open", "closed"} \cup SetUp]
         BY <1>16 DEF CloseLink, Close
    <2>3. late' \in SUBSET Conns /\ twin' \in SUBSET Conns
         BY <1>16 DEF CloseLink, Close
    <2>4. unsure' \in SUBSET Conns /\ report' \in SUBSET Conns
         BY <1>16 DEF CloseLink, Close
    <2>5. ReadIsSpeed'
         BY <1>16 DEF CloseLink, Close
    <2> QED
        BY <1>16, <2>1, <2>2, <2>3, <2>4, <2>5 DEF CloseLink, Close
  <1>17. ASSUME NEW speed \in Speeds \cup {None}, RemoveUser(speed)
         PROVE  TypeInv'
    <2>1. /\ inbound' \in BOOLEAN /\ mixed' \in BOOLEAN
          /\ reporting' \in {"idle", "reset", "post"} /\ crashed' \in BOOLEAN
         BY <1>17 DEF RemoveUser
    <2>2. stage' \in {"idle", "load", "closing", "closed", "limit", "online", "bucket", "store"}
         BY <1>17 DEF RemoveUser
    <2>3. changes' \in 0..MaxChanges
         BY <1>17 DEF RemoveUser
    <2>4. ReadIsSpeed'
         BY <1>17 DEF RemoveUser
    <2> QED
        BY <1>17, <2>1, <2>2, <2>3, <2>4 DEF RemoveUser
  <1>18. ASSUME NEW speed \in Speeds \cup {None}, AdmitNew(speed)
         PROVE  TypeInv'
         BY <1>18 DEF AdmitNew
  <1>19. CASE LoadManager
         BY <1>19 DEF LoadManager, MarkLate
  <1>20. CASE DropManager
         BY <1>20 DEF DropManager
  <1>21. CASE AdmitAgain
         BY <1>21 DEF AdmitAgain
  <1>22. CASE ForgetLimit
         BY <1>22 DEF ForgetLimit
  <1>23. CASE ForgetOnline
         BY <1>23 DEF ForgetOnline
  <1>24. CASE ForgetBucket
         BY <1>24 DEF ForgetBucket
  <1>25. CASE StoreLimit
         BY <1>25 DEF StoreLimit
  <1>26. CASE RangeOnline
    <2>1. /\ inbound' \in BOOLEAN /\ mixed' \in BOOLEAN
          /\ reporting' \in {"idle", "reset", "post"} /\ crashed' \in BOOLEAN
         BY <1>26 DEF RangeOnline, Registered
    <2>2. unsure' \in SUBSET Conns /\ report' \in SUBSET Conns
         BY <1>26 DEF RangeOnline, Registered
    <2> QED
        BY <1>26, <2>1, <2>2 DEF RangeOnline, Registered
  <1>27. CASE ResetOnline
    <2>1. /\ inbound' \in BOOLEAN /\ mixed' \in BOOLEAN
          /\ reporting' \in {"idle", "reset", "post"} /\ crashed' \in BOOLEAN
         BY <1>27 DEF ResetOnline
    <2>2. online' \in (SUBSET Addresses) \cup {None} /\ holders' \in SUBSET Conns
         BY <1>27 DEF ResetOnline
    <2>3. HoldersHaveMap'
         BY <1>27 DEF ResetOnline
    <2> QED
        BY <1>27, <2>1, <2>2, <2>3 DEF ResetOnline
  <1>29. CASE AdmitFails
    <2>1. inbound' \in BOOLEAN
          BY <1>29 DEF AdmitFails
    <2>2. stage' = "idle" /\ next' = None
          BY <1>29 DEF AdmitFails
    <2> QED
        BY <1>29, <2>1, <2>2 DEF AdmitFails
  <1>30. CASE AdmitNewFails
         BY <1>30 DEF AdmitNewFails
  <1>31. CASE PostOnline
         BY <1>31 DEF PostOnline
  <1>32. CASE PostOnlineFails
         BY <1>32 DEF PostOnlineFails
  <1>28. CASE UNCHANGED vars
         BY <1>28 DEF vars, access, registry, linkVars, locals, sync, reportVars, history
  <1> QED
      BY <1>1, <1>2, <1>3, <1>4, <1>5, <1>6, <1>7, <1>8, <1>9, <1>10, <1>11,
         <1>12, <1>13, <1>14, <1>15, <1>16, <1>17, <1>18, <1>19, <1>20,
         <1>21, <1>22, <1>23, <1>24, <1>25, <1>26, <1>27, <1>28,
         <1>29, <1>30, <1>31, <1>32
      DEF Next, Check, Link, Delete, Update, Report

LEMMA TypeInit == Init => TypeInv
  <1> SUFFICES ASSUME Init PROVE TypeInv
      OBVIOUS
  <1>1. HoldersHaveMap /\ ReadIsSpeed
        BY DEF Init, HoldersHaveMap, ReadIsSpeed
  <1>2. pc \in [Conns -> {"idle", "rejected", "open", "closed"} \cup SetUp]
        BY DEF Init
  <1>3. mine \in [Conns -> Buckets \cup {None}] /\ links \in [Conns -> SUBSET Conns]
        BY DEF Init
  <1>4. changes \in 0..MaxChanges
        BY MaxChangesAssumption DEF Init
  <1> QED
      BY <1>1, <1>2, <1>3, <1>4 DEF Init, TypeInv, TypeOK

LEMMA TypeInvariant == Spec => []TypeInv
  BY TypeInit, TypeStep, PTL DEF Spec

(* Type correctness of the limiter, the links and the two tasks that change
   them. *)
THEOREM ConnectionsTypeCorrect == Spec => []TypeOK
  BY TypeInvariant, PTL DEF TypeInv

-----------------------------------------------------------------------------
(* What is open is where DelUsers finds it *)

Regular == Conns \ (late \cup twin \cup byLink)

MakerJoins == \A c \in Conns : pc[c] = "keep" => joined[c] = c
MakersAreTwins == \A c, d \in Making : c # d => c \in twin
JoinedIsManager ==
    \A c \in Regular :
        pc[c] \in {"add", "open"} => Making = {} /\ manager # None /\ joined[c] = manager
OpenIsLinked == \A c \in Regular : pc[c] = "open" => c \in links[manager]
DeletedIsOut == stage \in {"load", "closing", "closed"} => ~inbound
NoneIsSetUp == ~inbound /\ stage # "load" => \A c \in Regular : pc[c] \notin SetUp
OpenIsPending == stage = "closing" => \A c \in Regular : pc[c] = "open" => c \in pending
IsCutOff ==
    ~inbound /\ stage \notin {"load", "closing"} => \A c \in Regular : pc[c] # "open"

LinkInv ==
    /\ MakerJoins /\ MakersAreTwins /\ JoinedIsManager /\ OpenIsLinked
    /\ DeletedIsOut /\ NoneIsSetUp /\ OpenIsPending /\ IsCutOff

(* Every step keeps the links.  A manager is made only when no regular
   connection has one, and while it is made none gets one. *)
LEMMA LinkStep == TypeInv /\ LinkInv /\ [Next]_vars => LinkInv'
  <1> SUFFICES ASSUME TypeInv, LinkInv, [Next]_vars PROVE LinkInv'
      OBVIOUS
  <1>a. /\ pc \in [Conns -> {"idle", "rejected", "open", "closed"} \cup SetUp]
        /\ joined \in [Conns -> Conns \cup {None}] /\ links \in [Conns -> SUBSET Conns]
        /\ manager \in Conns \cup {None} /\ None \notin Conns
      BY ConnsAssumption DEF TypeInv, TypeOK
  <1> USE DEF access, registry, linkVars, locals, sync, reportVars, history,
          LinkInv, MakerJoins, MakersAreTwins, JoinedIsManager, OpenIsLinked,
          DeletedIsOut, NoneIsSetUp, OpenIsPending, IsCutOff, Regular, Making,
          SetUp
  <1>1. ASSUME NEW c \in Conns, Authenticate(c)
         PROVE  LinkInv'
         BY <1>1, <1>a DEF Authenticate, Go
  <1>2. ASSUME NEW c \in Conns, Reject(c)
         PROVE  LinkInv'
         BY <1>2, <1>a DEF Reject, Go
  <1>3. ASSUME NEW c \in Conns, ReadLimit(c)
         PROVE  LinkInv'
         BY <1>3, <1>a DEF ReadLimit, Go
  <1>4. ASSUME NEW c \in Conns, RegisterFirst(c)
         PROVE  LinkInv'
         BY <1>4, <1>a DEF RegisterFirst, Go, MarkUnsure
  <1>5. ASSUME NEW c \in Conns, FindAddresses(c)
         PROVE  LinkInv'
         BY <1>5, <1>a DEF FindAddresses, Go, MarkUnsure
  <1>6. ASSUME NEW c \in Conns, AddAddress(c)
         PROVE  LinkInv'
         BY <1>6, <1>a DEF AddAddress, Go, MarkUnsure
  <1>7. ASSUME NEW c \in Conns, NoBucket(c)
         PROVE  LinkInv'
         BY <1>7, <1>a DEF NoBucket, Go
  <1>8. ASSUME NEW c \in Conns, TakeBucket(c)
         PROVE  LinkInv'
         BY <1>8, <1>a DEF TakeBucket, Go
  <1>9. ASSUME NEW c \in Conns, StoreBucket(c)
         PROVE  LinkInv'
         BY <1>9, <1>a DEF StoreBucket, Go
  <1>10. ASSUME NEW c \in Conns, FindManager(c)
         PROVE  LinkInv'
         BY <1>10, <1>a DEF FindManager, Go
  <1>11. ASSUME NEW c \in Conns, MakeManager(c)
         PROVE  LinkInv'
         BY <1>11, <1>a DEF MakeManager, Go
  <1>12. ASSUME NEW c \in Conns, KeepManager(c)
         PROVE  LinkInv'
         BY <1>12, <1>a DEF KeepManager, Go
  <1>13. ASSUME NEW c \in Conns, AddLink(c)
         PROVE  LinkInv'
         BY <1>13, <1>a DEF AddLink, Go
  <1>14. ASSUME NEW c \in Conns, Ends(c)
         PROVE  LinkInv'
         BY <1>14, <1>a DEF Ends, Close
  <1>15. ASSUME NEW c \in Conns, LinksRace(c)
         PROVE  LinkInv'
         BY <1>15, <1>a DEF LinksRace
  <1>16. ASSUME NEW c \in Conns, CloseLink(c)
         PROVE  LinkInv'
         BY <1>16, <1>a DEF CloseLink, Close
  <1>17. ASSUME NEW speed \in Speeds \cup {None}, RemoveUser(speed)
         PROVE  LinkInv'
         BY <1>17, <1>a DEF RemoveUser
  <1>18. ASSUME NEW speed \in Speeds \cup {None}, AdmitNew(speed)
         PROVE  LinkInv'
         BY <1>18, <1>a DEF AdmitNew
  <1>19. CASE LoadManager
         BY <1>19, <1>a DEF LoadManager, MarkLate
  <1>20. CASE DropManager
         BY <1>20, <1>a DEF DropManager
  <1>21. CASE AdmitAgain
         BY <1>21, <1>a DEF AdmitAgain
  <1>22. CASE ForgetLimit
         BY <1>22, <1>a DEF ForgetLimit
  <1>23. CASE ForgetOnline
         BY <1>23, <1>a DEF ForgetOnline
  <1>24. CASE ForgetBucket
         BY <1>24, <1>a DEF ForgetBucket
  <1>25. CASE StoreLimit
         BY <1>25, <1>a DEF StoreLimit
  <1>26. CASE RangeOnline
         BY <1>26, <1>a DEF RangeOnline, Registered
  <1>27. CASE ResetOnline
         BY <1>27, <1>a DEF ResetOnline
  <1>29. CASE AdmitFails
         BY <1>29, <1>a DEF AdmitFails
  <1>30. CASE AdmitNewFails
         BY <1>30, <1>a DEF AdmitNewFails
  <1>31. CASE PostOnline
         BY <1>31, <1>a DEF PostOnline
  <1>32. CASE PostOnlineFails
         BY <1>32, <1>a DEF PostOnlineFails
  <1>28. CASE UNCHANGED vars
         BY <1>28, <1>a DEF vars, access, registry, linkVars, locals, sync, reportVars, history
  <1> QED
      BY <1>1, <1>2, <1>3, <1>4, <1>5, <1>6, <1>7, <1>8, <1>9, <1>10, <1>11,
         <1>12, <1>13, <1>14, <1>15, <1>16, <1>17, <1>18, <1>19, <1>20,
         <1>21, <1>22, <1>23, <1>24, <1>25, <1>26, <1>27, <1>28,
         <1>29, <1>30, <1>31, <1>32
      DEF Next, Check, Link, Delete, Update, Report

LEMMA LinkInit == Init => LinkInv
  BY DEF Init, LinkInv, MakerJoins, MakersAreTwins, JoinedIsManager, OpenIsLinked, DeletedIsOut,
         NoneIsSetUp, OpenIsPending, IsCutOff, Regular, Making, SetUp

LEMMA LinkInvariant == Spec => [](TypeInv /\ LinkInv)
  BY TypeInvariant, LinkInit, LinkStep, PTL DEF Spec

(* A deleted user is cut off: after DelUsers and UpdateUser no connection of
   the user is open but those the code cannot reach. *)
THEOREM ConnectionsDeletedCutOff == Spec => []DeletedUsersAreCutOff
  <1>1. LinkInv => DeletedUsersAreCutOff
        BY DEF LinkInv, IsCutOff, Regular, DeletedUsersAreCutOff
  <1> QED
      BY <1>1, LinkInvariant, PTL

-----------------------------------------------------------------------------
(* Buckets follow the limit *)

Setting == stage \in {"idle", "load", "closing", "closed"}
Quiet == limit = None \/ stage \in {"closed", "limit", "online", "bucket", "store"}

StagesAgree ==
    /\ stage \in {"load", "closing", "closed", "limit"} => limit # None
    /\ stage \in {"load", "closing", "closed"} => ~inbound
    /\ stage \in {"online", "bucket", "store"} => limit = None
    /\ stage \in {"limit", "online", "bucket", "store"} => (inbound <=> next # None)
    /\ stage = "store" => inbound
NoneIsLate == ~mixed => late = {}
IsStuck == stage = "idle" /\ inbound /\ limit = None
QuietSetUp ==
    ~mixed /\ (Quiet \/ stage = "closing") =>
        \A c \in Conns : pc[c] \in SetUp => pc[c] = "check" /\ IsStuck
QuietOpen == ~mixed /\ Quiet => \A c \in Conns \ (twin \cup byLink) : pc[c] # "open"
BucketIsForgotten == ~mixed /\ limit = None /\ stage \in {"idle", "store"} => bucket = None
BucketHasSpeed ==
    ~mixed /\ Setting /\ limit # None /\ bucket # None =>
        bucket.rate = limit /\ limit # Unlimited
ReadIsLimit ==
    ~mixed /\ Setting =>
        \A c \in Conns : pc[c] \in {"online", "address", "bucket"} => read[c] = limit
MineIsUnset ==
    \A c \in Conns : pc[c] \in {"idle", "check", "online", "address", "bucket"} => mine[c] = None
StoreHasMine == \A c \in Conns : pc[c] = "store" => mine[c] # None
MineIsBucket ==
    ~mixed /\ Setting =>
        \A c \in Conns :
            \/ pc[c] \in {"store", "link", "keep", "add"}
            \/ pc[c] = "open" /\ c \notin twin \cup byLink
            => IF limit = Unlimited THEN mine[c] = None
               ELSE mine[c] # None /\ mine[c] = bucket

SpeedInv ==
    /\ StagesAgree /\ NoneIsLate /\ QuietSetUp /\ QuietOpen
    /\ BucketIsForgotten /\ BucketHasSpeed /\ ReadIsLimit
    /\ MineIsUnset /\ StoreHasMine /\ MineIsBucket

(* Every step keeps the speeds.  Unless a connection is set up during a change,
   nothing of the old limit is left when the new one is stored. *)
LEMMA SpeedStep == TypeInv /\ LinkInv /\ SpeedInv /\ [Next]_vars => SpeedInv'
  <1> SUFFICES ASSUME TypeInv, LinkInv, SpeedInv, [Next]_vars PROVE SpeedInv'
      OBVIOUS
  <1>a. /\ pc \in [Conns -> {"idle", "rejected", "open", "closed"} \cup SetUp]
        /\ mine \in [Conns -> Buckets \cup {None}] /\ read \in [Conns -> Speeds \cup {None}]
        /\ \A c \in Conns, r \in Speeds : [maker |-> c, rate |-> r] # None
        /\ None \notin Speeds /\ Unlimited \in Speeds
        /\ limit \in Speeds \cup {None} /\ next \in Speeds \cup {None}
        /\ late \in SUBSET Conns
      BY ConnsAssumption, SpeedsAssumption DEF TypeInv, TypeOK, Buckets
  <1>b. /\ ReadIsSpeed
        /\ stage' = "closed" => \A c \in (Conns \ (late \cup twin \cup byLink))' : pc'[c] # "open"
      BY LinkStep DEF TypeInv, LinkInv, IsCutOff, DeletedIsOut, Regular
  <1> USE DEF access, registry, linkVars, locals, sync, reportVars, history,
          SpeedInv, StagesAgree, NoneIsLate, QuietSetUp, QuietOpen,
          BucketIsForgotten, BucketHasSpeed, ReadIsLimit, MineIsUnset,
          StoreHasMine, MineIsBucket, Quiet, Setting, Regular, SetUp, IsStuck
  <1>1. ASSUME NEW c \in Conns, Authenticate(c)
         PROVE  SpeedInv'
         BY <1>1, <1>a, <1>b DEF Authenticate, Go
  <1>2. ASSUME NEW c \in Conns, Reject(c)
         PROVE  SpeedInv'
         BY <1>2, <1>a, <1>b DEF Reject, Go
  <1>3. ASSUME NEW c \in Conns, ReadLimit(c)
         PROVE  SpeedInv'
         BY <1>3, <1>a, <1>b DEF ReadLimit, Go
  <1>4. ASSUME NEW c \in Conns, RegisterFirst(c)
         PROVE  SpeedInv'
         BY <1>4, <1>a, <1>b DEF RegisterFirst, Go, MarkUnsure
  <1>5. ASSUME NEW c \in Conns, FindAddresses(c)
         PROVE  SpeedInv'
         BY <1>5, <1>a, <1>b DEF FindAddresses, Go, MarkUnsure
  <1>6. ASSUME NEW c \in Conns, AddAddress(c)
         PROVE  SpeedInv'
         BY <1>6, <1>a, <1>b DEF AddAddress, Go, MarkUnsure
  <1>7. ASSUME NEW c \in Conns, NoBucket(c)
         PROVE  SpeedInv'
         BY <1>7, <1>a, <1>b DEF NoBucket, Go
  <1>8. ASSUME NEW c \in Conns, TakeBucket(c)
         PROVE  SpeedInv'
    <2>0. /\ read[c] \in Speeds /\ read[c] # Unlimited
          /\ pc[c] = "bucket" /\ [maker |-> c, rate |-> read[c]] # None
         BY <1>8, <1>a, <1>b DEF TakeBucket, ReadIsSpeed
    <2>1. StagesAgree'
         BY <1>8, <1>a, <2>0 DEF TakeBucket, Go
    <2>2. NoneIsLate'
         BY <1>8, <1>a, <2>0 DEF TakeBucket, Go
    <2>3. QuietSetUp'
         BY <1>8, <1>a, <2>0 DEF TakeBucket, Go
    <2>4. QuietOpen'
         BY <1>8, <1>a, <2>0 DEF TakeBucket, Go
    <2>5. BucketIsForgotten'
         BY <1>8, <1>a, <2>0 DEF TakeBucket, Go
    <2>6. BucketHasSpeed'
         BY <1>8, <1>a, <2>0 DEF TakeBucket, Go
    <2>7. ReadIsLimit'
         BY <1>8, <1>a, <2>0 DEF TakeBucket, Go
    <2>8. MineIsUnset'
         BY <1>8, <1>a, <2>0 DEF TakeBucket, Go
    <2>9. StoreHasMine'
         BY <1>8, <1>a, <2>0 DEF TakeBucket, Go
    <2>10. MineIsBucket'
         BY <1>8, <1>a, <2>0 DEF TakeBucket, Go
    <2> QED
        BY <2>1, <2>2, <2>3, <2>4, <2>5, <2>6, <2>7, <2>8, <2>9, <2>10 DEF SpeedInv
  <1>9. ASSUME NEW c \in Conns, StoreBucket(c)
         PROVE  SpeedInv'
         BY <1>9, <1>a, <1>b DEF StoreBucket, Go
  <1>10. ASSUME NEW c \in Conns, FindManager(c)
         PROVE  SpeedInv'
         BY <1>10, <1>a, <1>b DEF FindManager, Go, Making
  <1>11. ASSUME NEW c \in Conns, MakeManager(c)
         PROVE  SpeedInv'
         BY <1>11, <1>a, <1>b DEF MakeManager, Go, Making
  <1>12. ASSUME NEW c \in Conns, KeepManager(c)
         PROVE  SpeedInv'
         BY <1>12, <1>a, <1>b DEF KeepManager, Go
  <1>13. ASSUME NEW c \in Conns, AddLink(c)
         PROVE  SpeedInv'
         BY <1>13, <1>a, <1>b DEF AddLink, Go
  <1>14. ASSUME NEW c \in Conns, Ends(c)
         PROVE  SpeedInv'
         BY <1>14, <1>a, <1>b DEF Ends, Close
  <1>15. ASSUME NEW c \in Conns, LinksRace(c)
         PROVE  SpeedInv'
         BY <1>15, <1>a, <1>b DEF LinksRace
  <1>16. ASSUME NEW c \in Conns, CloseLink(c)
         PROVE  SpeedInv'
         BY <1>16, <1>a, <1>b DEF CloseLink, Close
  <1>17. ASSUME NEW speed \in Speeds \cup {None}, RemoveUser(speed)
         PROVE  SpeedInv'
         BY <1>17, <1>a, <1>b DEF RemoveUser
  <1>18. ASSUME NEW speed \in Speeds \cup {None}, AdmitNew(speed)
         PROVE  SpeedInv'
         BY <1>18, <1>a, <1>b DEF AdmitNew
  <1>19. CASE LoadManager
         BY <1>19, <1>a, <1>b DEF LoadManager, MarkLate
  <1>20. CASE DropManager
         BY <1>20, <1>a, <1>b DEF DropManager
  <1>21. CASE AdmitAgain
         BY <1>21, <1>a, <1>b DEF AdmitAgain
  <1>22. CASE ForgetLimit
         BY <1>22, <1>a, <1>b DEF ForgetLimit
  <1>23. CASE ForgetOnline
         BY <1>23, <1>a, <1>b DEF ForgetOnline
  <1>24. CASE ForgetBucket
         BY <1>24, <1>a, <1>b DEF ForgetBucket
  <1>25. CASE StoreLimit
         BY <1>25, <1>a, <1>b DEF StoreLimit
  <1>26. CASE RangeOnline
         BY <1>26, <1>a, <1>b DEF RangeOnline, Registered
  <1>27. CASE ResetOnline
         BY <1>27, <1>a, <1>b DEF ResetOnline
  <1>29. CASE AdmitFails
    <2>1. /\ stage = "closed" /\ stage' = "idle" /\ limit # None /\ limit' = limit
          /\ UNCHANGED <<registry, bucket, linkVars, pc, locals, reportVars, history>>
          BY <1>29 DEF AdmitFails
    <2> QED
        BY <2>1, <1>a, <1>b
  <1>30. CASE AdmitNewFails
         BY <1>30, <1>a, <1>b DEF AdmitNewFails
  <1>31. CASE PostOnline
         BY <1>31, <1>a, <1>b DEF PostOnline
  <1>32. CASE PostOnlineFails
         BY <1>32, <1>a, <1>b DEF PostOnlineFails
  <1>28. CASE UNCHANGED vars
         BY <1>28, <1>a, <1>b DEF vars, access, registry, linkVars, locals, sync, reportVars, history
  <1> QED
      BY <1>1, <1>2, <1>3, <1>4, <1>5, <1>6, <1>7, <1>8, <1>9, <1>10, <1>11,
         <1>12, <1>13, <1>14, <1>15, <1>16, <1>17, <1>18, <1>19, <1>20,
         <1>21, <1>22, <1>23, <1>24, <1>25, <1>26, <1>27, <1>28,
         <1>29, <1>30, <1>31, <1>32
      DEF Next, Check, Link, Delete, Update, Report

LEMMA SpeedInit == Init => SpeedInv
  BY SpeedsAssumption
  DEF Init, SpeedInv, StagesAgree, NoneIsLate, QuietSetUp, QuietOpen, BucketIsForgotten,
      BucketHasSpeed,
      ReadIsLimit, MineIsUnset, StoreHasMine, MineIsBucket, Quiet, Setting, Regular, SetUp, IsStuck

(* The open connections of a user share one bucket of the user's speed, or
   have none, as long as none was set up while a change was made. *)
THEOREM ConnectionsSpeedShared == Spec => []SpeedIsShared
  <1>1. SpeedInv => SpeedIsShared
        BY DEF SpeedInv, QuietOpen, Quiet, BucketHasSpeed, MineIsBucket, Setting, SpeedIsShared
  <1>2. Spec => []SpeedInv
        BY LinkInvariant, SpeedInit, SpeedStep, PTL DEF Spec
  <1> QED
      BY <1>1, <1>2, PTL

-----------------------------------------------------------------------------
(* Addresses reach a report *)

Sure == Registered \ (unsure \cup twin \cup byLink)

LateIsUnsure == late \subseteq unsure
ChangeIsUnsure ==
    stage \in {"closing", "closed", "limit", "online", "bucket"} =>
        \A c \in Conns : pc[c] \in SetUp => c \in unsure
CutOffIsUnsure ==
    stage \in {"closed", "limit", "online", "bucket"} =>
        \A c \in Conns : pc[c] = "open" => c \in unsure \cup twin \cup byLink
HeldOrUnsure == \A c \in Conns : pc[c] = "address" /\ c \notin holders => c \in unsure
AddingIsUnsure == reporting = "reset" => \A c \in Conns : pc[c] = "address" => c \in unsure
Told == report \cup seen \cup lost
RangeMeetsAll == reporting = "reset" => Sure \subseteq Told
RegisteredIsKnown ==
    \A c \in Sure : c \in Told \/ (online # None /\ Address[c] \in online)
ReportIsSent == reporting = "idle" => report = {}

OnlineInv ==
    /\ LateIsUnsure /\ ChangeIsUnsure /\ CutOffIsUnsure
    /\ HeldOrUnsure /\ AddingIsUnsure /\ RangeMeetsAll /\ RegisteredIsKnown
    /\ ReportIsSent

(* Every step keeps the addresses.  A reset of the map finds every address in
   the report or its connection among the unsure, and a report is sent or fails
   before the next one is made. *)
LEMMA OnlineStep == TypeInv /\ LinkInv /\ OnlineInv /\ [Next]_vars => OnlineInv'
  <1> SUFFICES ASSUME TypeInv, LinkInv, OnlineInv, [Next]_vars PROVE OnlineInv'
      OBVIOUS
  <1>a. /\ pc \in [Conns -> {"idle", "rejected", "open", "closed"} \cup SetUp]
        /\ Tcp \subseteq Conns /\ late \in SUBSET Conns /\ unsure \in SUBSET Conns
        /\ online \in (SUBSET Addresses) \cup {None} /\ None \notin SUBSET Addresses
        /\ Address \in [Conns -> Addresses]
      BY ConnsAssumption DEF TypeInv, TypeOK
  <1>b. /\ HoldersHaveMap
        /\ stage' = "closed" => \A c \in (Conns \ (late \cup twin \cup byLink))' : pc'[c] # "open"
      BY LinkStep DEF TypeInv, LinkInv, IsCutOff, DeletedIsOut, Regular
  <1> USE DEF access, registry, linkVars, locals, sync, reportVars, history,
          OnlineInv, LateIsUnsure, ChangeIsUnsure, CutOffIsUnsure,
          HeldOrUnsure, AddingIsUnsure, RangeMeetsAll, RegisteredIsKnown, ReportIsSent, Told, Sure,
          Registered, SetUp, HoldersHaveMap
  <1>1. ASSUME NEW c \in Conns, Authenticate(c)
         PROVE  OnlineInv'
         BY <1>1, <1>a, <1>b DEF Authenticate, Go
  <1>2. ASSUME NEW c \in Conns, Reject(c)
         PROVE  OnlineInv'
         BY <1>2, <1>a, <1>b DEF Reject, Go
  <1>3. ASSUME NEW c \in Conns, ReadLimit(c)
         PROVE  OnlineInv'
         BY <1>3, <1>a, <1>b DEF ReadLimit, Go
  <1>4. ASSUME NEW c \in Conns, RegisterFirst(c)
         PROVE  OnlineInv'
         BY <1>4, <1>a, <1>b DEF RegisterFirst, Go, MarkUnsure
  <1>5. ASSUME NEW c \in Conns, FindAddresses(c)
         PROVE  OnlineInv'
         BY <1>5, <1>a, <1>b DEF FindAddresses, Go, MarkUnsure
  <1>6. ASSUME NEW c \in Conns, AddAddress(c)
         PROVE  OnlineInv'
         BY <1>6, <1>a, <1>b DEF AddAddress, Go, MarkUnsure
  <1>7. ASSUME NEW c \in Conns, NoBucket(c)
         PROVE  OnlineInv'
         BY <1>7, <1>a, <1>b DEF NoBucket, Go
  <1>8. ASSUME NEW c \in Conns, TakeBucket(c)
         PROVE  OnlineInv'
         BY <1>8, <1>a, <1>b DEF TakeBucket, Go
  <1>9. ASSUME NEW c \in Conns, StoreBucket(c)
         PROVE  OnlineInv'
         BY <1>9, <1>a, <1>b DEF StoreBucket, Go
  <1>10. ASSUME NEW c \in Conns, FindManager(c)
         PROVE  OnlineInv'
         BY <1>10, <1>a, <1>b DEF FindManager, Go, Making
  <1>11. ASSUME NEW c \in Conns, MakeManager(c)
         PROVE  OnlineInv'
         BY <1>11, <1>a, <1>b DEF MakeManager, Go, Making
  <1>12. ASSUME NEW c \in Conns, KeepManager(c)
         PROVE  OnlineInv'
         BY <1>12, <1>a, <1>b DEF KeepManager, Go
  <1>13. ASSUME NEW c \in Conns, AddLink(c)
         PROVE  OnlineInv'
         BY <1>13, <1>a, <1>b DEF AddLink, Go
  <1>14. ASSUME NEW c \in Conns, Ends(c)
         PROVE  OnlineInv'
         BY <1>14, <1>a, <1>b DEF Ends, Close
  <1>15. ASSUME NEW c \in Conns, LinksRace(c)
         PROVE  OnlineInv'
         BY <1>15, <1>a, <1>b DEF LinksRace
  <1>16. ASSUME NEW c \in Conns, CloseLink(c)
         PROVE  OnlineInv'
         BY <1>16, <1>a, <1>b DEF CloseLink, Close
  <1>17. ASSUME NEW speed \in Speeds \cup {None}, RemoveUser(speed)
         PROVE  OnlineInv'
         BY <1>17, <1>a, <1>b DEF RemoveUser
  <1>18. ASSUME NEW speed \in Speeds \cup {None}, AdmitNew(speed)
         PROVE  OnlineInv'
         BY <1>18, <1>a, <1>b DEF AdmitNew
  <1>19. CASE LoadManager
         BY <1>19, <1>a, <1>b DEF LoadManager, MarkLate
  <1>20. CASE DropManager
         BY <1>20, <1>a, <1>b DEF DropManager
  <1>21. CASE AdmitAgain
         BY <1>21, <1>a, <1>b DEF AdmitAgain
  <1>22. CASE ForgetLimit
         BY <1>22, <1>a, <1>b DEF ForgetLimit
  <1>23. CASE ForgetOnline
         BY <1>23, <1>a, <1>b DEF ForgetOnline
  <1>24. CASE ForgetBucket
         BY <1>24, <1>a, <1>b DEF ForgetBucket
  <1>25. CASE StoreLimit
         BY <1>25, <1>a, <1>b DEF StoreLimit
  <1>26. CASE RangeOnline
         BY <1>26, <1>a, <1>b DEF RangeOnline
  <1>27. CASE ResetOnline
         BY <1>27, <1>a, <1>b DEF ResetOnline
  <1>29. CASE AdmitFails
         BY <1>29, <1>a, <1>b DEF AdmitFails
  <1>30. CASE AdmitNewFails
         BY <1>30, <1>a, <1>b DEF AdmitNewFails
  <1>31. CASE PostOnline
         BY <1>31, <1>a, <1>b DEF PostOnline
  <1>32. CASE PostOnlineFails
         BY <1>32, <1>a, <1>b DEF PostOnlineFails
  <1>28. CASE UNCHANGED vars
         BY <1>28, <1>a, <1>b DEF vars, access, registry, linkVars, locals, sync, reportVars, history
  <1> QED
      BY <1>1, <1>2, <1>3, <1>4, <1>5, <1>6, <1>7, <1>8, <1>9, <1>10, <1>11,
         <1>12, <1>13, <1>14, <1>15, <1>16, <1>17, <1>18, <1>19, <1>20,
         <1>21, <1>22, <1>23, <1>24, <1>25, <1>26, <1>27, <1>28,
         <1>29, <1>30, <1>31, <1>32
      DEF Next, Check, Link, Delete, Update, Report

LEMMA OnlineInit == Init => OnlineInv
  BY ConnsAssumption
  DEF Init, OnlineInv, LateIsUnsure, ChangeIsUnsure, CutOffIsUnsure, HeldOrUnsure, AddingIsUnsure,
         RangeMeetsAll, RegisteredIsKnown, ReportIsSent, Told, Sure, Registered, SetUp

(* What an open connection registered is in the user's map, in the report being
   sent or was in one that was sent or failed since, unless it was set up while
   the addresses were collected or a change was made (limiter/limiter.go,
   node/task.go). *)
THEOREM ConnectionsOnlineReported == Spec => []OnlineIsReported
  <1>1. OnlineInv => OnlineIsReported
        BY DEF OnlineInv, RegisteredIsKnown, Told, Sure, Registered, OnlineIsReported
  <1>2. Spec => []OnlineInv
        BY LinkInvariant, OnlineInit, OnlineStep, PTL DEF Spec
  <1> QED
      BY <1>1, <1>2, PTL
=============================================================================
