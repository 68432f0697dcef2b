------------------------ MODULE TrafficReport_proofs ------------------------
(***************************************************************************)
(* Type correctness of TrafficReport and NoOverReport, for every set of    *)
(* users, storages and run slots and every threshold.                      *)
(*                                                                         *)
(* NoOverReport is not inductive: a POST adds a slice to claimed, so the   *)
(* slice itself must be backed by counted bytes no other POST will claim.  *)
(* That is true of the one run whose context is unexpired                  *)
(* (Task_proofs!LiveRunIsCurrent), and only of that run: a timed-out run   *)
(* and its successor may hold the same bytes, but the former's POST is     *)
(* refused.  LiveBacked says so for the bytes taken out of the counters,   *)
(* LiveLoaded for those loaded and not yet reset.                          *)
(***************************************************************************)
EXTENDS TrafficReport, Task_proofs

(* Counted bytes not yet claimed cover what is still in the counter. *)
CounterBacked ==
    \A s \in Storages, d \in Dirs : claimed[s][d] + val[s][d] <= sent[s][d]

(* The amount of s, d the run has loaded in its current visit ... *)
Loaded(r, s, d) ==
    IF at[r] = s /\ (pc[r] \in {"zeroUp", "zeroDown"} \/ (pc[r] = "loadDown" /\ d = "up"))
    THEN ld[r][d] ELSE 0

(* ... and the part of it that it has taken out of the counter. *)
Taken(r, s, d) ==
    IF at[r] = s /\ pc[r] = "zeroDown" /\ d = "up" THEN ld[r][d] ELSE 0

LiveBacked ==
    \A r \in Runs : Live(r) =>
        \A s \in Storages, d \in Dirs :
            claimed[s][d] + slice[r][s][d] + Taken(r, s, d) + val[s][d] <= sent[s][d]

LiveLoaded ==
    \A r \in Runs : Live(r) =>
        \A s \in Storages, d \in Dirs :
            claimed[s][d] + slice[r][s][d] + Loaded(r, s, d) <= sent[s][d]

(* A run in a visit has a storage; a run that has not begun the visits or
   whose slot is idle holds nothing. *)
Visiting(r) == pc[r] \in {"loadDown", "zeroUp", "zeroDown"}
PcMatchesRun ==
    \A r \in Runs : /\ Visiting(r) => at[r] \in Storages /\ who[r] \in Emails
                    /\ pc[r] # "none" => run[r] = "running"

ReportInv == CounterBacked /\ LiveBacked /\ LiveLoaded /\ PcMatchesRun

-----------------------------------------------------------------------------
(* Every step of the component is a step of its Task or leaves it alone. *)
LEMMA NextIsTaskStep == [Next]_vars => [TaskNext]_taskVars
  <1> SUFFICES ASSUME [Next]_vars
               PROVE  [TaskNext]_taskVars
      OBVIOUS
  <1>1. CASE TaskStep /\ UNCHANGED reportVars
        BY <1>1 DEF TaskStep, TaskNext
  <1>2. ASSUME NEW r \in Runs, LaunchReport(r)
        PROVE  [TaskNext]_taskVars
        BY <1>2 DEF LaunchReport, TaskNext
  <1>3. ASSUME NEW r \in Runs, ReturnReport(r)
        PROVE  [TaskNext]_taskVars
        BY <1>3 DEF ReturnReport, TaskNext
  <1>4. ASSUME NEW r \in Runs, RunStep(r), ~ReturnReport(r)
        PROVE  UNCHANGED taskVars
        BY <1>4 DEF RunStep, BeginRange, PassAbsent, LoadUp, LoadDown, ZeroUp, ZeroDown,
                    EndRange, Post
  <1>5. ASSUME NEW e \in Emails, NEW s \in Storages, OpenConn(e, s)
        PROVE  UNCHANGED taskVars
        BY <1>5 DEF OpenConn
  <1>6. ASSUME NEW s \in Storages, NEW d \in Dirs, Count(s, d)
        PROVE  UNCHANGED taskVars
        BY <1>6 DEF Count
  <1>7. ASSUME NEW us \in SUBSET Emails, DelUsers(us) \/ AddUsers(us)
        PROVE  UNCHANGED taskVars
        BY <1>7 DEF DelUsers, AddUsers
  <1>8. CASE UNCHANGED vars
        BY <1>8 DEF vars
  <1> QED
      BY <1>1, <1>2, <1>3, <1>4, <1>5, <1>6, <1>7, <1>8 DEF Next

-----------------------------------------------------------------------------
(* The part of the types that is not the Task's. *)
ReportTypeOK ==
    /\ counter \in [Emails -> Storages \cup {None}]
    /\ val \in Amounts
    /\ uid \in SUBSET Emails
    /\ pc \in [Runs -> PcStates]
    /\ left \in [Runs -> SUBSET Emails]
    /\ who \in [Runs -> Emails \cup {None}]
    /\ at \in [Runs -> Storages \cup {None}]
    /\ ld \in [Runs -> [Dirs -> Nat]]
    /\ slice \in [Runs -> Amounts]
    /\ sent \in Amounts
    /\ claimed \in Amounts

(* A step of the component keeps the types of its own variables. *)
LEMMA ReportTypeStep == ReportTypeOK /\ PcMatchesRun /\ [Next]_vars => ReportTypeOK'
  <1> SUFFICES ASSUME ReportTypeOK, PcMatchesRun, [Next]_vars
               PROVE  ReportTypeOK'
      OBVIOUS
  <1> USE DEF ReportTypeOK, Amounts, NoAmounts, Zero, Dirs, PcStates, Go
  <1>1. CASE TaskStep /\ UNCHANGED reportVars
        BY <1>1 DEF reportVars
  <1>2. ASSUME NEW r \in Runs, LaunchReport(r)
        PROVE  ReportTypeOK'
        BY <1>2 DEF LaunchReport
  <1>3. ASSUME NEW r \in Runs, RunStep(r)
        PROVE  ReportTypeOK'
    <2>1. CASE BeginRange(r)
          BY <2>1 DEF BeginRange
    <2>2. ASSUME NEW e \in Emails, PassAbsent(r, e)
          PROVE  ReportTypeOK'
          BY <2>2 DEF PassAbsent
    <2>3. ASSUME NEW e \in Emails, LoadUp(r, e)
          PROVE  ReportTypeOK'
          BY <2>3 DEF LoadUp
    <2>4. CASE LoadDown(r)
      <3>1. at[r] \in Storages
            BY <2>4 DEF LoadDown, PcMatchesRun, Visiting
      <3>2. val[at[r]]["down"] \in Nat
            BY <3>1
      <3>3. ld' \in [Runs -> [Dirs -> Nat]]
        <4>1. [ld EXCEPT ![r]["down"] = val[at[r]]["down"]] \in [Runs -> [Dirs -> Nat]]
              BY <3>2
        <4>2. [ld EXCEPT ![r] = Zero] \in [Runs -> [Dirs -> Nat]]
              OBVIOUS
        <4> QED
            BY <2>4, <4>1, <4>2 DEF LoadDown, EndVisit
      <3>4. pc' \in [Runs -> PcStates]
            BY <2>4 DEF LoadDown, EndVisit
      <3>5. who' \in [Runs -> Emails \cup {None}] /\ at' \in [Runs -> Storages \cup {None}]
            BY <2>4 DEF LoadDown, EndVisit
      <3> QED
          BY <2>4, <3>3, <3>4, <3>5 DEF LoadDown
    <2>5. CASE ZeroUp(r)
          BY <2>5 DEF ZeroUp, PcMatchesRun, Visiting
    <2>6. CASE ZeroDown(r)
      <3>1. at[r] \in Storages /\ who[r] \in Emails
            BY <2>6 DEF ZeroDown, PcMatchesRun, Visiting
      <3>2. slice' \in [Runs -> Amounts]
        <4> DEFINE sum == [d \in Dirs |-> slice[r][at[r]][d] + ld[r][d]]
        <4>1. sum \in [Dirs -> Nat]
              BY <3>1
        <4>2. slice' = slice \/ slice' = [slice EXCEPT ![r][at[r]] = sum]
              BY <2>6 DEF ZeroDown
        <4> HIDE DEF sum
        <4>3. [slice EXCEPT ![r][at[r]] = sum] \in [Runs -> Amounts]
              BY <3>1, <4>1
        <4> QED
            BY <4>2, <4>3
      <3>3. val' \in Amounts
            BY <2>6, <3>1 DEF ZeroDown
      <3>4. counter' \in [Emails -> Storages \cup {None}]
            BY <2>6, <3>1 DEF ZeroDown
      <3> QED
          BY <2>6, <3>2, <3>3, <3>4 DEF ZeroDown, EndVisit
    <2>7. CASE EndRange(r)
          BY <2>7 DEF EndRange, Locals
    <2>8. CASE Post(r)
      <3>1. claimed' \in Amounts
            BY <2>8 DEF Post, Credit
      <3> QED
          BY <2>8, <3>1 DEF Post
    <2>9. CASE ReturnReport(r)
          BY <2>9 DEF ReturnReport, Locals
    <2> QED
        BY <1>3, <2>1, <2>2, <2>3, <2>4, <2>5, <2>6, <2>7, <2>8, <2>9 DEF RunStep
  <1>4. ASSUME NEW e \in Emails, NEW s \in Storages, OpenConn(e, s)
        PROVE  ReportTypeOK'
        BY <1>4 DEF OpenConn
  <1>5. ASSUME NEW s \in Storages, NEW d \in Dirs, Count(s, d)
        PROVE  ReportTypeOK'
        BY <1>5 DEF Count
  <1>6. ASSUME NEW us \in SUBSET Emails, DelUsers(us) \/ AddUsers(us)
        PROVE  ReportTypeOK'
        BY <1>6 DEF DelUsers, AddUsers
  <1>7. CASE UNCHANGED vars
        BY <1>7 DEF vars, reportVars
  <1> QED
      BY <1>1, <1>2, <1>3, <1>4, <1>5, <1>6, <1>7 DEF Next

-----------------------------------------------------------------------------
(* No step other than its launch makes a run live, and a running run goes on
   until it returns. *)
LEMMA LiveStep ==
    ASSUME TaskTypeOK, TaskInv, [TaskNext]_taskVars, NEW r \in Runs, ~Launch(r)
    PROVE  Live(r)' => Live(r)
  <1> USE DEF TaskTypeOK, RunStates, TaskInv, CurIsAwaited, Live
  <1>1. CASE Start \/ Close \/ TakeReload
        BY <1>1 DEF Start, Close, TakeReload
  <1>2. CASE LoopStep
        BY <1>2 DEF LoopStep, LoopTop, TimerFires, Expire, NoticeTimeout, NoticeDone
  <1>3. ASSUME NEW q \in Runs, Launch(q)
        PROVE  Live(r)' => Live(r)
        BY <1>3 DEF Launch
  <1>4. ASSUME NEW q \in Runs, NEW result \in {"ok", "failed"}, RunReturns(q, result)
        PROVE  Live(r)' => Live(r)
        BY <1>4 DEF RunReturns
  <1>5. CASE UNCHANGED taskVars
        BY <1>5 DEF taskVars
  <1> QED
      BY <1>1, <1>2, <1>3, <1>4, <1>5 DEF TaskNext

LEMMA RunningStep ==
    ASSUME TaskTypeOK, TaskInv, TaskStep, NEW r \in Runs, run[r] = "running"
    PROVE  run'[r] = "running"
  BY DEF TaskTypeOK, RunStates, TaskInv, CurIsAwaited, TaskStep, Start, Close, TakeReload,
         LoopStep, LoopTop, TimerFires, Expire, NoticeTimeout, NoticeDone

(* The amounts the invariant adds up are natural numbers. *)
LEMMA AmountsAreNat ==
    ASSUME ReportTypeOK, NEW q \in Runs, NEW s \in Storages, NEW d \in Dirs
    PROVE  /\ claimed[s][d] \in Nat /\ sent[s][d] \in Nat /\ val[s][d] \in Nat
           /\ slice[q][s][d] \in Nat /\ ld[q][d] \in Nat
  BY DEF ReportTypeOK, Amounts

(* A step that changes neither a run's hand nor the panel's account, and
   takes from the counters or adds what is counted, keeps the run backed. *)
BackedBy(q, s, d) ==
    Live(q) => /\ claimed[s][d] + slice[q][s][d] + Taken(q, s, d) + val[s][d] <= sent[s][d]
               /\ claimed[s][d] + slice[q][s][d] + Loaded(q, s, d) <= sent[s][d]

LEMMA ReportInvByParts ==
    ReportInv <=> /\ \A s \in Storages, d \in Dirs : claimed[s][d] + val[s][d] <= sent[s][d]
                  /\ \A q \in Runs, s \in Storages, d \in Dirs : BackedBy(q, s, d)
                  /\ PcMatchesRun
  BY DEF ReportInv, CounterBacked, LiveBacked, LiveLoaded, BackedBy

-----------------------------------------------------------------------------
(* Initially nothing is counted, held or claimed. *)
LEMMA ReportInitInv == Init => ReportTypeOK /\ ReportInv
  <1> SUFFICES ASSUME Init
               PROVE  ReportTypeOK /\ ReportInv
      OBVIOUS
  <1> USE DEF Init, NoAmounts, Zero
  <1>1. ReportTypeOK
        BY DEF ReportTypeOK, Amounts, PcStates
  <1>2. \A r \in Runs : ~Live(r)
        BY DEF TaskInit, Live
  <1>3. CounterBacked
        BY DEF CounterBacked
  <1>4. PcMatchesRun
        BY DEF PcMatchesRun, Visiting
  <1> QED
      BY <1>1, <1>2, <1>3, <1>4 DEF ReportInv, LiveBacked, LiveLoaded

(* A step keeps a run that visits a counter supplied with its locals, and
   running. *)
LEMMA PcStep ==
    TaskTypeOK /\ TaskInv /\ ReportTypeOK /\ PcMatchesRun /\ [Next]_vars => PcMatchesRun'
  <1> SUFFICES ASSUME TaskTypeOK, TaskInv, ReportTypeOK, PcMatchesRun, [Next]_vars
               PROVE  PcMatchesRun'
      OBVIOUS
  <1> USE DEF PcMatchesRun, Visiting, ReportTypeOK, PcStates, Go
  <1>1. CASE TaskStep /\ UNCHANGED reportVars
        BY <1>1, RunningStep DEF reportVars
  <1>2. ASSUME NEW r \in Runs, LaunchReport(r)
        PROVE  PcMatchesRun'
        BY <1>2 DEF LaunchReport, Launch, TaskTypeOK
  <1>3. ASSUME NEW r \in Runs, RunStep(r)
        PROVE  PcMatchesRun'
    <2>1. CASE BeginRange(r)
          BY <2>1 DEF BeginRange, taskVars
    <2>2. ASSUME NEW e \in Emails, PassAbsent(r, e)
          PROVE  PcMatchesRun'
          BY <2>2 DEF PassAbsent, taskVars
    <2>3. ASSUME NEW e \in Emails, LoadUp(r, e)
          PROVE  PcMatchesRun'
          BY <2>3 DEF LoadUp, taskVars
    <2>4. CASE LoadDown(r)
          BY <2>4 DEF LoadDown, EndVisit, taskVars
    <2>5. CASE ZeroUp(r)
          BY <2>5 DEF ZeroUp, taskVars
    <2>6. CASE ZeroDown(r)
          BY <2>6 DEF ZeroDown, EndVisit, taskVars
    <2>7. CASE EndRange(r)
          BY <2>7 DEF EndRange, Locals, taskVars
    <2>8. CASE Post(r)
          BY <2>8 DEF Post, taskVars
    <2>9. CASE ReturnReport(r)
          BY <2>9 DEF ReturnReport, RunReturns, Locals, TaskTypeOK
    <2> QED
        BY <1>3, <2>1, <2>2, <2>3, <2>4, <2>5, <2>6, <2>7, <2>8, <2>9 DEF RunStep
  <1>4. ASSUME NEW e \in Emails, NEW s \in Storages, OpenConn(e, s)
        PROVE  PcMatchesRun'
        BY <1>4 DEF OpenConn, taskVars
  <1>5. ASSUME NEW s \in Storages, NEW d \in Dirs, Count(s, d)
        PROVE  PcMatchesRun'
        BY <1>5 DEF Count, taskVars
  <1>6. ASSUME NEW us \in SUBSET Emails, DelUsers(us) \/ AddUsers(us)
        PROVE  PcMatchesRun'
        BY <1>6 DEF DelUsers, AddUsers, taskVars
  <1>7. CASE UNCHANGED vars
        BY <1>7 DEF vars, reportVars, taskVars
  <1> QED
      BY <1>1, <1>2, <1>3, <1>4, <1>5, <1>6, <1>7 DEF Next

(* A run whose POST the panel may take is the live one. *)
LEMMA PostIsLive ==
    ASSUME PcMatchesRun, NEW r \in Runs, pc[r] # "none", r \notin expired
    PROVE  Live(r)
  BY DEF PcMatchesRun, Live

(* A step keeps what is claimed and what is still counted covered. *)
LEMMA CounterStep ==
    ReportTypeOK /\ ReportInv /\ [Next]_vars => CounterBacked'
  <1> SUFFICES ASSUME ReportTypeOK, ReportInv, [Next]_vars,
                      NEW s \in Storages, NEW d \in Dirs
               PROVE  claimed'[s][d] + val'[s][d] <= sent'[s][d]
      BY DEF CounterBacked
  <1>0. /\ claimed[s][d] + val[s][d] <= sent[s][d]
        /\ claimed[s][d] \in Nat /\ val[s][d] \in Nat /\ sent[s][d] \in Nat
        BY DEF ReportInv, CounterBacked, ReportTypeOK, Amounts
  <1>1. CASE UNCHANGED <<val, sent, claimed>>
        BY <1>0, <1>1
  <1>2. ASSUME NEW r \in Runs, ZeroUp(r) \/ ZeroDown(r)
        PROVE  claimed'[s][d] + val'[s][d] <= sent'[s][d]
    <2>1. claimed' = claimed /\ sent' = sent
          BY <1>2 DEF ZeroUp, ZeroDown
    <2>2. val'[s][d] = val[s][d] \/ val'[s][d] = 0
      <3>1. val \in [Storages -> [Dirs -> Nat]]
            BY DEF ReportTypeOK, Amounts
      <3>2. \E e \in Dirs : val' = [val EXCEPT ![at[r]][e] = 0]
            BY <1>2 DEF ZeroUp, ZeroDown, Dirs
      <3> QED
          BY <3>1, <3>2
    <2> QED
        BY <1>0, <2>1, <2>2
  <1>3. ASSUME NEW r \in Runs, Post(r)
        PROVE  claimed'[s][d] + val'[s][d] <= sent'[s][d]
    <2>1. val' = val /\ sent' = sent
          BY <1>3 DEF Post
    <2>2. CASE claimed' = claimed
          BY <1>0, <2>1, <2>2
    <2>3. CASE claimed' # claimed
      <3>1. claimed' = Credit(r) /\ Live(r) /\ pc[r] = "post"
            BY <1>3, <2>3, PostIsLive DEF Post, ReportInv
      <3>2. claimed'[s][d] = claimed[s][d] + slice[r][s][d]
            BY <3>1 DEF Credit
      <3>3. Taken(r, s, d) = 0
            BY <3>1 DEF Taken
      <3>4. claimed[s][d] + slice[r][s][d] + 0 + val[s][d] <= sent[s][d]
            BY <3>1, <3>3 DEF ReportInv, LiveBacked
      <3> QED
          BY <1>0, <2>1, <3>2, <3>4, AmountsAreNat
    <2> QED
        BY <2>2, <2>3
  <1>4. ASSUME NEW t \in Storages, NEW e \in Dirs, Count(t, e)
        PROVE  claimed'[s][d] + val'[s][d] <= sent'[s][d]
    <2>1. claimed' = claimed
          BY <1>4 DEF Count
    <2>2. \/ val'[s][d] = val[s][d] /\ sent'[s][d] = sent[s][d]
          \/ val'[s][d] = val[s][d] + 1 /\ sent'[s][d] = sent[s][d] + 1
          BY <1>4 DEF Count, ReportTypeOK, Amounts, Dirs
    <2> QED
        BY <1>0, <2>1, <2>2
  <1> QED
      BY <1>1, <1>2, <1>3, <1>4
      DEF Next, vars, reportVars, RunStep, LaunchReport, OpenConn, DelUsers, AddUsers,
          BeginRange, PassAbsent, LoadUp, LoadDown, EndRange, ReturnReport

(* A step keeps the live run's amounts covered: the bytes it took out of the
   counters together with those still there, and those it has loaded. *)
LEMMA BackedStep ==
    TaskTypeOK /\ TaskInv /\ ReportTypeOK /\ ReportInv /\ [Next]_vars
        => \A q \in Runs, s \in Storages, d \in Dirs : BackedBy(q, s, d)'
  <1> SUFFICES ASSUME TaskTypeOK, TaskInv, ReportTypeOK, ReportInv, [Next]_vars,
                      NEW q \in Runs, NEW s \in Storages, NEW d \in Dirs, Live(q)'
               PROVE  /\ claimed'[s][d] + slice'[q][s][d] + Taken(q, s, d)' + val'[s][d]
                            <= sent'[s][d]
                      /\ claimed'[s][d] + slice'[q][s][d] + Loaded(q, s, d)' <= sent'[s][d]
      BY DEF BackedBy
  <1> DEFINE Goal == /\ claimed'[s][d] + slice'[q][s][d] + Taken(q, s, d)' + val'[s][d]
                            <= sent'[s][d]
                     /\ claimed'[s][d] + slice'[q][s][d] + Loaded(q, s, d)' <= sent'[s][d]
  <1>n. /\ claimed[s][d] \in Nat /\ sent[s][d] \in Nat /\ val[s][d] \in Nat
        /\ slice[q][s][d] \in Nat /\ ld[q][d] \in Nat
        BY AmountsAreNat
  <1>t. Taken(q, s, d) \in Nat /\ Loaded(q, s, d) \in Nat
        BY <1>n DEF Taken, Loaded
  <1>c. claimed[s][d] + val[s][d] <= sent[s][d]
        BY DEF ReportInv, CounterBacked
  <1>b. Live(q) => /\ claimed[s][d] + slice[q][s][d] + Taken(q, s, d) + val[s][d] <= sent[s][d]
                   /\ claimed[s][d] + slice[q][s][d] + Loaded(q, s, d) <= sent[s][d]
        BY ReportInvByParts DEF BackedBy
  <1>l. Live(q) \/ Launch(q)
        BY LiveStep, NextIsTaskStep
  <1>k. UNCHANGED taskVars => Live(q)
        BY <1>l DEF Launch, taskVars, TaskTypeOK
  <1> USE DEF Go, Dirs, PcStates
  <1>1. CASE TaskStep /\ UNCHANGED reportVars
    <2>1. Taken(q, s, d)' = Taken(q, s, d) /\ Loaded(q, s, d)' = Loaded(q, s, d)
          BY <1>1 DEF reportVars, Taken, Loaded
    <2>2. Live(q)
          BY <1>1, <1>l DEF Launch, TaskStep, Start, Close, TakeReload, LoopStep, LoopTop,
                            TimerFires, Expire, NoticeTimeout, NoticeDone
    <2> QED
        BY <1>1, <1>b, <2>1, <2>2 DEF reportVars
  <1>2. ASSUME NEW r \in Runs, LaunchReport(r)
        PROVE  Goal
    <2>1. ~Live(q) /\ q = r
          BY <1>2, <1>l DEF LaunchReport, Launch, TaskInv, LiveRunIsCurrent, CurIsAwaited
    <2>2. slice'[q][s][d] = 0 /\ pc'[q] = "lock"
          BY <1>2, <2>1 DEF LaunchReport, ReportTypeOK, Amounts, NoAmounts, Zero
    <2>3. claimed' = claimed /\ val' = val /\ sent' = sent
          BY <1>2 DEF LaunchReport
    <2>4. Taken(q, s, d)' = 0 /\ Loaded(q, s, d)' = 0
          BY <2>2 DEF Taken, Loaded
    <2> QED
        BY <1>n, <1>c, <2>2, <2>3, <2>4
  <1>3. ASSUME NEW r \in Runs, RunStep(r), r # q
        PROVE  Goal
    <2>1. Live(q)
          BY <1>3, <1>l, <1>k DEF RunStep, BeginRange, PassAbsent, LoadUp, LoadDown, ZeroUp,
                ZeroDown, EndRange, Post, ReturnReport, RunReturns, Launch
    <2>2. /\ pc'[q] = pc[q] /\ at'[q] = at[q] /\ ld'[q] = ld[q] /\ slice'[q] = slice[q]
          /\ sent' = sent
          BY <1>3 DEF RunStep, BeginRange, PassAbsent, LoadUp, LoadDown, ZeroUp, ZeroDown,
                      EndRange, EndVisit, Post, ReturnReport, Locals, ReportTypeOK
    <2>3. val'[s][d] = val[s][d] \/ val'[s][d] = 0
      <3>1. val \in [Storages -> [Dirs -> Nat]]
            BY DEF ReportTypeOK, Amounts
      <3>2. val' = val \/ \E e \in Dirs : val' = [val EXCEPT ![at[r]][e] = 0]
            BY <1>3 DEF RunStep, BeginRange, PassAbsent, LoadUp, LoadDown, ZeroUp, ZeroDown,
                        EndRange, Post, ReturnReport
      <3> QED
          BY <3>1, <3>2
    <2>4. claimed' = claimed
      <3>1. CASE Post(r)
            BY <3>1, <2>1, <1>3, PostIsLive DEF Post, TaskInv, LiveRunIsCurrent, ReportInv
      <3>2. CASE ~Post(r)
            BY <1>3, <3>2 DEF RunStep, BeginRange, PassAbsent, LoadUp, LoadDown, ZeroUp,
                              ZeroDown, EndRange, ReturnReport
      <3> QED
          BY <3>1, <3>2
    <2>5. Taken(q, s, d)' = Taken(q, s, d) /\ Loaded(q, s, d)' = Loaded(q, s, d)
          BY <2>2 DEF Taken, Loaded
    <2> QED
        BY <1>n, <1>t, <1>b, <2>1, <2>2, <2>3, <2>4, <2>5
  <1>4. CASE RunStep(q)
    <2>0. Live(q)
          BY <1>4, <1>l, <1>k DEF RunStep, BeginRange, PassAbsent, LoadUp, LoadDown, ZeroUp,
                ZeroDown, EndRange, Post, ReturnReport, RunReturns, Launch
    <2>b. /\ claimed[s][d] + slice[q][s][d] + Taken(q, s, d) + val[s][d] <= sent[s][d]
          /\ claimed[s][d] + slice[q][s][d] + Loaded(q, s, d) <= sent[s][d]
          BY <1>b, <2>0
    <2>1. CASE BeginRange(q) \/ EndRange(q) \/ ReturnReport(q)
                   \/ \E e \in Emails : PassAbsent(q, e)
      <3>1. /\ ~Visiting(q)' /\ slice' = slice
            /\ UNCHANGED <<claimed, val, sent>>
            BY <2>1 DEF BeginRange, EndRange, ReturnReport, PassAbsent, Locals, Visiting,
                        ReportTypeOK
      <3>2. Taken(q, s, d)' = 0 /\ Loaded(q, s, d)' = 0
            BY <3>1 DEF Taken, Loaded, Visiting
      <3> QED
          BY <1>n, <1>t, <2>b, <3>1, <3>2
    <2>2. ASSUME NEW e \in Emails, LoadUp(q, e)
          PROVE  Goal
      <3>1. /\ pc[q] = "range" /\ pc'[q] = "loadDown" /\ slice' = slice
            /\ at'[q] = counter[e] /\ ld'[q]["up"] = val[counter[e]]["up"]
            /\ UNCHANGED <<claimed, val, sent>>
            BY <2>2 DEF LoadUp, ReportTypeOK
      <3>2. Taken(q, s, d) = 0 /\ Taken(q, s, d)' = 0
            BY <3>1 DEF Taken
      <3>3. Loaded(q, s, d)' = 0 \/ Loaded(q, s, d)' = val[s][d]
            BY <3>1 DEF Loaded
      <3> QED
          BY <1>n, <2>b, <3>1, <3>2, <3>3
    <2>3. CASE LoadDown(q)
      <3>1. /\ pc[q] = "loadDown" /\ slice' = slice /\ UNCHANGED <<claimed, val, sent>>
            BY <2>3 DEF LoadDown
      <3>2. Taken(q, s, d) = 0 /\ Taken(q, s, d)' = 0
            BY <2>3 DEF LoadDown, EndVisit, Taken, ReportTypeOK
      <3>3. Loaded(q, s, d)' \in {0, val[s][d], Loaded(q, s, d)}
        <4>1. CASE pc'[q] = "zeroUp"
          <5>1. /\ at' = at /\ ld'[q]["up"] = ld[q]["up"]
                /\ ld'[q]["down"] = val[at[q]]["down"]
                BY <2>3, <4>1 DEF LoadDown, EndVisit, ReportTypeOK
          <5> QED
              BY <3>1, <4>1, <5>1 DEF Loaded
        <4>2. CASE pc'[q] = "range"
              BY <4>2 DEF Loaded
        <4> QED
            BY <2>3, <4>1, <4>2 DEF LoadDown, EndVisit, ReportTypeOK
      <3> QED
          BY <1>n, <1>t, <2>b, <3>1, <3>2, <3>3
    <2>4. CASE ZeroUp(q)
      <3>1. /\ pc[q] = "zeroUp" /\ pc'[q] = "zeroDown" /\ at' = at /\ ld' = ld
            /\ slice' = slice /\ UNCHANGED <<claimed, sent>>
            BY <2>4 DEF ZeroUp, ReportTypeOK
      <3>2. Loaded(q, s, d)' = Loaded(q, s, d)
            BY <3>1 DEF Loaded
      <3>3. CASE at[q] = s /\ d = "up"
        <4>1. val'[s][d] = 0
              BY <2>4, <3>3 DEF ZeroUp, ReportTypeOK, Amounts
        <4>2. Taken(q, s, d)' = Loaded(q, s, d)
              BY <3>1, <3>3 DEF Taken, Loaded
        <4> QED
            BY <1>n, <1>t, <2>b, <3>1, <3>2, <4>1, <4>2
      <3>4. CASE ~(at[q] = s /\ d = "up")
        <4>1. val'[s][d] = val[s][d]
              BY <2>4, <3>4 DEF ZeroUp, ReportTypeOK, Amounts
        <4>2. Taken(q, s, d)' = 0 /\ Taken(q, s, d) = 0
              BY <3>1, <3>4 DEF Taken
        <4> QED
            BY <1>n, <1>t, <2>b, <3>1, <3>2, <4>1, <4>2
      <3> QED
          BY <3>3, <3>4
    <2>5. CASE ZeroDown(q)
      <3>1. /\ pc[q] = "zeroDown" /\ pc'[q] = "range" /\ UNCHANGED <<claimed, sent>>
            BY <2>5 DEF ZeroDown, EndVisit, ReportTypeOK
      <3>2. Taken(q, s, d)' = 0 /\ Loaded(q, s, d)' = 0
            BY <3>1 DEF Taken, Loaded
      <3>3. CASE at[q] = s
        <4>1. slice'[q][s][d] \in {slice[q][s][d], slice[q][s][d] + ld[q][d]}
              BY <2>5, <3>3 DEF ZeroDown, ReportTypeOK, Amounts
        <4>2. Loaded(q, s, d) = ld[q][d]
              BY <3>1, <3>3 DEF Loaded
        <4>3. CASE d = "up"
          <5>1. val'[s][d] = val[s][d] /\ Taken(q, s, d) = ld[q][d]
                BY <2>5, <3>1, <3>3, <4>3 DEF ZeroDown, ReportTypeOK, Amounts, Taken
          <5> QED
              BY <1>n, <2>b, <3>1, <3>2, <4>1, <4>2, <5>1
        <4>4. CASE d = "down"
          <5>1. val'[s][d] = 0
                BY <2>5, <3>3, <4>4 DEF ZeroDown, ReportTypeOK, Amounts
          <5> QED
              BY <1>n, <2>b, <3>1, <3>2, <4>1, <4>2, <5>1
        <4> QED
            BY <4>3, <4>4
      <3>4. CASE at[q] # s
        <4>1. slice'[q][s][d] = slice[q][s][d] /\ val'[s][d] = val[s][d]
              BY <2>5, <3>4 DEF ZeroDown, ReportTypeOK, Amounts
        <4> QED
            BY <1>n, <1>t, <2>b, <3>1, <3>2, <4>1
      <3> QED
          BY <3>3, <3>4
    <2>6. CASE Post(q)
      <3>1. /\ pc[q] = "post" /\ pc'[q] = "tail" /\ UNCHANGED <<val, sent>>
            /\ slice'[q][s][d] = 0
            BY <2>6 DEF Post, ReportTypeOK, Amounts, NoAmounts, Zero
      <3>2. Taken(q, s, d) = 0 /\ Taken(q, s, d)' = 0 /\ Loaded(q, s, d)' = 0
            BY <3>1 DEF Taken, Loaded
      <3>3. claimed'[s][d] \in {claimed[s][d], claimed[s][d] + slice[q][s][d]}
            BY <2>6 DEF Post, Credit
      <3> QED
          BY <1>n, <2>b, <3>1, <3>2, <3>3
    <2> QED
        BY <1>4, <2>1, <2>2, <2>3, <2>4, <2>5, <2>6 DEF RunStep
  <1>5. ASSUME NEW e \in Emails, NEW t \in Storages, OpenConn(e, t)
        PROVE  Goal
        BY <1>5, <1>b, <1>k DEF OpenConn, Taken, Loaded
  <1>6. ASSUME NEW t \in Storages, NEW e \in Dirs, Count(t, e)
        PROVE  Goal
    <2>1. /\ UNCHANGED <<claimed, slice>> /\ Live(q)
          /\ Taken(q, s, d)' = Taken(q, s, d) /\ Loaded(q, s, d)' = Loaded(q, s, d)
          BY <1>6, <1>k DEF Count, Taken, Loaded
    <2>2. \/ val'[s][d] = val[s][d] /\ sent'[s][d] = sent[s][d]
          \/ val'[s][d] = val[s][d] + 1 /\ sent'[s][d] = sent[s][d] + 1
          BY <1>6 DEF Count, ReportTypeOK, Amounts
    <2> QED
        BY <1>n, <1>t, <1>b, <2>1, <2>2
  <1>7. ASSUME NEW us \in SUBSET Emails, DelUsers(us) \/ AddUsers(us)
        PROVE  Goal
        BY <1>7, <1>b, <1>k DEF DelUsers, AddUsers, Taken, Loaded
  <1>8. CASE UNCHANGED vars
        BY <1>8, <1>b, <1>k DEF vars, reportVars, Taken, Loaded
  <1> QED
      BY <1>1, <1>2, <1>3, <1>4, <1>5, <1>6, <1>7, <1>8 DEF Next

-----------------------------------------------------------------------------
LEMMA TypeOKParts == TypeOK <=> TaskTypeOK /\ ReportTypeOK
  BY DEF TypeOK, ReportTypeOK

LEMMA InitAll == Init => TaskTypeOK /\ TaskInv /\ ReportTypeOK /\ ReportInv
  BY TaskInitInv, ReportInitInv DEF Init

LEMMA StepAll ==
    TaskTypeOK /\ TaskInv /\ ReportTypeOK /\ ReportInv /\ [Next]_vars
        => TaskTypeOK' /\ TaskInv' /\ ReportTypeOK' /\ ReportInv'
  <1> SUFFICES ASSUME TaskTypeOK, TaskInv, ReportTypeOK, ReportInv, [Next]_vars
               PROVE  TaskTypeOK' /\ TaskInv' /\ ReportTypeOK' /\ ReportInv'
      OBVIOUS
  <1>1. TaskTypeOK' /\ TaskInv'
        BY NextIsTaskStep, TaskTypeStep, TaskInvStep
  <1>2. PcMatchesRun /\ PcMatchesRun'
        BY PcStep DEF ReportInv
  <1>3. ReportTypeOK'
        BY <1>2, ReportTypeStep
  <1>4. CounterBacked'
        BY CounterStep
  <1>5. LiveBacked' /\ LiveLoaded'
        BY BackedStep DEF LiveBacked, LiveLoaded, BackedBy
  <1> QED
      BY <1>1, <1>2, <1>3, <1>4, <1>5 DEF ReportInv

(* Every variable of the reporting component keeps its type; in particular
   a counter never becomes negative, although it is reset while connections
   add to it. *)
THEOREM TrafficReportTypeCorrect == Spec => []TypeOK
  <1> QED
      BY InitAll, StepAll, TypeOKParts, PTL DEF Spec

(* The panel is never told of more traffic than connections counted
   (GetUserTrafficSlice and ReportUserTraffic, runs overlapping). *)
THEOREM TrafficNeverOverReported == Spec => []NoOverReport
  <1>1. ReportTypeOK /\ ReportInv => NoOverReport
    <2> SUFFICES ASSUME ReportTypeOK, ReportInv, NEW s \in Storages, NEW d \in Dirs
                 PROVE  claimed[s][d] <= sent[s][d]
        BY DEF NoOverReport
    <2>1. /\ claimed[s][d] + val[s][d] <= sent[s][d]
          /\ claimed[s][d] \in Nat /\ val[s][d] \in Nat /\ sent[s][d] \in Nat
          BY DEF ReportInv, CounterBacked, ReportTypeOK, Amounts
    <2> QED
        BY <2>1
  <1> QED
      BY InitAll, StepAll, <1>1, PTL DEF Spec
=============================================================================
