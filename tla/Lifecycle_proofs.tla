-------------------------- MODULE Lifecycle_proofs --------------------------
(***************************************************************************)
(* Proofs about Lifecycle, for any number of backends and settings and any *)
(* bounds: its types, that the kernel's rules match the running backends,  *)
(* and that a change reported once is not forgotten.                       *)
(***************************************************************************)
EXTENDS Lifecycle, TLAPS

(* The backends of a list. *)
In(s) == {s[i] : i \in DOMAIN s}

Distinct(s) == \A i, j \in DOMAIN s : s[i] = s[j] => i = j

(* What is left to be started is no backend twice and has no rule recorded;
   outside the loops over the backends nothing runs before a start. *)
TodoIsRight ==
    /\ Distinct(todo)
    /\ Starting => \A a \in In(todo) : hop[a] = None
    /\ pc \in {"load", "exited", "crashed", "dead", "killed", "quit"} => backends = <<>>

(* Only a running backend has a HopRules entry. *)
HopOfRunning == \A a \in Apis \ Running : hop[a] = None

(* Every recorded rule is in the kernel, and every other one that is there was
   left over. *)
RecordedInKernel == Recorded \subseteq rules
NoStrayRule == rules \ Recorded \subseteq leftover

RulesInv == TodoIsRight /\ HopOfRunning /\ RecordedInKernel /\ NoStrayRule
LifecycleInv == RulesInv /\ DetectedIsPending

-----------------------------------------------------------------------------
(* Lists of backends *)

LEMMA AppendIn ==
  ASSUME NEW s \in Seq(Apis), NEW a \in Apis
  PROVE  Append(s, a) \in Seq(Apis) /\ In(Append(s, a)) = In(s) \cup {a}
  <1>1. /\ Append(s, a) \in Seq(Apis) /\ Len(s) \in Nat
        /\ DOMAIN s = 1..Len(s) /\ DOMAIN Append(s, a) = 1..Len(s) + 1
        /\ \A i \in 1..Len(s) : Append(s, a)[i] = s[i]
        /\ Append(s, a)[Len(s) + 1] = a
        OBVIOUS
  <1>2. \A i \in 1..Len(s) + 1 : i \in 1..Len(s) \/ i = Len(s) + 1
        BY <1>1
  <1>3. \A i : i \in 1..Len(s) => i \in 1..Len(s) + 1
        BY <1>1
  <1>4. Len(s) + 1 \in 1..Len(s) + 1
        BY <1>1
  <1>5. \A x : x \in In(Append(s, a)) <=> x \in In(s) \/ x = a
        BY <1>1, <1>2, <1>3, <1>4 DEF In
  <1> QED
      BY <1>1, <1>5

LEMMA TailIn ==
  ASSUME NEW s \in Seq(Apis), s # <<>>
  PROVE  /\ Tail(s) \in Seq(Apis) /\ Head(s) \in Apis
         /\ In(s) = In(Tail(s)) \cup {Head(s)}
         /\ Distinct(s) => Distinct(Tail(s)) /\ Head(s) \notin In(Tail(s))
  <1>1. /\ Tail(s) \in Seq(Apis) /\ Head(s) \in Apis /\ Head(s) = s[1]
        /\ Len(s) \in Nat /\ Len(s) >= 1
        /\ DOMAIN s = 1..Len(s) /\ DOMAIN Tail(s) = 1..Len(s) - 1
        /\ \A i \in 1..Len(s) - 1 : Tail(s)[i] = s[i + 1]
        OBVIOUS
  <1>2. \A i \in 1..Len(s) - 1 : i + 1 \in 1..Len(s) /\ i + 1 # 1
        BY <1>1
  <1>3. \A i \in 1..Len(s) : i = 1 \/ (i - 1 \in 1..Len(s) - 1 /\ (i - 1) + 1 = i)
        BY <1>1
  <1>4. 1 \in 1..Len(s)
        BY <1>1
  <1>5. \A x : x \in In(s) => x \in In(Tail(s)) \/ x = Head(s)
    <2> SUFFICES ASSUME NEW i \in 1..Len(s)
                 PROVE  s[i] \in In(Tail(s)) \/ s[i] = Head(s)
        BY <1>1 DEF In
    <2>1. CASE i = 1
          BY <1>1, <2>1
    <2>2. CASE i - 1 \in 1..Len(s) - 1 /\ (i - 1) + 1 = i
      <3>1. Tail(s)[i - 1] = s[i]
            BY <1>1, <2>2
      <3> QED
          BY <1>1, <2>2, <3>1 DEF In
    <2> QED
        BY <1>3, <2>1, <2>2
  <1>6. \A x : x \in In(Tail(s)) \/ x = Head(s) => x \in In(s)
        BY <1>1, <1>2, <1>4 DEF In
  <1>7. ASSUME Distinct(s)
        PROVE  Distinct(Tail(s)) /\ Head(s) \notin In(Tail(s))
    <2>1. Head(s) \notin In(Tail(s))
          BY <1>1, <1>2, <1>4, <1>7 DEF In, Distinct
    <2>2. ASSUME NEW i \in 1..Len(s) - 1, NEW j \in 1..Len(s) - 1, Tail(s)[i] = Tail(s)[j]
          PROVE  i = j
      <3>1. s[i + 1] = s[j + 1] /\ i + 1 \in DOMAIN s /\ j + 1 \in DOMAIN s
            BY <1>1, <1>2, <2>2
      <3>2. i + 1 = j + 1
            BY <1>7, <3>1 DEF Distinct
      <3> QED
          BY <2>2, <3>2
    <2> QED
        BY <1>1, <2>1, <2>2 DEF Distinct
  <1> QED
      BY <1>1, <1>5, <1>6, <1>7

(* A file names backends, and none of them twice. *)
LEMMA FileIsList ==
  ASSUME NEW f \in Files \cup {FirstFile}, f # Broken
  PROVE  f \in Seq(Apis) /\ Distinct(f)
  BY FilesAssumption DEF Distinct

LEMMA RunningIn == Running = In(backends)
  BY DEF Running, In

LEMMA NothingIn == In(<<>>) = {} /\ <<>> \in Seq(Apis) /\ Distinct(<<>>)
  BY DEF In, Distinct

-----------------------------------------------------------------------------
(* The settings of a process that has just begun. *)
LEMMA NoSettingsType == NoSettings \in [Apis -> Settings]
  BY DEF NoSettings, Settings

(* The initial states have the types of the variables. *)
LEMMA LifecycleTypeInit == Init => TypeOK
  <1> SUFFICES ASSUME Init
               PROVE  TypeOK
      OBVIOUS
  <1> USE NoSettingsType DEF Init
  <1>2. todo \in Seq(Apis) /\ Running = {} /\ backends \in Seq(Apis)
        BY FileIsList, FilesAssumption, RunningIn, NothingIn
  <1>1. count \in [changes : 0..MaxChanges, edits : 0..MaxEdits, crashes : 0..MaxCrashes]
    <2>1. 0 \in 0..MaxChanges /\ 0 \in 0..MaxEdits /\ 0 \in 0..MaxCrashes
          BY BoundsAssumption
    <2> QED
        BY <2>1
  <1> QED
      BY <1>1, <1>2 DEF TypeOK, PcStates

(* What every panic and every other end of the process has in common. *)
AnyEnd ==
    \/ UsesClosedCore \/ KilledAtBoot \/ WatchFails
    \/ \E a \in Apis : MonitorPanics(a) \/ StartPanics(a) \/ ClosePanics(a)

LEMMA EndOfProcess ==
  ASSUME TypeOK, AnyEnd
  PROVE  /\ pc' \in {"crashed", "dead", "killed", "quit"}
         /\ todo' = <<>> /\ backends' = <<>> /\ hop' = NoSettings
         /\ applied' = NoSettings /\ seen' = NoSettings
         /\ busy' = {} /\ doomed' = {} /\ zombies' = {} /\ missed' = {}
         /\ reloadCh' = 0 /\ edited' = 0
         /\ remote' = remote /\ config' = config
         /\ rules' \subseteq rules /\ leftover' = (leftover \cup Recorded) \cap rules'
         /\ count' \in [changes : 0..MaxChanges, edits : 0..MaxEdits, crashes : 0..MaxCrashes]
  <1>1. \E as \in {"crashed", "dead", "killed", "quit"} : Ends(as)
        BY DEF AnyEnd, UsesClosedCore, KilledAtBoot, WatchFails, MonitorPanics, StartPanics,
               ClosePanics, Panics
  <1>2. rules' \subseteq rules
    <2>1. ASSUME NEW a \in Apis, ClosePanics(a)
          PROVE  rules' \subseteq rules
          BY <2>1 DEF ClosePanics, RemovesRule
    <2> QED
        BY <2>1 DEF AnyEnd, UsesClosedCore, KilledAtBoot, WatchFails, MonitorPanics, StartPanics
  <1>3. count' \in [changes : 0..MaxChanges, edits : 0..MaxEdits, crashes : 0..MaxCrashes]
    <2>1. Panics \/ count' = count
          BY DEF AnyEnd, UsesClosedCore, KilledAtBoot, WatchFails, MonitorPanics, StartPanics,
                 ClosePanics
    <2>2. Panics => count' = [count EXCEPT !.crashes = IF @ < MaxCrashes THEN @ + 1 ELSE @]
          BY DEF Panics
    <2> QED
        BY <2>1, <2>2, BoundsAssumption DEF TypeOK
  <1> QED
      BY <1>1, <1>2, <1>3 DEF Ends

(* Every step of the main loop, of a task and of the environment keeps the
   types. *)
LEMMA LifecycleTypeStep == TypeOK /\ [Next]_vars => TypeOK'
  <1> SUFFICES ASSUME TypeOK, [Next]_vars
               PROVE  TypeOK'
      OBVIOUS
  <1> USE BoundsAssumption, NoSettingsType
      DEF TypeOK, PcStates, vars, procVars, histVars, envVars, Running
  <1>1. CASE StartDone
        BY <1>1 DEF StartDone
  <1>2. CASE TakeReload
        BY <1>2 DEF TakeReload
  <1>3. CASE CloseDone
        BY <1>3 DEF CloseDone
  <1>4. CASE Load
    <2>1. todo' \in Seq(Apis)
          BY <1>4, FileIsList, NothingIn DEF Load
    <2> QED
        BY <1>4, <2>1 DEF Load
  <1>5. CASE ExitDone
        BY <1>5 DEF ExitDone
  <1>6. CASE TakeTermination
        BY <1>6 DEF TakeTermination
  <1>7. CASE WatchHandles
        BY <1>7 DEF WatchHandles, Signal
  <1>8. CASE Restart
        BY <1>8, FileIsList DEF Restart
  <1>9. ASSUME NEW a \in Apis, StartSkips(a)
        PROVE  TypeOK'
        BY <1>9, TailIn DEF StartSkips, Launching
  <1>10. ASSUME NEW a \in Apis, StartFailsHalfway(a)
        PROVE  TypeOK'
        BY <1>10, TailIn DEF StartFailsHalfway, Launching
  <1>11. ASSUME NEW a \in Apis, RunBegins(a)
        PROVE  TypeOK'
        BY <1>11 DEF RunBegins
  <1>12. ASSUME NEW a \in Apis, RunEnds(a)
        PROVE  TypeOK'
        BY <1>12 DEF RunEnds
  <1>13. ASSUME NEW a \in Apis, DoomedRunEnds(a)
        PROVE  TypeOK'
        BY <1>13 DEF DoomedRunEnds
  <1>14. ASSUME NEW a \in Apis, Detect(a)
        PROVE  TypeOK'
        BY <1>14 DEF Detect, Signal
  <1>15. ASSUME NEW a \in Apis, DecodeFails(a)
        PROVE  TypeOK'
        BY <1>15 DEF DecodeFails
  <1>16. ASSUME NEW a \in Apis, TaskTimesOut(a)
        PROVE  TypeOK'
        BY <1>16 DEF TaskTimesOut, Signal
  <1>17. ASSUME NEW a \in Apis, NEW s \in Settings, PanelChanges(a, s)
        PROVE  TypeOK'
    <2>1. count' \in [changes : 0..MaxChanges, edits : 0..MaxEdits, crashes : 0..MaxCrashes]
      <3>1. /\ count.changes \in 0..MaxChanges /\ MaxChanges \in Nat /\ count.changes < MaxChanges
            /\ count' = [count EXCEPT !.changes = @ + 1]
            BY <1>17 DEF PanelChanges
      <3>2. count.changes + 1 \in 0..MaxChanges
            BY <3>1
      <3> QED
          BY <3>1, <3>2
    <2>2. remote' \in [Apis -> Settings]
          BY <1>17 DEF PanelChanges
    <2> QED
        BY <1>17, <2>1, <2>2 DEF PanelChanges
  <1>18. ASSUME NEW c \in Files, FileEdited(c)
        PROVE  TypeOK'
    <2>1. count' \in [changes : 0..MaxChanges, edits : 0..MaxEdits, crashes : 0..MaxCrashes]
      <3>1. /\ count.edits \in 0..MaxEdits /\ MaxEdits \in Nat /\ count.edits < MaxEdits
            /\ count' = [count EXCEPT !.edits = @ + 1]
            BY <1>18 DEF FileEdited
      <3>2. count.edits + 1 \in 0..MaxEdits
            BY <3>1
      <3> QED
          BY <3>1, <3>2
    <2> QED
        BY <1>18, <2>1 DEF FileEdited
  <1>19. ASSUME NEW a \in Apis, StartSucceeds(a)
         PROVE  TypeOK'
    <2>1. todo' \in Seq(Apis)
          BY <1>19, TailIn DEF StartSucceeds, Launching
    <2>2. backends' \in Seq(Apis) /\ In(backends') = In(backends) \cup {a}
          BY <1>19, AppendIn DEF StartSucceeds
    <2>3. Running \subseteq Running'
          BY <2>2 DEF In
    <2>4. rules' \in SUBSET (Apis \X Hops) /\ leftover' \in SUBSET rules'
          BY <1>19 DEF StartSucceeds, RemovesRule, Rule, Settings
    <2> QED
        BY <1>19, <2>1, <2>2, <2>3, <2>4 DEF StartSucceeds
  <1>20. ASSUME NEW a \in Apis, CloseBackend(a)
         PROVE  TypeOK'
    <2>1. backends' \in Seq(Apis) /\ In(backends) = In(backends') \cup {a}
          BY <1>20, TailIn DEF CloseBackend, Closing
    <2>2. Running \ {a} \subseteq Running'
          BY <2>1 DEF In
    <2>3. rules' \in SUBSET (Apis \X Hops) /\ leftover' \in SUBSET rules'
          BY <1>20 DEF CloseBackend, RemovesRule
    <2>4. None \in Settings
          BY DEF Settings
    <2> QED
        BY <1>20, <2>1, <2>2, <2>3, <2>4 DEF CloseBackend
  <1>21. CASE AnyEnd
    <2>1. /\ pc' \in {"crashed", "dead", "killed", "quit"}
          /\ todo' = <<>> /\ backends' = <<>> /\ hop' = NoSettings
          /\ applied' = NoSettings /\ seen' = NoSettings
          /\ busy' = {} /\ doomed' = {} /\ zombies' = {} /\ missed' = {}
          /\ reloadCh' = 0 /\ edited' = 0
          /\ remote' = remote /\ config' = config
          /\ rules' \subseteq rules /\ leftover' \subseteq rules'
          /\ count' \in [changes : 0..MaxChanges, edits : 0..MaxEdits, crashes : 0..MaxCrashes]
          BY <1>21, EndOfProcess
    <2>2. <<>> \in Seq(Apis)
          BY NothingIn
    <2> QED
        BY <2>1, <2>2
  <1>22. CASE UNCHANGED vars
         BY <1>22
  <1> QED
      BY <1>1, <1>2, <1>3, <1>4, <1>5, <1>6, <1>7, <1>8, <1>9, <1>10, <1>11, <1>12, <1>13, <1>14, <1>15, <1>16, <1>17, <1>18, <1>19, <1>20, <1>21, <1>22
      DEF Next, MainStep, AnyEnd

(* Every step leaves a reported change pending. *)
LEMMA PendingStep ==
    TypeOK /\ TodoIsRight /\ DetectedIsPending /\ [Next]_vars => DetectedIsPending'
  <1> SUFFICES ASSUME TypeOK, TodoIsRight, DetectedIsPending, [Next]_vars
               PROVE  DetectedIsPending'
      OBVIOUS
  <1> USE DEF TypeOK, vars, procVars, envVars, histVars, Alive, Starting, TodoIsRight,
              DetectedIsPending, Running
  <1>1. CASE StartDone
        BY <1>1 DEF StartDone
  <1>2. CASE TakeReload
        BY <1>2 DEF TakeReload
  <1>3. CASE CloseDone
        BY <1>3 DEF CloseDone
  <1>4. CASE Load
        BY <1>4 DEF Load
  <1>5. CASE ExitDone
        BY <1>5 DEF ExitDone
  <1>6. CASE TakeTermination
        BY <1>6 DEF TakeTermination
  <1>7. CASE WatchHandles
        BY <1>7 DEF WatchHandles, Signal
  <1>8. CASE Restart
        BY <1>8 DEF Restart
  <1>9. ASSUME NEW a \in Apis, StartSkips(a)
        PROVE  DetectedIsPending'
        BY <1>9 DEF StartSkips
  <1>10. ASSUME NEW a \in Apis, StartFailsHalfway(a)
        PROVE  DetectedIsPending'
        BY <1>10 DEF StartFailsHalfway
  <1>11. ASSUME NEW a \in Apis, RunBegins(a)
        PROVE  DetectedIsPending'
        BY <1>11 DEF RunBegins
  <1>12. ASSUME NEW a \in Apis, RunEnds(a)
        PROVE  DetectedIsPending'
        BY <1>12 DEF RunEnds
  <1>13. ASSUME NEW a \in Apis, DoomedRunEnds(a)
        PROVE  DetectedIsPending'
        BY <1>13 DEF DoomedRunEnds
  <1>14. ASSUME NEW a \in Apis, Detect(a)
        PROVE  DetectedIsPending'
        BY <1>14 DEF Detect, Signal
  <1>15. ASSUME NEW a \in Apis, DecodeFails(a)
        PROVE  DetectedIsPending'
        BY <1>15 DEF DecodeFails
  <1>16. ASSUME NEW a \in Apis, TaskTimesOut(a)
        PROVE  DetectedIsPending'
        BY <1>16 DEF TaskTimesOut, Signal
  <1>17. ASSUME NEW a \in Apis, NEW s \in Settings, PanelChanges(a, s)
        PROVE  DetectedIsPending'
        BY <1>17 DEF PanelChanges
  <1>18. ASSUME NEW c \in Files, FileEdited(c)
        PROVE  DetectedIsPending'
        BY <1>18 DEF FileEdited
  <1>19. ASSUME NEW a \in Apis, StartSucceeds(a)
         PROVE  DetectedIsPending'
    <2>1. In(backends') = In(backends) \cup {a}
          BY <1>19, AppendIn DEF StartSucceeds
    <2> QED
        BY <1>19, <2>1 DEF StartSucceeds, Launching, In
  <1>20. ASSUME NEW a \in Apis, CloseBackend(a)
         PROVE  DetectedIsPending'
         BY <1>20 DEF CloseBackend, Closing
  <1>21. CASE AnyEnd
         BY <1>21, EndOfProcess
  <1>22. CASE UNCHANGED vars
         BY <1>22 DEF histVars
  <1> QED
      BY <1>1, <1>2, <1>3, <1>4, <1>5, <1>6, <1>7, <1>8, <1>9, <1>10, <1>11, <1>12, <1>13, <1>14, <1>15, <1>16, <1>17, <1>18, <1>19, <1>20, <1>21, <1>22
      DEF Next, MainStep, AnyEnd

(* Which rules are recorded. *)
LEMMA RecordedRules ==
    \A x : x \in Recorded <=> \E a \in Apis : hop[a] # None /\ x = <<a, hop[a]>>
  BY DEF Recorded, Rule

(* The rules: a rule is recorded when it is made, and what is removed is what
   was recorded. *)
LEMMA RulesStep == TypeOK /\ RulesInv /\ [Next]_vars => RulesInv'
  <1> SUFFICES ASSUME TypeOK, RulesInv, [Next]_vars
               PROVE  RulesInv'
      OBVIOUS
  <1> USE DEF vars, procVars, envVars, histVars, Starting
  <1>a. ASSUME UNCHANGED <<hop, rules, leftover, backends>>, Distinct(todo'),
               Starting' => \A a \in In(todo') : hop[a] = None,
               pc' \in {"load", "exited", "crashed", "dead", "killed", "quit"} => backends = <<>>
        PROVE  RulesInv'
    <2>1. Recorded' = Recorded /\ Running' = Running
          BY <1>a DEF Recorded, Running
    <2> QED
        BY <1>a, <2>1 DEF RulesInv, TodoIsRight, HopOfRunning, RecordedInKernel, NoStrayRule
  <1>b. ASSUME NEW a, Launching(a)
        PROVE  /\ a \in Apis /\ hop[a] = None /\ Distinct(Tail(todo))
               /\ a \notin In(Tail(todo)) /\ \A x \in In(Tail(todo)) : hop[x] = None
        BY <1>b, TailIn DEF Launching, RulesInv, TodoIsRight, TypeOK
  <1>c. ASSUME config # Broken, backends = <<>>
        PROVE  Distinct(config) /\ \A a \in In(config) : hop[a] = None
    <2>1. config \in Seq(Apis) /\ Distinct(config)
          BY <1>c, FileIsList DEF TypeOK
    <2>2. \A a \in In(config) : a \in Apis
          BY <2>1 DEF In
    <2> QED
        BY <1>c, <2>1, <2>2, NothingIn, RunningIn DEF RulesInv, HopOfRunning
  <1>d. /\ Distinct(todo) /\ (Starting => \A a \in In(todo) : hop[a] = None)
        /\ pc \in {"load", "exited", "crashed", "dead", "killed", "quit"} => backends = <<>>
        BY DEF RulesInv, TodoIsRight
  <1>1. CASE StartDone
        BY <1>1, <1>a, <1>d DEF StartDone
  <1>2. CASE TakeReload
        BY <1>2, <1>a, <1>d DEF TakeReload
  <1>3. CASE CloseDone
        BY <1>3, <1>a, <1>d DEF CloseDone
  <1>4. CASE Load
        BY <1>4, <1>a, <1>c, <1>d, NothingIn DEF Load
  <1>5. CASE ExitDone
        BY <1>5, <1>a, <1>d DEF ExitDone
  <1>6. CASE TakeTermination
        BY <1>6, <1>a, <1>d DEF TakeTermination
  <1>7. CASE WatchHandles
        BY <1>7, <1>a, <1>d DEF WatchHandles
  <1>8. CASE Restart
        BY <1>8, <1>a, <1>c, <1>d, NothingIn DEF Restart
  <1>9. ASSUME NEW a \in Apis, StartSkips(a)
        PROVE  RulesInv'
        BY <1>9, <1>a, <1>b, <1>d DEF StartSkips, Launching
  <1>10. ASSUME NEW a \in Apis, StartFailsHalfway(a)
        PROVE  RulesInv'
        BY <1>10, <1>a, <1>b, <1>d DEF StartFailsHalfway, Launching
  <1>11. ASSUME NEW a \in Apis, RunBegins(a)
        PROVE  RulesInv'
        BY <1>11, <1>a, <1>d DEF RunBegins
  <1>12. ASSUME NEW a \in Apis, RunEnds(a)
        PROVE  RulesInv'
        BY <1>12, <1>a, <1>d DEF RunEnds
  <1>13. ASSUME NEW a \in Apis, DoomedRunEnds(a)
        PROVE  RulesInv'
        BY <1>13, <1>a, <1>d DEF DoomedRunEnds
  <1>14. ASSUME NEW a \in Apis, Detect(a)
        PROVE  RulesInv'
        BY <1>14, <1>a, <1>d DEF Detect
  <1>15. ASSUME NEW a \in Apis, DecodeFails(a)
        PROVE  RulesInv'
        BY <1>15, <1>a, <1>d DEF DecodeFails
  <1>16. ASSUME NEW a \in Apis, TaskTimesOut(a)
        PROVE  RulesInv'
        BY <1>16, <1>a, <1>d DEF TaskTimesOut
  <1>17. ASSUME NEW a \in Apis, NEW s \in Settings, PanelChanges(a, s)
        PROVE  RulesInv'
        BY <1>17, <1>a, <1>d DEF PanelChanges
  <1>18. ASSUME NEW c \in Files, FileEdited(c)
        PROVE  RulesInv'
        BY <1>18, <1>a, <1>d DEF FileEdited
  <1>19. ASSUME NEW a \in Apis, StartSucceeds(a)
         PROVE  RulesInv'
    <2>1. /\ hop[a] = None /\ Distinct(Tail(todo)) /\ a \notin In(Tail(todo))
          /\ \A x \in In(Tail(todo)) : hop[x] = None
          BY <1>19, <1>b DEF StartSucceeds
    <2>2. Running' = Running \cup {a}
      <3>1. In(Append(backends, a)) = In(backends) \cup {a}
            BY AppendIn DEF TypeOK
      <3> QED
          BY <1>19, <3>1 DEF StartSucceeds, Running, In
    <2>3. Starting /\ pc' = pc /\ todo' = Tail(todo)
          BY <1>19 DEF StartSucceeds, Launching
    <2>4. hop' = [hop EXCEPT ![a] = remote[a]] \/ hop' = hop
          BY <1>19 DEF StartSucceeds
    <2>5. TodoIsRight' /\ HopOfRunning'
      <3>1. \A x \in Apis \ {a} : hop'[x] = hop[x]
            BY <2>4 DEF TypeOK
      <3>2. In(Tail(todo)) \subseteq Apis \ {a}
            BY <1>19, <2>1, TailIn DEF StartSucceeds, Launching, In, TypeOK
      <3> QED
          BY <2>1, <2>2, <2>3, <3>1, <3>2 DEF RulesInv, TodoIsRight, HopOfRunning
    <2>6. CASE /\ hop' = [hop EXCEPT ![a] = remote[a]]
               /\ rules' = rules \cup Rule(a, remote[a])
               /\ leftover' = leftover \ Rule(a, remote[a])
      <3>1. Recorded' = Recorded \cup Rule(a, remote[a])
            BY <2>1, <2>6 DEF Recorded, Rule, TypeOK
      <3> QED
          BY <2>5, <2>6, <3>1 DEF RulesInv, RecordedInKernel, NoStrayRule
    <2>7. CASE hop' = hop /\ RemovesRule(a, remote[a]) /\ leftover' = leftover \cap rules'
      <3>1. Recorded' = Recorded
            BY <2>7 DEF Recorded
      <3>2. Recorded \cap Rule(a, remote[a]) = {}
            BY <2>1, RecordedRules DEF Rule
      <3>3. rules' \subseteq rules /\ rules \ Rule(a, remote[a]) \subseteq rules'
            BY <2>7 DEF RemovesRule
      <3> QED
          BY <2>5, <2>7, <3>1, <3>2, <3>3 DEF RulesInv, RecordedInKernel, NoStrayRule
    <2> QED
        BY <1>19, <2>6, <2>7 DEF StartSucceeds
  <1>20. ASSUME NEW a \in Apis, CloseBackend(a)
         PROVE  RulesInv'
    <2>1. /\ hop' = [hop EXCEPT ![a] = None] /\ RemovesRule(a, hop[a])
          /\ leftover' = (leftover \cup Rule(a, hop[a])) \cap rules'
          /\ pc' = pc /\ pc \in {"close", "exit"} /\ todo' = todo
          BY <1>20 DEF CloseBackend, Closing
    <2>2. Recorded' = Recorded \ Rule(a, hop[a])
          BY <2>1 DEF Recorded, Rule, TypeOK
    <2>3. rules' \subseteq rules /\ rules \ Rule(a, hop[a]) \subseteq rules'
          BY <2>1 DEF RemovesRule
    <2>4. Running \ {a} \subseteq Running'
      <3>1. In(backends) = In(Tail(backends)) \cup {a}
            BY <1>20, TailIn DEF CloseBackend, Closing, TypeOK
      <3> QED
          BY <1>20, <3>1 DEF CloseBackend, Running, In
    <2>5. HopOfRunning'
          BY <2>1, <2>4 DEF RulesInv, HopOfRunning, TypeOK
    <2>6. TodoIsRight'
          BY <2>1 DEF RulesInv, TodoIsRight
    <2> QED
        BY <2>1, <2>2, <2>3, <2>5, <2>6 DEF RulesInv, RecordedInKernel, NoStrayRule
  <1>21. CASE AnyEnd
    <2>1. Recorded' = {}
          BY <1>21, EndOfProcess DEF Recorded, Rule, NoSettings
    <2>2. HopOfRunning' /\ TodoIsRight'
          BY <1>21, EndOfProcess, NothingIn DEF HopOfRunning, TodoIsRight, NoSettings
    <2>3. rules' \subseteq rules /\ leftover' = (leftover \cup Recorded) \cap rules'
          BY <1>21, EndOfProcess
    <2> QED
        BY <2>1, <2>2, <2>3 DEF RulesInv, RecordedInKernel, NoStrayRule
  <1>22. CASE UNCHANGED vars
         BY <1>22, <1>a, <1>d
  <1> QED
      BY <1>1, <1>2, <1>3, <1>4, <1>5, <1>6, <1>7, <1>8, <1>9, <1>10, <1>11, <1>12, <1>13, <1>14, <1>15, <1>16, <1>17, <1>18, <1>19, <1>20, <1>21, <1>22
      DEF Next, MainStep, AnyEnd

(* The initial states satisfy the invariant. *)
LEMMA LifecycleInitInv == Init => LifecycleInv
  <1> SUFFICES ASSUME Init
               PROVE  LifecycleInv
      OBVIOUS
  <1>1. Recorded = {} /\ Running = {}
        BY NothingIn, RunningIn DEF Init, Recorded, Rule, NoSettings
  <1>2. TodoIsRight
    <2>1. FirstFile \in Seq(Apis) /\ Distinct(FirstFile)
          BY FileIsList, FilesAssumption
    <2>2. \A a \in In(FirstFile) : a \in Apis
          BY <2>1 DEF In
    <2> QED
        BY <2>1, <2>2 DEF Init, TodoIsRight, NoSettings
  <1> QED
      BY <1>1, <1>2 DEF Init, LifecycleInv, RulesInv, HopOfRunning, RecordedInKernel,
                        NoStrayRule, DetectedIsPending, NoSettings

(* Every step keeps the invariant. *)
LEMMA LifecycleInvStep == TypeOK /\ LifecycleInv /\ [Next]_vars => LifecycleInv'
  BY PendingStep, RulesStep DEF LifecycleInv, RulesInv

(* Every variable of Lifecycle keeps its type. *)
THEOREM LifecycleTypeCorrect == Spec => []TypeOK
  <1> QED
      BY LifecycleTypeInit, LifecycleTypeStep, PTL DEF Spec

(* A change that a monitor has seen and could decode is still to be applied:
   the signal is queued or a reload is under way (core/xray.go, cmd/server.go). *)
THEOREM LifecyclePending == Spec => []DetectedIsPending
  <1>1. LifecycleInv => DetectedIsPending
        BY DEF LifecycleInv
  <1> QED
      BY <1>1, LifecycleTypeInit, LifecycleTypeStep, LifecycleInitInv, LifecycleInvStep, PTL DEF Spec

(* Whatever is reloaded, fails to start, panics or ends: the rules of the
   running backends are in the kernel, and every other one is one that iptables
   failed to remove or that a process left (cmd/server.go, common/portmap). *)
THEOREM LifecycleRulesMatch == Spec => []RulesMatchBackends
  <1>1. LifecycleInv => RulesMatchBackends
        BY DEF LifecycleInv, RulesInv, RulesMatchBackends, RecordedInKernel, NoStrayRule
  <1> QED
      BY <1>1, LifecycleTypeInit, LifecycleTypeStep, LifecycleInitInv, LifecycleInvStep, PTL DEF Spec
=============================================================================
