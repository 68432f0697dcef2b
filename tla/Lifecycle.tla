----------------------------- MODULE Lifecycle -----------------------------
(***************************************************************************)
(* The main loop of the server (cmd/server.go): it starts the configured   *)
(* backends one by one, waits for a termination or a reload signal, and    *)
(* reloads by closing every backend, reading the configuration file and    *)
(* starting them again.  A backend is an Xray core with a monitor of the   *)
(* panel's configuration (core/xray.go), the controllers with their        *)
(* periodic tasks (node/node.go, node/controller.go), and the iptables     *)
(* rule of its port hopping (common/portmap), which lives in the kernel    *)
(* and outlives the process.                                               *)
(* A panic anywhere ends the process; systemd starts it again.             *)
(***************************************************************************)
EXTENDS Naturals, FiniteSets, Sequences

CONSTANTS
    Apis,        \* the backends a configuration may name
    Hops,        \* port-hopping settings
    None,        \* no port hopping
    Broken,      \* a configuration file that does not parse
    FirstFile,   \* the configuration file at first: its backends, in order
    Files,       \* what it may be edited to
    Partial,     \* the settings in which one of the protocols is not enabled
    Faulty,      \* the backends whose panel may send no data, or outbounds that
                 \* do not build
    RemovalFails, \* may iptables fail to remove a rule
    MaxChanges,  \* changes of the panel's settings (a bound)
    MaxEdits,    \* edits of the configuration file (a bound)
    MaxCrashes   \* panics in a task or at a start (a bound)

ASSUME NoneAssumption == None \notin Hops
ASSUME FilesAssumption ==
    /\ FirstFile # Broken
    /\ \A f \in Files \cup {FirstFile} :
        f # Broken => /\ f \in Seq(Apis)
                      /\ \A i, j \in DOMAIN f : f[i] = f[j] => i = j
ASSUME FaultyAssumption == Faulty \subseteq Apis
ASSUME RemovalFailsAssumption == RemovalFails \in BOOLEAN
ASSUME BoundsAssumption == {MaxChanges, MaxEdits, MaxCrashes} \subseteq Nat

Settings == Hops \cup {None}

ASSUME PartialAssumption == Partial \subseteq Settings

(* The kernel rule of a backend's setting.  Its comment holds the service
   port, which no two running backends share. *)
Rule(a, s) == IF s = None THEN {} ELSE {<<a, s>>}

VARIABLES
    pc,        \* where the main goroutine is
    todo,      \* the backends it has still to start, in their order
    backends,  \* the running backends, in the order they were started
    applied,   \* the setting a running backend was started with
    seen,      \* the setting its monitor has seen last
    hop,       \* its HopRules
    busy,      \* running backends with a task's run in progress
    doomed,    \* runs in progress of a core that has been closed
    zombies,   \* backends whose start failed with tasks of theirs running
    reloadCh,  \* signals in the reload channel (capacity 1)
    rules,     \* the kernel's DNAT rules
    remote,    \* the panel's setting for each backend
    config,    \* the configuration file: its backends, or Broken
    edited,    \* whether the watcher has an edit to handle (0 or 1)
    count,     \* history: how often the bounded events happened
    missed,    \* history: the running backends whose monitor took an answer
               \* it could not decode for the panel's setting
    leftover   \* history: the rules that iptables failed to remove when their
               \* backend was closed, or that a process left when it ended

procVars == <<todo, backends, applied, seen, hop, busy, doomed, zombies, reloadCh>>
histVars == <<count, missed, leftover>>
envVars == <<remote, config, edited>>
vars == <<pc, procVars, rules, envVars, histVars>>

(* "boot" is the first startBackends of the process, "start" that of a reload.
   "exited": the process was asked to exit and did; "dead": it was, and
   panicked; "killed": the signal came before it had a handler; "quit": the
   file could not be watched, and serverHandle returned. *)
PcStates == {"boot", "start", "select", "close", "load", "exit",
             "exited", "crashed", "dead", "killed", "quit"}

Running == {backends[i] : i \in DOMAIN backends}

TypeOK ==
    /\ pc \in PcStates
    /\ todo \in Seq(Apis) /\ backends \in Seq(Apis)
    /\ applied \in [Apis -> Settings] /\ seen \in [Apis -> Settings]
    /\ hop \in [Apis -> Settings]
    /\ busy \in SUBSET Running /\ missed \in SUBSET Running
    /\ doomed \in SUBSET Apis /\ zombies \in SUBSET Apis
    /\ reloadCh \in 0..1
    /\ rules \in SUBSET (Apis \X Hops) /\ leftover \in SUBSET rules
    /\ remote \in [Apis -> Settings]
    /\ config \in Files \cup {FirstFile}
    /\ edited \in 0..1
    /\ count \in [changes : 0..MaxChanges, edits : 0..MaxEdits, crashes : 0..MaxCrashes]

NoSettings == [a \in Apis |-> None]

Init ==
    /\ pc = "boot"
    /\ config = FirstFile /\ todo = FirstFile
    /\ backends = <<>> /\ applied = NoSettings /\ seen = NoSettings /\ hop = NoSettings
    /\ busy = {} /\ doomed = {} /\ zombies = {} /\ missed = {}
    /\ reloadCh = 0
    /\ rules = {} /\ leftover = {}
    /\ remote \in [Apis -> Settings]
    /\ edited = 0
    /\ count = [changes |-> 0, edits |-> 0, crashes |-> 0]

-----------------------------------------------------------------------------
(* Environment: the panel's settings and the file change. *)

PanelChanges(a, s) ==
    /\ count.changes < MaxChanges
    /\ s # remote[a]
    /\ remote' = [remote EXCEPT ![a] = s]
    /\ count' = [count EXCEPT !.changes = @ + 1]
    /\ UNCHANGED <<pc, procVars, rules, config, edited, missed, leftover>>

Alive == pc \notin {"exited", "crashed", "dead", "killed", "quit"}

(* The watcher is set up after the first startBackends. *)
FileEdited(c) ==
    /\ count.edits < MaxEdits
    /\ config' = c
    /\ edited' = IF Alive /\ pc # "boot" THEN 1 ELSE 0
    /\ count' = [count EXCEPT !.edits = @ + 1]
    /\ UNCHANGED <<pc, procVars, rules, remote, missed, leftover>>

Recorded == UNION {Rule(a, hop[a]) : a \in Apis}

(* The process ends: everything but the kernel's rules and the outside world
   is gone, and the rules it had recorded are left over. *)
Ends(as) ==
    /\ pc' = as
    /\ todo' = <<>> /\ backends' = <<>>
    /\ applied' = NoSettings /\ seen' = NoSettings /\ hop' = NoSettings
    /\ busy' = {} /\ doomed' = {} /\ zombies' = {} /\ missed' = {}
    /\ reloadCh' = 0
    /\ edited' = 0
    /\ leftover' = (leftover \cup Recorded) \cap rules'
    /\ UNCHANGED <<remote, config>>

(* A panic.  A process that was asked to exit is not started again. *)
Panics ==
    /\ Ends(IF pc = "exit" THEN "dead" ELSE "crashed")
    /\ count' = [count EXCEPT !.crashes = IF @ < MaxCrashes THEN @ + 1 ELSE @]

-----------------------------------------------------------------------------
(* The reload channel: a non-blocking send into a channel of capacity 1. *)

Signal_Unbuffered == reloadCh' = IF pc = "select" THEN 1 ELSE reloadCh  \* Mutant
Signal_Blocking == reloadCh' = reloadCh + 1                             \* Mutant
Signal == reloadCh' = 1

(* ServerConfigMonitor of a running core sees that the panel's setting is
   not the one it saw last. *)
Detect(a) ==
    /\ Alive
    /\ a \in Running
    /\ seen[a] # remote[a]
    /\ seen' = [seen EXCEPT ![a] = remote[a]]
    /\ missed' = missed \ {a}
    /\ Signal
    /\ UNCHANGED <<pc, todo, backends, applied, hop, busy, doomed, zombies,
                   rules, envVars, count, leftover>>

(* GetServerConfig keeps the answer's hash and ETag before it decodes the body.
   If that fails, or names no protocols, the monitor returns without a signal,
   and the panel answers 304 until its setting changes again.  (A panel that
   sends no ETag is asked again, and Detect is what follows.) *)
DecodeFails(a) ==
    /\ Alive
    /\ a \in Running
    /\ seen[a] # remote[a]
    /\ seen' = [seen EXCEPT ![a] = remote[a]]
    /\ missed' = missed \cup {a}
    /\ UNCHANGED <<pc, todo, backends, applied, hop, busy, doomed, zombies, reloadCh,
                   rules, envVars, count, leftover>>

(* The monitor receives an answer without data: GetServerConfig panics. *)
MonitorPanics(a) ==
    /\ Alive
    /\ a \in Running \cap Faulty
    /\ count.crashes < MaxCrashes
    /\ UNCHANGED rules
    /\ Panics

(* A run of a task is timed out (common/task); the loop of a task does not
   end with its core. *)
TaskTimesOut(a) ==
    /\ Alive
    /\ a \in busy \cup doomed \cup zombies
    /\ Signal
    /\ UNCHANGED <<pc, todo, backends, applied, seen, hop, busy, doomed, zombies,
                   rules, envVars, histVars>>

(* The watcher signals an edit 5 s after it, and ignores one within 10 s of
   the edit it handled last. *)
WatchHandles ==
    /\ edited = 1
    /\ edited' = 0
    /\ Signal \/ reloadCh' = reloadCh
    /\ UNCHANGED <<pc, todo, backends, applied, seen, hop, busy, doomed, zombies,
                   rules, remote, config, histVars>>

-----------------------------------------------------------------------------
(* The tasks of the controllers of a backend *)

RunBegins(a) ==
    /\ Alive
    /\ a \in Running \ busy
    /\ busy' = busy \cup {a}
    /\ UNCHANGED <<pc, todo, backends, applied, seen, hop, doomed, zombies, reloadCh,
                   rules, envVars, histVars>>

RunEnds(a) ==
    /\ Alive
    /\ a \in busy
    /\ busy' = busy \ {a}
    /\ UNCHANGED <<pc, todo, backends, applied, seen, hop, doomed, zombies, reloadCh,
                   rules, envVars, histVars>>

(* A run whose core was closed under it ends without using the core. *)
DoomedRunEnds(a) ==
    /\ Alive
    /\ a \in doomed
    /\ doomed' = doomed \ {a}
    /\ UNCHANGED <<pc, todo, backends, applied, seen, hop, busy, zombies, reloadCh,
                   rules, envVars, histVars>>

(* Close has set the core's ihm and dispatcher to nil: a run or a task that
   uses them panics. *)
UsesClosedCore ==
    /\ Alive
    /\ doomed \cup zombies # {}
    /\ count.crashes < MaxCrashes
    /\ UNCHANGED rules
    /\ Panics

(* signal.Notify comes after the first startBackends: until then SIGTERM ends
   the process at once. *)
KilledAtBoot ==
    /\ pc = "boot"
    /\ UNCHANGED <<rules, count>>
    /\ Ends("killed")

(* Watch fails after the first startBackends: serverHandle returns, and closes
   no backend. *)
WatchFails ==
    /\ pc = "boot" /\ todo = <<>>
    /\ UNCHANGED <<rules, count>>
    /\ Ends("quit")

(* systemd; a process that cannot read its configuration ends at once. *)
Restart ==
    /\ pc \in {"crashed", "quit"}
    /\ config # Broken
    /\ pc' = "boot"
    /\ todo' = config
    /\ UNCHANGED <<backends, applied, seen, hop, busy, doomed, zombies, reloadCh,
                   rules, envVars, histVars>>

-----------------------------------------------------------------------------
(* startBackends: the body of its loop for one backend, in the order of the
   file. *)

Starting == pc \in {"boot", "start"}
Launching(a) == Starting /\ todo # <<>> /\ a = Head(todo)

(* GetServerConfig looks for the protocols of an answer without data, or
   GetCustomConfig fails and getCoreConfig panics: it is not that backend that
   is skipped, the process ends. *)
StartPanics(a) ==
    /\ Launching(a) /\ a \in Faulty
    /\ count.crashes < MaxCrashes
    /\ UNCHANGED rules
    /\ Panics

(* The configuration cannot be fetched or the core does not start: the
   backend is skipped. *)
StartSkips(a) ==
    /\ Launching(a)
    /\ todo' = Tail(todo)
    /\ UNCHANGED <<pc, backends, applied, seen, hop, busy, doomed, zombies, reloadCh,
                   rules, envVars, histVars>>

(* nodes.Start fails: the core is closed, but the controllers that had been
   started are not, and their tasks go on. *)
StartFailsHalfway(a) ==
    /\ Launching(a)
    /\ todo' = Tail(todo)
    /\ zombies' = zombies \cup {a}
    /\ UNCHANGED <<pc, backends, applied, seen, hop, busy, doomed, reloadCh,
                   rules, envVars, histVars>>

(* removeByComment tells nobody when iptables -S or -D fails. *)
RemovesRule(a, s) ==
    \/ rules' = rules \ Rule(a, s)
    \/ RemovalFails /\ rules' = rules

(* The backend runs.  ApplyHopPorts replaces a rule with the same comment; if
   iptables cannot add it none is recorded. *)
StartSucceeds(a) ==
    /\ Launching(a)
    /\ todo' = Tail(todo)
    /\ backends' = Append(backends, a)
    /\ applied' = [applied EXCEPT ![a] = remote[a]]
    /\ seen' = [seen EXCEPT ![a] = remote[a]]
    /\ \/ /\ hop' = [hop EXCEPT ![a] = remote[a]]
          /\ rules' = rules \cup Rule(a, remote[a])
          /\ leftover' = leftover \ Rule(a, remote[a])
       \/ /\ hop' = hop
          /\ RemovesRule(a, remote[a])
          /\ leftover' = leftover \cap rules'
    /\ UNCHANGED <<pc, busy, doomed, zombies, reloadCh, envVars, count, missed>>

StartDone ==
    /\ Starting /\ todo = <<>>
    /\ pc' = "select"
    /\ UNCHANGED <<procVars, rules, envVars, histVars>>

-----------------------------------------------------------------------------
(* The select of serverHandle *)

TakeReload ==
    /\ pc = "select" /\ reloadCh = 1
    /\ reloadCh' = 0
    /\ pc' = "close"
    /\ UNCHANGED <<todo, backends, applied, seen, hop, busy, doomed, zombies,
                   rules, envVars, histVars>>

TakeTermination ==
    /\ pc = "select"
    /\ pc' = "exit"
    /\ UNCHANGED <<procVars, rules, envVars, histVars>>

(* Both loops over the backends go in the order they were started. *)
Closing(a) == pc \in {"close", "exit"} /\ backends # <<>> /\ a = Head(backends)

(* Mutant: the rule to remove is made from the setting seen last. *)
CloseBackend_Seen(a) ==
    /\ Closing(a)
    /\ applied[a] \notin Partial
    /\ backends' = Tail(backends)
    /\ RemovesRule(a, seen[a])
    /\ leftover' = (leftover \cup Rule(a, seen[a])) \cap rules'
    /\ hop' = [hop EXCEPT ![a] = None]
    /\ applied' = [applied EXCEPT ![a] = None]
    /\ seen' = [seen EXCEPT ![a] = None]
    /\ busy' = busy \ {a} /\ missed' = missed \ {a}
    /\ doomed' = doomed \cup (busy \cap {a})
    /\ UNCHANGED <<pc, todo, zombies, reloadCh, envVars, count>>

(* Remove the rules of a backend, stop its tasks, close its core.  Closing a
   task does not wait for its run. *)
CloseBackend(a) ==
    /\ Closing(a)
    /\ applied[a] \notin Partial
    /\ backends' = Tail(backends)
    /\ RemovesRule(a, hop[a])
    /\ leftover' = (leftover \cup Rule(a, hop[a])) \cap rules'
    /\ hop' = [hop EXCEPT ![a] = None]
    /\ applied' = [applied EXCEPT ![a] = None]
    /\ seen' = [seen EXCEPT ![a] = None]
    /\ busy' = busy \ {a} /\ missed' = missed \ {a}
    /\ doomed' = doomed \cup (busy \cap {a})
    /\ UNCHANGED <<pc, todo, zombies, reloadCh, envVars, count>>

(* The controller of a protocol that is not enabled was never started and
   has no tag: removing its inbound fails, and Node.Close panics. *)
ClosePanics(a) ==
    /\ Closing(a)
    /\ applied[a] \in Partial
    /\ RemovesRule(a, hop[a])
    /\ Panics

CloseDone ==
    /\ pc = "close" /\ backends = <<>>
    /\ pc' = "load"
    /\ UNCHANGED <<procVars, rules, envVars, histVars>>

ExitDone ==
    /\ pc = "exit" /\ backends = <<>>
    /\ pc' = "exited"
    /\ UNCHANGED <<procVars, rules, envVars, histVars>>

(* LoadFromPath: on an error reload returns, and no backend runs. *)
Load ==
    /\ pc = "load"
    /\ IF config = Broken THEN pc' = "select" /\ todo' = <<>>
                         ELSE pc' = "start" /\ todo' = config
    /\ UNCHANGED <<backends, applied, seen, hop, busy, doomed, zombies, reloadCh,
                   rules, envVars, histVars>>

-----------------------------------------------------------------------------
MainStep ==
    \/ \E a \in Apis : StartSkips(a) \/ StartFailsHalfway(a) \/ StartSucceeds(a)
    \/ \E a \in Apis : StartPanics(a)
    \/ \E a \in Apis : CloseBackend(a) \/ ClosePanics(a)
    \/ StartDone \/ TakeReload \/ CloseDone \/ Load \/ ExitDone

Next ==
    \/ MainStep \/ TakeTermination
    \/ \E a \in Apis : RunBegins(a) \/ RunEnds(a) \/ DoomedRunEnds(a)
    \/ \E a \in Apis : Detect(a) \/ DecodeFails(a) \/ MonitorPanics(a) \/ TaskTimesOut(a)
    \/ WatchHandles \/ UsesClosedCore \/ KilledAtBoot \/ WatchFails \/ Restart
    \/ \E a \in Apis, s \in Settings : PanelChanges(a, s)
    \/ \E c \in Files : FileEdited(c)

Spec == Init /\ [][Next]_vars

(* The main goroutine runs, the monitors of running cores ask the panel every
   pull interval, and systemd restarts the process. *)
Fairness ==
    /\ WF_vars(MainStep)
    /\ \A a \in Apis : WF_vars(Detect(a))
    /\ WF_vars(Restart)

FairSpec == Spec /\ Fairness

-----------------------------------------------------------------------------
(* Whenever the main loop is at rest, the kernel has the rules of the running
   backends, and every other one was left by a process that ended without
   closing its backend or is one that iptables failed to remove: whatever
   changed in between, a reload or an exit forgets no rule it had recorded, and
   does not take away one of another backend. *)
RulesMatchBackends ==
    pc \in {"select", "exited"} =>
        Recorded \subseteq rules /\ rules \ Recorded \subseteq leftover

(* A change that a monitor has seen, and could decode, is not forgotten: the
   monitor reports it once, the send may find the channel full and the main
   loop may be starting or closing backends at the time. *)
DetectedIsPending ==
    \A a \in Running \ missed :
        seen[a] # applied[a] => reloadCh = 1 \/ pc \in {"close", "exit"}

(* When the panel's settings stay the same, every running backend comes to
   run with its panel's setting, but one whose monitor could not decode it. *)
ChangeApplied == <>[](\A a \in Running \ missed : applied[a] = remote[a])

(* What goes wrong with one backend, whose start may have failed, never ends
   the process, and with it the other backends. *)
BackendsAreIndependent == pc # "crashed"

(* A process that was asked to exit leaves no rule behind. *)
ExitCleansRules == pc \in {"exited", "dead"} => rules = {}
=============================================================================
