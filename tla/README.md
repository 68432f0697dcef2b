# kknode in TLA+

kknode connects a server to one or more panels.  For every panel of its
configuration file (a *backend*) it fetches the node's settings, starts an Xray
core with one inbound per protocol, keeps the inbound's users in step with the
panel, counts their traffic and reports it.  It reloads when the panel's
settings or the configuration file change or when a periodic task hangs.  This
directory holds a model of the parts that run concurrently or may fail half-way,
TLC instances that check them, and proofs of the properties that matter most.

Paths below are relative to the repository; `task.go:69` style references give a
file and a line.

## 1. Inventory

| component | state | operations | talks to | hard because |
|---|---|---|---|---|
| periodic task (`common/task`) | Running, Stop, the loop goroutine, Execute goroutines | Start, ExecuteWithTimeout, Close | reload channel | a run that times out is abandoned and goes on; Close waits for nobody |
| controller (`node/`) | userList, tag, limiter, three tasks | Start, Close, userListMonitor, reportUserTrafficTask | panel client, core, limiter | two runs of one task, several fallible steps, no rollback |
| core (`core/xray.go`, `core/user.go`) | Xray server, ihm, dispatcher, uidMap | Start, Close, AddUsers, DelUsers, GetUserTrafficSlice, ServerConfigMonitor | panel client, dispatcher, reload channel | closed while runs use it |
| counters (`common/counter`) | email -> two atomics | GetCounter, Delete, Add/Load/Store | connections, report run | reset is not atomic with the read |
| main loop (`cmd/server.go`) | backends, reload channel | startBackends, reload, exit | everything | order of closing and starting, partial starts, panics |
| port hopping (`common/portmap`) | kernel DNAT rules | ApplyHopPorts, RemoveAllHopPorts, FindAllConflicts | main loop | rules outlive the process; index arithmetic while merging |
| configuration (`conf/`) | the file, debounce time | LoadFromPath, Watch | reload channel | edits inside the debounce window |
| panel client (`api/panel`) | ETags, body hash | GetUserList, GetServerConfig, Report* | HTTP | validators stored before the data is used |
| limiter (`limiter/`) | user limits, online addresses, buckets | AddLimiter, UpdateUser, CheckLimit, GetOnlineDevice | dispatcher, controller | check-then-act on several maps |
| dispatcher (`core/app/dispatcher`) | link managers, counters, cached reader | getLink, DispatchLink, sniffer, routedDispatch, CloseAll | limiter, Xray | what the sniffer read is read again; client, deletion of the user and routing interleave; check-then-act, unlocked iteration |
| certificates (`node/cert.go`, `node/lego.go`) | certificate, key and account file | requestCert, renewCertTask | ACME, main loop | files truncated and then written, one after the other, by runs that may overlap; they outlive a crash |
| custom configuration (`core/custom.go`) | none | GetCustomConfig | panel settings | order of rules, fallbacks |
| builders, commands, scripts | none | | | translation and I/O |

What makes each correct, and where it bites, is listed line by line under
`hazards` in `PROJECT.json`.

## 2. Modules

```
Task <----- TrafficReport, UserSync       Lifecycle         Dispatcher --> Stream
  ^              ^           ^                ^                  ^
Task_proofs <- TrafficReport_proofs       Lifecycle_proofs  Dispatcher_proofs
            <- UserSync_proofs

CustomConfig, PortConflicts <- StartUp_proofs
Connections <- Connections_proofs         Certificates <- Certificates_proofs
```

`TrafficReport` and `UserSync` EXTEND `Task`: their runs are the Execute
goroutines of a task, so the overlap of an abandoned run with the next one is
the task's own behaviour, not an assumption.  `Lifecycle` sees tasks and cores
from outside, as "a run is in progress" and "a run times out"; its `Faulty`
backends include those for which CustomConfig ends in "error".  `Dispatcher` shows
one connection from its first to its last byte, `Connections` several of a user's
from outside, with what they share.  `Dispatcher` implements `Stream`, under the
refinement mapping at its end.  Each module `X` but Stream has an instance `MCX`
for TLC.

**Task** (`common/task/task.go`).  `loop` is where the loop goroutine is, `run`
what each Execute goroutine does, `expired` the runs whose context is past its
deadline, `cur` the one the loop waits for.  `LoopTop` is the select's first poll
(a closed Stop is ready, a timer just reset is not), `TimerFires` its wake-up,
`Launch` and `NoticeTimeout`/`NoticeDone` the two halves of ExecuteWithTimeout.
The send on ReloadCh is non-blocking, so it sets `reloadCh` to 1 whatever it was.
The program starts each Task object once; `Start` is guarded accordingly.

**TrafficReport** (`core/user.go`, `common/counter`, `node/task.go`).  A storage
is the pair of atomics a connection holds on to; `counter` maps an email to its
storage, and a storage may leave the map while connections still add to it.  One
step per atomic operation: load up, load down and compare, store up, store down.
`mapLock` is modelled by its effect: `DelUsers` and `AddUsers` wait for readers.
Their inner steps, and the user list, are the subject of UserSync.  `sent` and
`claimed` are history variables: bytes counted into a storage, bytes the panel
accepted.  A POST whose context is over is not made; one that is made is taken
or lost.

**UserSync** (`node/task.go`, `api/panel/user.go`, `core/user.go`,
`limiter/limiter.go`).  A list maps each Uuid to its speed limit or `None`
(compareUserList keys on these two).  It stands for its own ETag.  A run fetches,
compares, deletes, adds, updates the limits and commits; deleting fails at a user
the inbound does not have, adding at one it has or one whose account does not build
(`Unbuildable`, which ToMemoryUser rejects at `core/user.go:142`); `refused` is the
history variable that remembers the latter.  Deleting and adding hold
`mapLock` for writing, so each is one step with its partial outcomes as
alternatives.  A map is ranged over in any order, so the users handled before the
failing one are any subset.  GetUserAlive is a stub in the code and has no state.

**Lifecycle** (`cmd/server.go`, `core/xray.go`, `node/node.go`,
`node/controller.go`, `conf/watch.go`).  `pc` is the main goroutine: `boot` is the
first startBackends, `select` the wait, `close` / `load` / `start` a reload, `exit`
the handler of SIGTERM.  `seen` is what the monitor's client saw last, `applied`
what the backend was started with, `hop` its HopRules, `rules` the kernel.  `todo` and
`backends` are lists: backends are started in the order of the file and closed in the
order they were started.  A
backend that fails to start is skipped (`StartSkips`) or leaves tasks behind
(`StartFailsHalfway`).  Closing a backend dooms its runs in progress, which then
end or panic.  `Partial` are the settings with a protocol that is not enabled:
closing such a backend panics (`ClosePanics`).  `Faulty` are the backends whose panel
may answer without data, which GetServerConfig dereferences at a start or in the
monitor (`api/panel/server.go:162`), or whose outbounds do not build
(`core/xray.go:152`): `StartPanics`, `MonitorPanics`.  `DecodeFails` is an answer whose
ETag was stored and whose body does not decode (`api/panel/server.go:146-164`): the
monitor returns without a signal.  Removing a rule may fail without anyone being told
(`RemovesRule`, `portmap.go:131`).  systemd restarts a process that
panicked or could not watch its file (`scripts/install.sh:457`).  The history variables
say what the code forgets: `missed` the backends whose setting did not decode, `leftover`
the rules that were not removed or that an ended process had recorded.

**PortConflicts** (`common/portmap/portmap.go:178-239`).  FindAllConflicts one
record at a time, merges one group at a time.  `merge` is the set of collected indices
that are still to be merged: the code's `mergeIndices` ascends, its first is the least
and its last the greatest.  The input is taken lazily: each step reads any range.  The
result is a set of groups, its order left out.

**Dispatcher** (`core/app/dispatcher/default.go`, `linkmanager.go`,
`countreader.go`).  One connection: the client's stream of numbered chunks, `pipe`
between the inbound and the dispatcher, `cached` what the cachedReader holds,
`delivered` what the outbound's handler has read.  `mode` tells Dispatch, which
makes its own pipes, from DispatchLink, which counts through a CounterReader and
is not entered in the link manager.  `SniffReads` and `SniffGivesUp` are the
sniffer's loop with its deadline and its two attempts, `InterruptReader` what
happens to the reader when the connection is given up.  `CloseAll` is the deletion
of the user, and may come between any two steps.

**Stream**.  What the data path of a connection promises to its ends: chunks arrive
in order, without gaps or repetitions, and are lost only at the end, by an
interruption.  It has four variables and four actions.  The mapping takes
`delivered` for what is received, `ended` for the sender's close and `dropped` for
the loss; the pipe, the cache, the sniffer and the routing disappear.

**Connections** (`limiter/limiter.go`, `default.go:183-214` and `367-395`,
`linkmanager.go`, `core/user.go`, `node/task.go`).  The maps keyed by one user:
`limit` (UserLimitInfo), `online` (UserOnlineIP), `bucket` (SpeedLimiter), `manager`
and `links`.  A connection goes through CheckLimit and getLink or DispatchLink, one
map access per step, and ends; beside it run `stage`, the deletion and addition of the
user (DelUsers, AddUsers, UpdateUser in that order), and `reporting`: GetOnlineDevice
collects the addresses and resets the map, and a POST follows, whose failure is only
logged (`task.go:188-192`).  When DelUsers or AddUsers fails, at this user or another,
UpdateUser is skipped and the old limit and bucket stay (`AdmitFails`,
`AdmitNewFails`).  One report is made at a time: a run that is abandoned has its
calls ended by the same deadline and collects at once, an interval before the next one
does, and a POST touches nothing that is shared.  That a goroutine is delayed for a whole
interval between the two is left out.
A bucket or a manager is named by the connection that made it, so two of them are
told apart.  A speed is a value that is compared, and `Unlimited` the 0 that means
no bucket.  `late`, `mixed`, `twin`, `unsure` and `lost` are history variables: they name the
races and failures in which the code does lose, so that the properties say exactly what
is left.  The properties do not catch these races themselves; the hazards list them
without a property.
`LinksRace` is the map write during CloseAll's unlocked range, which the Go runtime
may notice and which then ends the process.

**Certificates** (`node/cert.go`, `node/lego.go`).  A pair of certificate and key is
a value; a file holds one, is missing, or is torn.  The main loop requests a
certificate at a start and reads it when it adds the inbound; runs of the renewal do
the same steps.  Opening truncates, writing follows, and a writer that writes into a
file another has written since may leave it torn.  `Reload` gives up a run without
ending it, `Crash` ends everybody but leaves the files.  The account file is shared
and read by every request.

**CustomConfig** (`core/custom.go`).  GetCustomConfig, one outbound item per step.
A line of a list is its form (`keyword:`, `ip:`, `all`, ...) and a text; which traffic
a matcher selects is the constant `Selects`.  An item is skipped (`Skip`), ends the
construction (`Fail`) or adds its rules and, if its name is free, its outbound (`Add`).
`Route` is Xray's choice, the first rule that matches; `Wanted` reads the lists
themselves, line by line, and is the reference.  A line `all` selects everything
whatever its text (`core/custom.go:109`).

## 3. Runs

| run | instance | states | shows |
|---|---|---|---|
| `task` | 3 run slots | 575 | `AtMostOneLiveRun`, `AtMostOneLateRun`, `Watchdog`, `ClosedLoopEnds` |
| `traffic_report` | 2 runs, 1 user, 2 storages, 1 byte per storage and direction | 428 k | `NoOverReport`, `CounterDrains` |
| `user_sync` | 2 runs, 3 users of which one does not build, 10 lists, 2 changes | 1.4 M | `SyncedOrRestarting`, `Converges` |
| `user_sync_empty` | the same, the list may become empty | | **violated** `SyncedOrRestarting` |
| `lifecycle` | 2 backends, 1 hop setting, 1 panel change, 1 edit, 1 crash, removals that fail | 858 k | `RulesMatchBackends`, `DetectedIsPending`, `ChangeApplied` |
| `lifecycle_zombie` | the same without changes | | **violated** `BackendsAreIndependent` |
| `lifecycle_exit` | 2 backends, no crash but by closing | | **violated** `ExitCleansRules` |
| `dispatcher` | 4 chunks, deadline of 3 ticks, both entry points | 3.5 k | `StreamIsIntact`, `CountedOnce`, `NobodyWaits`, `Settles`, `IsStream` (refinement) |
| `connections` | 2 connections from 2 addresses, 2 speeds and no limit, 2 changes of the user | 2.8 M | `DeletedUsersAreCutOff`, `SpeedIsShared`, `OnlineIsReported` |
| `certificates` | 2 renewal runs, 5 pairs, 2 reloads, 1 crash, 1 failure | 105 k | `FilesExistAtStart`, `PairIsWhole`, `Heals` |
| `custom_config` | any block list of 8 lines, lists of 2 items out of 23 | 367 k | `RoutesAsConfigured`, `RulesHaveOutbounds`, `TagsAreUnique` |
| `port_conflicts` | at most 5 ranges over 4 ports | 233 k | `GroupsAreApart`, `HullsAreCovered`, `ConflictsAreComponents` |

Why the bounds are enough to be interesting:

* Three slots in `task` allow two abandoned runs beside a third; two runs in the
  other modules allow an abandoned one and its successor, which is the
  overlap that matters, since an abandoned run has an expired context forever.
* Two storages let a user's counter be deleted while a connection holds it, and be
  replaced.  With `Threshold = 1` a single byte stays below the threshold and both
  directions together pass it.
* Two changes of the list let an overlapping run see a list that a third one
  replaced, including a user deleted and added again.  The third user's account does
  not build, so a list may be applied up to it in any order.
* Two backends show the order of closing and the rules of one surviving the other; the
  file names both, then the second alone, then nothing that parses.
* Two chunks are sniffed in turn, since the sniffer makes two attempts; the third
  comes while the connection is routed and the fourth is behind it in the pipe.
* Two connections are enough for every race of `Connections`: two that make a manager,
  one that adds an address to a map the report dropped, one that is being set up while
  the other is closed.  Two changes delete a user and bring it back, or change its
  limit twice; the two speeds are symmetric, because speeds are only compared.
* Two renewal runs and the start give three writers of the same files.  Pairs are
  issued afresh; the two files and the three writers hold five at most, and a writer
  that asks for one holds none.
* Two items show which of them a connection takes, a shared name, and one that is
  skipped before or after one that is not; their traffic is one domain, one address
  and DNS over UDP and TCP, matched by a part or the whole of the domain.
* Four single ports, and a fifth range that joins three of them and leaves one,
  exercise removal from the slice behind the collected indices.

Deadlock checking is off where the system stops: a closed task, an exited
process, a function that returned.

### Fairness

Weak fairness of a goroutine's next step says that the Go scheduler runs it and
that its timer fires (`Task`, `MainStep`).  The HTTP client has a timeout of its
own (`api/panel/panel.go:39`), so a run of the report or of the monitor that is
scheduled ends: `TrafficReport` and `UserSync` assume it, `Task` does not.
`UserSync` assumes strong fairness of the fetch: a panel that is asked again and
again answers now and then.  `Lifecycle` assumes that monitors keep asking and
that systemd restarts.  `Dispatcher` assumes that the connection's goroutine runs:
the sniffer's read of the pipe has a timeout (`default.go:43`), so it returns from a
silent client too; nothing is assumed of the client or of the handler.
`Certificates` assumes that goroutines and calls of the CA end, that the renewal's
timer fires and that a certificate grows old; failures of the CA or the disk, reloads
and crashes are bounded, so they are not there for ever.  Nothing is assumed of
deadlines, edits or changes.

### Findings

* *Empty list* (`node/task.go:104`).  An empty list decodes to a nil slice after
  its ETag was stored; the caller takes nil for 304 and keeps every user.  The
  comment above says that nil means 304 and an empty slice an empty list.
* *Zombies* (`cmd/server.go:237`).  When a node's second controller does not start,
  the first one's tasks go on with a closed core, whose nil dispatcher ends the
  whole process.  The README promises independent backends.
* *Exit* (`node/node.go:72`).  Close visits the controllers Start skipped, whose tag
  is empty; removing the inbound fails and Close panics, during a reload or an exit.
  The rules of the backends that were started later, and so are not closed yet, stay in
  the kernel, although the README says that they are cleaned on exit.

What the models show besides, and no document of the repository contradicts: a list
with a user whose account does not build is applied in part, and neither asked for again
nor reloaded (`core/user.go:142`); from then on deleting or adding may fail as well.  A
setting whose answer did not decode is not applied until the next change
(`api/panel/server.go:146`).  A rule that iptables fails to remove stays
(`portmap.go:131`).  Addresses of a report whose POST fails are gone, since an open
connection does not register again (`limiter.go:194`).  A backend whose settings do not
build, or whose panel answers without data, panics and ends the other backends too.  A certificate or an account file that
does not parse is never replaced (`node/lego.go:129`, `202`).  A connection of a
deleted user survives if it came by DispatchLink, whose writer is in no manager
(`default.go:387`), or if it was being set up when its manager was closed.

## 4. Proofs

`Task_proofs`.  `TaskInv` adds `LiveRunIsCurrent` (a run whose context is
unexpired is the one the loop waits for) and the relation of `late` to `stopped`
and `loop`.  `AtMostOneLiveRun` alone is not inductive: nothing in it says that
the loop may launch only when no run is live.

`TrafficReport_proofs`.  `NoOverReport` compares two histories that no step
relates directly.  The inductive invariant `ReportInv` has four parts:

* `CounterBacked`: what the panel was given plus what the counter shows is at
  most what was counted;
* `LiveBacked`: the same with what the live run has already recorded or taken out of
  the counter added, so an amount is never in two places;
* `LiveLoaded`: what the panel was given, what the live run has recorded and what it
  has loaded in this visit, reset or not, is at most what was counted;
* `PcMatchesRun`: where a run is agrees with the task's `run`.

Only the live run may post, so amounts that an abandoned run has loaded need no
bound.  This is where `TaskOneLiveRun` is used.  The theorems hold for any users,
storages, run slots, threshold and number of bytes.

`Lifecycle_proofs`.  `RulesMatchBackends` speaks of the states at rest only, and a
reload passes through many others, so `LifecycleInv` says what holds in between:

* `TodoIsRight`: nothing runs when the file is read, and while starting, what is left
  to start is no backend twice and has no rule recorded;
* `HopOfRunning`: only a running backend has HopRules, so a start whose iptables
  call fails removes no rule that is recorded;
* `RecordedInKernel` and `NoStrayRule`: the kernel has every recorded rule, in every
  state, and any other is one of `leftover`.

`DetectedIsPending` needs `TodoIsRight` too: a start ends with no stale backend only
because it began with none.  The theorems hold for any backends, files, settings and bounds.

`Dispatcher_proofs`.  `StreamIsIntact` speaks of what the handler has read and says
nothing of the cache, which it reads next.  `StreamInv` adds `InOrder` (what was
delivered and what is cached are a prefix of the stream), `PipeHasRest` (the pipe
holds the rest, unless an interrupt discarded it), `DroppedIsOver` (after which nothing
is read) and `AttemptLeft` (the sniffer's loop is entered with an attempt left), and
carries `CountedOnce` and `NobodyWaits`.  The theorems hold for any deadline and any
number of chunks.  `DispatcherIsStream` proves the refinement: the initial state maps to
Stream's, and every step to a step of Stream or a stutter.  Only a read of the pipe or of
the cache maps to `Receive`; that it extends what was received without a gap is
`InOrder` and `PipeHasRest`, and that nothing past a loss is ever received is
`DroppedIsOver`.

`UserSync_proofs`.  `SyncedOrRestarting` speaks of the times between runs.  `SyncInv`
says what holds during one:

* `RunIsAlone`: as long as no reload is pending, at most one run is in progress, since a
  run that is abandoned asks for a reload; when one is pending nothing else is claimed;
* `Stage`: at every step of that run, which of the old list and the new one the inbound,
  `uidMap` and the limits hold;
* so in a run that is alone DelUsers cannot fail half-way, nor AddUsers unless an account
  does not build: its users are there to delete and not there to add.  Where they do fail
  otherwise, another run has been abandoned; and once an account was refused, only the
  limits are claimed.

`UserSyncAppliedOrRestarting` needs no assumption on the panel: between two runs the
limits are those of the list the controller believes in, and so are the inbound and
`uidMap` unless an account was refused.  `UserSyncedOrRestarting` says the same of the
list whose ETag is stored, and assumes that every list of the panel has a user, because
the run `user_sync_empty` shows it to be false otherwise.  `UserSyncAdmittedHaveUids`
needs neither: it holds in every state, after any failure and during any overlap.

`StartUp_proofs` holds the proofs of two computations that share no variable, only
lemmas about the least place in a list.

* *PortConflicts.*  `GroupsAreApart` is not inductive, since a record's groups share its
  ports while they are merged.  `ConflictsInv` says which two may then overlap, the
  target and a group still to be merged, that each of these does, and that the
  collected indices stay valid although groups are removed behind them.  `Whole` says
  of each group that a set of records that shares no port with the others has all of it
  or nothing; with `HullsAreCovered` and `GroupsAreApart` it makes the groups the
  connected components.  `FindAllConflictsIsCorrect` is this for any ports and any
  number of records.
* *CustomConfig.*  Every rule has a matcher, every rule an outbound, and no tag is taken
  twice: outbounds are never taken away, so an item may add its rules first.
  `RoutesAsConfigured` is not inductive either.  `RulesCover` adds that the rules match
  what the DNS rule, the block list and the items read so far take, and nothing
  else; so a new item gets exactly what nobody took before (`HitsJoin`, `ReadTakers`),
  and what no rule matches goes to the first outbound, which stays "Default".
  `ItemRulesTake` is where the rules, grouped by kind, are compared with the lines.

`Connections_proofs`.  Four invariants, each with those before it.

* `TypeInv` adds that a connection that is about to add its address has a map to add it to,
  and one about to make a bucket a limit.
* `LinkInv`.  `DeletedUsersAreCutOff` speaks of the end of a deletion; what CloseAll
  reaches depends on who stored which manager before.  `JoinedIsManager` says that a
  regular connection's manager is the one in the map and that none is being made;
  `MakersAreTwins` that of two that are made neither connection is regular;
  `OpenIsLinked` and `OpenIsPending` carry that through CloseAll; `NoneIsSetUp` and
  `IsCutOff` through AddUsers and UpdateUser.
* `SpeedInv`.  As long as nobody is set up during a change, between LoadManager and the
  end of the change nobody is set up at all (`QuietSetUp`), the old connections are closed
  (`QuietOpen`) and the bucket is forgotten (`BucketIsForgotten`); outside a change
  what was read, made and stored agrees with the limit.
* `OnlineInv`.  An address may miss the map only between finding and adding to it
  (`HeldOrUnsure`), and a map is reset only when what it holds is in the report or its
  connection set up meanwhile (`RangeMeetsAll`, `CutOffIsUnsure`); a report is made only
  when the one before was sent or failed (`ReportIsSent`).

`Certificates_proofs`.  `TypeInv` adds `HasPair`: a writer holds a pair exactly from its
issue to the end of the writing, so one that asks holds none and, by
`PairsAssumption`, there is a fresh one.  `FilesInv` adds what each writer has opened;
files are never removed.  `WholeInv` says of undisturbed writing that one writer is
at work (`OneAtWork`) and what it has written so far.  The theorems hold for any
number of runs, reloads, crashes and failures.

Every invariant a passing run checks is stated by a theorem, and so is the refinement
of Stream.  The inductive invariants of UserSync, PortConflicts and CustomConfig
were checked by TLC on the instances of their runs before they were proved.

What stays with TLC.  The liveness properties (`Watchdog`, `ClosedLoopEnds`,
`CounterDrains`, `Converges`, `ChangeApplied`, `Settles`, `Heals`): fairness and ENABLED
are out of the prover's reach.  The three violated properties are counterexamples.
Induction over data is avoided where it is not available: that a set of places has a
least element is taken from the well-foundedness of inclusion of finite sets
(`LeastExists`), and lists are followed step by step instead of by recursion.

## 5. Not modelled

* `LocalConfig` mode, in which a backend reads its settings from disk and starts
  no monitor; pprof and logging.
* The device limit: it rejects when the panel's alive list says that the limit is
  reached, and that list is always empty, because GetUserAlive returns an empty map; OldUserOnline,
  which only decides whether the limit is looked at, goes with it.  Dynamic
  limits: nothing in the program sets one.
* A node whose type implies TLS (tuic, hysteria) without `Security = "tls"` renews a
  certificate it never requests (`controller.go:62`, `task.go:44`); `Certificates` is
  about nodes for which both hold.
* The combination of the sniffers' results and the destination they override, the
  clock of the file watcher, the challenge's provider of a certificate and its
  environment, the sidecar file of its credentials.
* Custom DNS servers and the text of settings, which route nothing.
* The matching of iptables comments by substring (`portmap.go:137`): a rule is its
  backend and setting, as if service ports were never prefixes of one another.
* Builders of inbounds, outbounds and accounts, and generated code: data
  translation without state.  Scripts and system status: I/O.

## 6. Plan

1. Task, TrafficReport, UserSync, Lifecycle, PortConflicts, Dispatcher with Stream,
   CustomConfig, Connections, Certificates, and the proofs above (done).
2. Proofs: step theorems behind the liveness properties, which hold for every
   instance: what a run that fails leaves to the next one (`Converges`), that what a
   live run drained is not counted down twice (`CounterDrains`).
3. Watch: the debounce of `conf/watch.go` with a clock, as an implementation of the
   watcher of Lifecycle.
