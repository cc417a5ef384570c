# Goardian in TLA+

Goardian supervises processes: it starts the configured instances of each group,
restarts them when they exit, gives up after `max_restarts` failures, stops them on
request or at shutdown, and shows them on a dashboard fed over websockets. This
directory models it: the goroutines that share a process instance, a process group and
the websocket hub, what is reported of an instance, and the program as a whole from its
configuration to its exit. TLC checks the models, and TLAPS proves every safety
property of the runs that pass. Line numbers are those of `internal/process/process.go`
unless another file is named.

## Inventory

| Component | State | Operations | Talks to |
|---|---|---|---|
| Process instance (`process.go`, type `Process`) | `state`, `running`, `cmd`, `exitChan`, `done`, the restart counters, `mu` | `Start` (472), its wait and ready goroutines (531, 580), `Monitor` (280), `Stop` (618), `ResetRestartCounters` (1204), getters | the kernel and `os/exec`, the group, metrics, the `StateChanged` callback |
| Process group (type `ProcessGroup`) | `processes`, `done`, `mu` | `Start` (86), `Stop` (139), `Monitor` (410), `updateProcessMetrics` | its instances; called by manager and handlers |
| Manager, main (`manager.go`, `main.go`) | the map of groups | `StartAll`, `MonitorAll`, `StopAll`; wait for a signal | groups, web server |
| Web server (`server.go`) | the `http.Server`; it wraps the callbacks | start, stop, restart handlers; read-only listings; the one-second broadcaster; `Start`, `Stop` | groups, hub |
| Websocket hub (`websocket.go`) | `clients`, `done`, `mu`; per client `send`, `closed`, `mu` | `Start`, `Stop`, `Broadcast`, `ServeWS`, `writePump`, `readPump`, `Close` | peers; called by callbacks and handlers |
| Backoff policy (998) | `consecutiveFailures` | `getBackoffDuration`, `resetBackoff` | Monitor |
| Metrics (`metrics.go`) | gauges, counters, a histogram, a map nobody fills | `Record…`, `Collect` | instances, groups, scrapes |
| Output pump (557) | two pipes | copies stdout, then stderr | logger |
| Memory reader (430, 1083) | `memoryUsage` | reads `/proc` or `ps` every second | instances, metrics |
| Configuration, logger, dashboard script | none shared | parse; format; render | |

What is hard here:

* *Many receivers of one exit event.* The wait goroutine sends one event per child; a
  Monitor, perhaps two, and three selects in each concurrent `Stop` receive it. Each
  acts on its own view of what the event was about.
* *Decisions on values read earlier.* `Monitor` reads the state, unlocks, waits out a
  backoff and starts a child; `Stop` remembers a process, unlocks, and later takes
  whatever `p.cmd` is; `ProcessGroup.Stop` carries slice indices over two locks.
* *Timers.* `start_timeout`, `stop_timeout`, the group's timeout, a ticker, the SIGKILL
  grace period, request contexts and the shutdown deadline race with the events.
* *Locks held while waiting.* `Start` keeps `p.mu`, and the group's `Start` `pg.mu`,
  while a child comes up; a pump keeps `c.mu` during a write, and the hub `s.mu`
  during a `Close`.
* *Replacement.* A group's `Start` replaces all its instances; what the old ones still
  do goes on beside the new ones.
* *Reports made after the unlock.* The status gauge and the dashboards are written by
  callbacks that run when the lock is free again, in several goroutines, in any order.
* *One deadline for everything.* Groups are stopped one after the other, then the hub and
  two servers, while requests still come in and the clock runs.

What makes each component correct, in short: an instance has at most one child, loses
none, restarts it as often as it may and not when it was stopped; a group keeps every
child where it can be found and stopped, and says truly whether it stopped them; the
hub never panics, never leaks a client, and never holds up those who broadcast; what is
reported is in the end what is the case; a signal ends the program, and what it leaves
behind it has at least said so.
The hazards one by one, with the properties that guard them, are the list `hazards`
in `PROJECT.json`.

## Modules

| Module | What it is |
|---|---|
| `Process` | one instance and every goroutine that touches it |
| `Lifecycle` | what an instance promises about its children: the abstract specification |
| `ProcessProof` | type correctness, the inductive invariant and what follows from it |
| `ProcessPolicyProof` | the restart policy: what counts as a failure, how many are allowed |
| `Group` | one group, its callers (main and the web handlers), and its instances seen from outside |
| `WSHub` | the websocket hub, its clients and their peers |
| `Reporting` | one instance and those who report on it: metrics, callbacks, dashboards, memory |
| `Program` | `main`, the manager, the servers and requests, from the configuration to the exit |
| `GroupProof`, `WSHubProof`, `ReportingProof`, `ProgramProof` | the inductive invariant of each of these modules and what follows from it |
| `Backoff` | the length of a backoff as a function, with its theorems |
| `MCProcess`, `MCGroup`, `MCWSHub`, `MCReporting`, `MCProgram` | the same with symmetry sets where sound, for TLC |

### Process

The actors are the goroutine that created the instance (`Starter`), those that run
`Monitor` (`Monitors`), those that call `Stop` (`Stoppers`; a monitor whose context
ends calls it too), and a wait goroutine per child. `pc[a]` names the next step of
the handler an actor runs. A step is what the code does between two points where
another goroutine can be scheduled: one critical section of `p.mu`, one channel
operation, one system call. `p.mu` outlives a step only in `Start`'s wait for the
child, so `Unlocked` is "no actor is at `ready`".

| Code | Model |
|---|---|
| `Start`: first lock, second lock up to the select, the select | `StartBegins`; `StartFails` or `StartSpawns`; `StartReady` or `StartAbandoned`; `LateReady` for a ready goroutine left behind |
| wait goroutine | `WaiterReaps`, `WaiterLocks`, `WaiterSends` |
| `Monitor` | `MonitorCalled` … `MonitorRestarted`, one per branch |
| `Stop` | `StopBegins`; `StopFindsPid`/`StopFindsNoPid`; `StopTerminates`; the selects `StopReceives`, `StopEarlyElapses`, `StopCtxDone`, `StopTicks`, `StopTimesOut`; `StopKills`, `StopGivesUp`; `StopReturns`, the last critical section of each way out |
| kernel, `os/exec` | `ChildExits`, `ChildKilled`, `CtxKills` |
| contexts | `RequestEnds`, `AppCancelled` |

Time is left out: a timer may fire whenever its select is reached, which includes
every real timing and more. `failureRestarts` is compared only with `max_restarts` and
saturates there; `consecutiveFailures` sets only the length of a wait (`Backoff`). A `Cmd` is reused once no variable refers to it; two suffice, because a
child is spawned only when the previous one has been reported (`OneIncarnation`) and no
`Stop` holds a handle to it while a restart is under way (`StopHolds`). `processExists`
may find a reused pid, hence `StopFindsPid` has no guard. With `"eperm"` the kernel may
refuse each signal, the signal 0 of `processExists` included, which is then taken for "no
such process" (`StopFindsNoPid`); `sig` keeps which signals a child got and whether one was
refused. `LateReady` and the wait goroutine read `p.cmd` without the lock; with a nil
`p.cmd` the program panics, and the model just has no such step: nothing here says that it
cannot happen. The `StateChanged` callback is taken to return, which it does while the hub
takes events; `Reporting` and `Program` have what it waits for.

### Lifecycle

One entitlement to run a child goes from the starter to the child, to its exit event,
and to whoever consumes that. `Process` implements it under the mapping `phase`
(`LifecycleSpec`, checked and proved); `Group` uses it as its view of an instance
(`InstancesImplementLifecycle`).

### Group

Callers are `Main` (start, monitor, serve, stop on a signal) and requests to start,
stop or restart. A handler calls `Start` at most once, so an instance is named by the
caller that made it and its slot; `pg.current` says whose instances `pg.processes`
holds. `pg.mu` is held across steps only by `Start`. A call of `Process.Stop` is a
record in `stopping`: its first critical section, a wait, and the ways the wait ends, with
the exit (`StopInstanceEnds`), with a refused signal 0 taken for one
(`StopInstanceFindsNoPid`), two seconds after a SIGKILL in vain (`StopInstanceGivesUp`), or
with its context. An instance's child, exit event and restart are its `phase`; `running` is
`p.running`, all that `IsRunning` and so the verification in `ProcessGroup.Stop` looks at,
and the second and third way clear it over a live child. `lost` is history: it says for a
live child why nothing points to it any more, and `Known` are the children of which
that is not so. A start that takes longer than `start_timeout` leaves its slot empty and its
child alive (`StartInstanceFails`). `own` says that the child
lives under the context of the request that made it, as `r.Context()` is what the
handlers pass (`server.go` 318, 399), and a restart by a monitor clears it. Resetting the
counters decides nothing at this level: a monitor may give up at any restart.

### WSHub

The channels `register`, `unregister` and `broadcast` are unbuffered, so a send and the
hub's receive are one step. `send` is a count up to `Capacity`, since nothing depends on
what an event says. `Close` is one step that waits for `c.mu`. `s.mu` is free, the
hub's or main's; the hub takes it for reading in a fan-out, and the writers it would
exclude are itself and `Stop`, so one owner is enough. A panic stops the goroutine that
panics and leaves the rest running, so that what follows can be looked at; the liveness
properties exempt behaviours after a panic.

### Reporting

The life of the instance is `Process`'s in coarser steps: one Monitor, one Stop, a bounded
number of starts. A Monitor's own Stop at the end of the program and `start_timeout` are left
out; they write no report that Stop and the wait goroutine do not write too. What is added is
what the code does *after* it unlocks: each goroutine has a record in `report` that says
which call it is in (`read`, the callback's `IsRunning`; `set`, the gauge; `show` and
`send`, `BroadcastProcessState` when the callback is the wrapped one of `server.go` 54).
`old` and `overtaken` are history: the instance has changed since a reporter looked. A
status is written by `Start` (0), by `Stop` of an instance that is not running (1), by
Monitor (2), and by the callbacks (0 or 1). The hub is a channel that takes events, as
`WSHub` shows it to be when no peer stalls, which all that is said here assumes.

### Program

A configuration is a sequence of entries with a name and a number of instances; names may
repeat and numbers be negative, as the file may have them. `main.pc` is the statement
`main` is at, and `todo` the groups its loop has left, in the map's arbitrary order. All
instances one `ProcessGroup.Start` makes are a unit that moves as one: `up`, `between` an exit
and a restart, `told` to stop, `racing` when a Stop found it between, `lost` when its
children run and the program has written them off (as `lost` in `Group`), `gone`. A Stop
copies the unit in the table, its goroutines `Tell` it, its wait ends (`WaitIsOver`), and it
asks `IsRunning` of whatever unit is in the table then. Of those that are running it forces the stop
itself (`StopForces`), in `StopAll` in `main`'s own goroutine, and asks again (`StopEnds`). What happens
between these points is `Group`'s subject. That the goroutines have begun when the group's
own timeout, `stop_timeout` or ten seconds, is over is assumed; when a context ends they need
not have.

A dashboard may stop reading at any time (`PeerStalls`). The pump that writes to it then holds
that client's lock for good; the hub waits for it as soon as it closes the client, with
`s.mu` held (`HubGetsStuck`), and takes no events. A forced stop calls `StateChanged`, which
broadcasts for `main`'s instances (`server.go` 54-62), and hangs (`ForcedStopHangs`); so does `WSServer.Stop`.
`http.Server.Shutdown` closes the listener, waits for requests and gives up at the deadline;
websocket connections are hijacked and not waited for. After `Return` has
cancelled the context other goroutines may still run before the process is gone.

Of the panics those of `main` (a negative `numprocs`) and of the hub's second `Stop` are steps.
The hub's send on a closed channel (`WSHubLeave`) and the nil `p.cmd` (532, 585) can end the
program wherever it is, with its children up; they are no steps here, and no property speaks
of what they leave behind.

### Backoff

Seconds, with the random factor in hundredths. `time.Duration(x)` truncates before the
multiplication, which is the point of the module.

## Runs

Every run uses two workers and a few minutes at most; deadlock checking is off because
the systems may stop: when all calls have returned nothing more need happen.

| Run | Question | Bounds |
|---|---|---|
| `ProcessFull` | is an instance safe under every event at once, and does it implement `Lifecycle`? | 2 monitors (which also call `Stop`), 1 stopper, 2 `Cmd`, `max_restarts` 2, started by a request |
| `ProcessLiveness` | is `max_restarts` respected, every exit handled, does every `Stop` return and kill? | 2 stoppers, exec reliable, signals not refused |
| `GroupFull` | is every instance watched while two requests replace them? | main, a start, a restart; exits, failing and slow starts, refused signals, children that outlive SIGKILL; 1 slot |
| `GroupRestart` | does a restart ever leave a child behind, do calls and monitors end? | main with signal, a restart whose client may leave, slow starts, refused signals; 1 slot |
| `GroupStops` | is `Stop`'s nil to be believed? | main with signal and deadline, a stop, children that outlive SIGKILL; 2 slots |
| `WSHubFull` | are table, channels and goroutines consistent? | 2 clients, capacity 1, all events |
| `WSHubLiveness` | do broadcasts, `Stop` and the pumps end? | 1 client, 2 broadcasters, capacity 2; peers may leave |
| `Program` | what does a shutdown leave behind, does a signal end it? | 2 group names, 2 entries, a request that may be start or restart, and every event |
| `Reporting` | do gauge, histogram, dashboards, memory figure and state say what is the case? | 2 starts, `max_restarts` 2, one stop, 2 reporters busy besides the periodic one |
| `ProcessStoppedIsFinal` | counterexample: a stopped instance is restarted | |
| `ProcessWebStart` | counterexample: a child started from the dashboard dies with the request and is counted | |
| `WSHubLeave` | counterexample: the hub sends on a closed channel | |

Why the bounds are enough: each race found or excluded needs two goroutines on one
instance, or two calls on one group, and a third to be in the way; two of each kind and
three at once in `ProcessFull` (two stopping monitors and a stopper) reach them.
`max_restarts` 2 has a first, a counted and a last failure. Capacity 1 fills a buffer
with one event, capacity 2 lets it hold some. In `Program` two groups are what it takes to
be before or after one another in a loop, and two entries to share a name; a second
request at once changes nothing its safety depends on (also tried, without a run of its own).
In `Reporting` the second start is what an old report can overtake, and two callbacks at once
are what can be out of order; `MaxInFlight` only delays a third. What is proved does not
depend on bounds.

Seven properties have exceptions, each of them a case the code gets wrong; each was tried
without them, and TLC finds the case:

* `NothingEscapes` and `StopSucceeds`: a child that was sent SIGKILL and is not dead yet, and
  a child to which the kernel refused a signal.
* `NoOrphans` and `StopIsTruthful`: the three ways a live child is lost (`Known`): a start
  that timed out (612, 121; `NoOrphans` only), a Stop that gave up two seconds after SIGKILL (888), and a
  refused signal taken for an exit (699). That a concurrent Stop then returns nil, since
  `p.running` is cleared, is part of it.
* `ShutdownIsComplete`: a child of an instance in the table survives `main` only if the unit was
  started, or revived, after `main`'s Stop had copied its group's table; if an error about its group is in the log;
  or if it was lost as above. Instances that a start replaced in the table are not
  spoken of. Neither is a panic in the middle of the run.
* `SignalEndsProgram`: only a dashboard that does not read can keep a shutdown from ending, in
  one of two places: `WSServer.Stop` waits for the client's lock, or a stop that `main`
  forces in `StopAll` broadcasts to a hub that waits for it; the groups after that one are then never stopped.
* `StatusIsReported`: at rest the gauge is the status last written or due, unless that write
  was overtaken by a later change. The race is named here, not excluded. An instance whose restart failed
  has no status of the three the gauge knows; the 0 that `Start` wrote (482) stays.

`RunningIsTrue` likewise says when an instance is Running without a child: after a failed
exec, or when it had been stopped and a monitor revived it. `MemoryCatchesUp` exempts a group that was stopped
before (437). `StopKillsChild` is about a Stop that ends without an error: neither its context ended
nor did it give up. `BroadcastReturns`, `ExitIsDelivered` and the like speak of dashboards that
read or leave; `WSHubLiveness` has no stalled peer and no cancelled context.

### Fairness

Go's scheduler runs every runnable goroutine again and again, `sync.Mutex` hands over to
the longest waiter (starvation mode), channel senders queue, a select picks among ready
cases at random, and timers fire. So in `Process` and `WSHub` each goroutine's steps are
strongly fair: a step that is possible again and again, between other holders of a lock, is
taken. In `Group`, whose callers take the lock a few times only, weak fairness is enough. In
`Process` a child dies of a SIGKILL the kernel accepts; in `Group` not even that is
assumed. Nothing else is assumed: children need not exit,
peers need not read or leave, contexts need not end, nobody need call anything. With
a `"stall"` peer the writes of its pump are not enabled at all, since they have no
deadline.

`Program` assumes only that `main` is scheduled and that the shutdown clock runs: no
request, child, scrape, peer or goroutine of a Stop need ever finish. `Reporting` assumes the goroutines, the
tickers and the hub; weak fairness is enough, as the lock is never contended for ever.

## What is proved

Every invariant and action property of a run that passes is a theorem, for any number of
actors, clients, callers, slots, commands, starts or configuration entries. What the
constants are assumed to be is in the `ASSUME`s of the modules: `MaxRestarts` a positive number (the
configuration's default makes zero five), the sets of actors disjoint, placeholders such
as `NoCmd` not among the real values, `Events` among the known ones. No set of actors is assumed
finite. Where a theorem needs more, it says so and the text below says why. Each
inductive invariant stands at the end of the module it is about and was model-checked
before it was proved; only those of `ProcessPolicyProof` stand beside their proofs.

`ProcessProof`. `TypeCorrect` is inductive by itself. The safety properties are not:
that a `Stop` may clear `p.cmd` without losing a child needs to know which child it
speaks of, through an unbounded wait during which other calls clear it too. `IInv` adds
`StopPins`: while `Stop` waits, the process it took from `p.cmd` is the only child there
can be; the ticker branch is reached with `running` cleared; SIGKILL has been sent, or a
signal refused, where `Stop` gives up. That in turn rests on `OneIncarnation` (nobody can spawn while a child
or its event is about) and `StopHolds` (nobody is restarting while a `Stop` that found
the instance running waits: the entitlement was in the child when it took the lock).
With these `IInv` is inductive: `ChildKeepsIInv`, `StartKeepsIInv`, `MonitorKeepsIInv`
and `StopKeepsIInv` go through the actions, `NextIInv` puts them together. From it
follow `ChildrenNeverOverlap`, `RunningIsNeverStale`, `NoChildEscapes`,
`StopIsEffective`, `StopSuccessIsReal`, `FailedInstanceIsQuiet`, the action property `FailedStaysFailed`, and
`ImplementsLifecycle`, where each action is shown to be a step of `Lifecycle` or to leave
`phase` alone. `StoppedInTimeIsFinal` and `WaitingStopIsFinal` are the positive side of
`ProcessStoppedIsFinal`: a stop that comes before a monitor has read the state Running is
final, and so is every Stop that found the instance running. What can be undone is a
Stop that found it between an exit and its restart.

`ProcessPolicyProof`. `BudgetIsRespected` assumes that restarts work: a failed restart
raises the counter without the test (376), and then nothing holds. `BudgetInv` says that
when the budget is spent nobody holds the entitlement. `HealthyIsNeverCounted` adds that
children do not exit by themselves and run under the application's context; no passing run
repeats it, and `ProcessWebStart` shows that the last assumption is needed.

`Backoff`. For every number of failures and every draw: `JitterVanishes`, `WaitIsBounded`
and `WaitsGrow`. The doubling is a table of the five values the code can reach, so no
induction is needed.

`GroupProof`. `Supervised` is not inductive: that an instance is watched once its call
has monitored it rests on `pg.processes` having been made by that call, not yet replaced
when `Monitor` read it (`StartHoldsLock`, `StartedOnce`), and on which slots the loop has
visited (`Watched`). `GroupInv` is these with the types, and needs nothing of the
environment; `InstancesAreSupervised` and `InstancesFollowLifecycle` follow, the latter
showing each step that changes an instance's phase to be one of `Lifecycle`, which is
what `ImplementsLifecycle` shows of the detailed `Process`.

The other two theorems have a hypothesis, `Quiet`: children do not exit by themselves, no
start request, and at most one restart. The code needs all three: a monitor may revive, after
`Stop` has looked, a child that was between an exit and its restart (`ProcessStoppedIsFinal`
shows it for one instance), and a start drops whatever is in the table. `QuietInv` then says that
main's instances stay what they are until stopped, that the instances not in the table
are not watched and, if they have a child, lost it in a start that timed out or run under a context
that is done, and that the table is replaced only when main's instances are gone or lost
(`Replaced`). It rests on `RunningIsUp`, a part of `GroupInv`: `p.running` is set only over a live child, and
cleared over one only where a Stop wrote it off. `Quiet` does not exclude contexts that end,
timeouts that strike in any step of `Stop`, starts that fail or time out, signals that are
refused, children that outlive SIGKILL, several concurrent stops or many slots. `NoChildIsOrphaned` follows; `StopTellsTheTruth` adds that there is no restart,
so that what `Stop` verifies is what it set out to stop (202).

`WSHubProof`. `HubInv` adds to the properties who holds `s.mu`, which client the
hub has in hand and where it is with it (`HubHandles`), and where the goroutines of a
connection can be (`ConnPhases`): a client is in the table only after its handler has
registered it, and a reader that has gone has handed its client to the hub. From these
`EntriesHaveReaders`, `RemovalCloses` and `FanOutVisitsOpenClients` follow for every set of
events. `NothingPanicsUndisturbed` is the other side of `WSHubLeave`: without a peer that leaves and
without a cancelled context nothing is ever sent on, or closed, twice.

`ReportingProof`. That a runtime is recorded once (`RuntimesAreCounted`) needs to know, at each
step of the wait goroutine and of `Stop`, which child `p.startTime` speaks of (`OneChild`);
`CountedOnce` keeps the failures within the starts. `StatusIsWritten` needs that whenever the gauge differs from the status some
goroutine still owes a write or the last one was overtaken (`ReportsAreDue`), `RunningHasChild`
that whoever has to notice an exit is still there (`ExitIsWatched`).

`ProgramProof`. `ProgramInv` follows `main` from statement to statement: which groups have a start
(`GroupsAreStarted`), what `main`'s call is about (`CallOfMain`), how far each part of the
shutdown has come (`ShutdownProceeds`), and for each group `StopIsAccountedFor`: from the moment
`main`'s `Stop` has copied the table, its unit is being told, is about to be forced, is known to
be late or lost, or has an error. `ShutdownCompletes` and the action property `WebStopEndsRequests` follow, for any
configuration and any number of requests.

Only model-checked: all liveness (`RestartsWithinBudget` apart, which is safety), since
fairness and `ENABLED` are outside what the prover handles; and the three counterexamples,
which are runs. `NoOrphans` and `StopIsTruthful` are neither true nor claimed without the hypotheses
above.

## Where code and documentation differ

Three have runs, listed under `findings`: the stale restart, the request's context and the
panic in the fan-out. These came up while modelling and have no run of their own:

* 380: a restart that fails is said to be retried; nothing calls `Start` again, and the
  instance stays `Running` without a child.
* 613: with `start_timeout` under 100 ms `Start` returns an error with the child alive, and
  the group forgets it (121).
* 906: when the monitor receives the exit event, `Stop` waits two seconds for it in vain
  and says "process still running after SIGKILL" of a dead process.
* 95: a start of a running group starts a second set beside the first
  (README.md:191, "Number of process instances to run").
* 983: `processExists` takes any error of signal 0 for "no such process". Where the kernel refuses
  the signal (a child that has changed its user), `Stop` logs "already exited (OS check)",
  clears `p.running` and `p.cmd` and returns nil over a live child (699-716).
* 888: when a child outlives SIGKILL by two seconds, `Stop` returns an error but clears
  `p.running`; a concurrent or later Stop of the group then finds nothing running and returns nil.
* 202, 219: `ProcessGroup.Stop` verifies and forces what `pg.processes` holds by then, not
  what it set out to stop. With a start meanwhile it returns nil over live children.
* 437: `pg.done` stays closed, so memory is not updated after the first stop.
* `websocket.go` 84: a full client is to be closed, but when its pump is stuck in a write
  the hub waits for the pump's lock, and all broadcasters for the hub.
* 115, 315: the callback knows running or not only. When it comes after Monitor's 2, a
  failed instance shows 1; when a callback is overtaken by a later change, the gauge shows the
  earlier status until the next one. A restart that fails leaves 0 (482) and no child.
* 643, 671: `Stop` records a runtime where its own condition cannot hold; the wait
  goroutine records each one, so nothing is missing.
* `metrics.go` 94, 104, 169: nobody calls `Register`, so `RecordStart`, `RecordStop` and the
  loop of `Collect` do nothing, and `goardian_process_status` and the uptime
  (README.md:120) have no values. `goardian_process_restarts_total` counts every start.
* `metrics.go` 126: the memory gauge has no instance label; the last instance measured wins.
* `server.go` 42: only the instances there 500 ms after the start get the broadcasting
  callback; the dashboards hear of later ones once a second.
* `main.go` 89: `web_addr` of the file (README.md:36) is not used, the flag is.
* `process.go` 80: a negative `numprocs` panics while the groups are added.
* `websocket.go` 101 and `main.go` 109: the hub's stop has no deadline; a dashboard that stalls
  in the middle of a write holds up the shutdown, `shutdown_delay` or not.
* 225 and `server.go` 60: a stop that `main` forces in `StopAll` calls `StateChanged` itself, and
  with it a broadcast; while the hub waits for the lock of a client that stalls, it never returns,
  and the groups that follow are not stopped.
* `websocket.go` 191: a client that connects when the hub has exited blocks in its handler for
  the program's last instants.
* `websocket.go` 105: main's deferred cancel makes the hub stop a second time, and the
  second close of `s.done` panics if it comes before the process is gone.
* `server.go` 197, 207: `running` and the count of running instances are read separately.
* 1017: the jitter is lost (`JitterVanishes`), and the cap of a minute unreachable.
* README.md:192 and `config.go` 16, 21-25: `exit_codes`, `restart_delay` and the backoff
  settings are parsed and never read.

## Not modelled

* The output pump (557): a goroutine that copies stdout to its end and then stderr. It shares
  no state with the rest; that a child blocks on a stderr pipe nobody reads yet, and that
  `Wait` closes the pipes under a copy that is behind, follows from the order of the lines
  and the pipe's capacity alone.
* `totalRestarts`, uptime and the counters: reported, never decided upon.
* The parsing of `/proc/<pid>/statm` and of `ps`, of YAML, and the formatting of sizes and
  durations; the defaults of `config.go` that only set durations.
* Logger, static files, read-only handlers: sequential, no shared state.
* The dashboard script: the hub sees a peer.
* Negative `max_restarts`: outside the constants' assumptions.
* Data races as such (`stopErrors` (272), `StateChanged`, `p.cmd` read unlocked): named as
  hazards; the value read is modelled, a torn read is not.

## Plan

Done: all modules, and a theorem for every safety property of the runs that pass. What remains:

1. `Group`: `Quiet` for several restarts. Two at once do replace each other's live instances
   (95), so what can be proved is about restarts that follow one another.
2. `Lifecycle`: what it implies by itself, so that `Group` inherits from its refinement that
   an exit is consumed once.
