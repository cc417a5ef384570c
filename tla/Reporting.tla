----------------------------- MODULE Reporting -----------------------------
(***************************************************************************)
(* What others are told of one process instance: the status gauge, the     *)
(* runtime histogram and the memory figure of internal/metrics, and the    *)
(* last event a dashboard was sent (internal/web).  The status is written  *)
(* by the Start, Stop and Monitor of internal/process and by the           *)
(* StateChanged callback, which each of them and the wait goroutine call   *)
(* after they have unlocked the instance, so the writes race.              *)
(*                                                                         *)
(* The life of the instance is that of module Process, with one Monitor    *)
(* and one Stop and without the error paths that do not touch a report.    *)
(***************************************************************************)
EXTENDS Naturals, FiniteSets

CONSTANTS
    MaxRestarts, \* config.MaxRestarts
    MaxStarts,   \* bound on the calls of Process.Start
    MaxInFlight, \* bound on the reporters that are busy when another callback begins
    Events       \* what the environment may do

Attempt == 1..MaxStarts

ASSUME ReportingAssumption ==
    /\ MaxRestarts \in Nat \ {0} /\ MaxStarts \in Nat \ {0} /\ MaxInFlight \in Nat \ {0}
    /\ Events \subseteq {"execFails", \* exec fails
                         "stop",      \* the group is stopped
                         "wrap"}      \* NewServer's goroutine finds the instance in its group

\* Those who report: one goroutine per started child, the wait goroutine, Stop, Monitor (which
\* calls Start), and the web server's one-second broadcaster.
Notifier == {<<"notify", a>> : a \in Attempt}
Reporter == Notifier \cup {<<r, 0>> : r \in {"waiter", "stop", "monitor", "periodic"}}
Waiter == <<"waiter", 0>>
Stopper == <<"stop", 0>>
Monitor == <<"monitor", 0>>
Periodic == <<"periodic", 0>>

VARIABLES
    p,          \* the Process: state, running, cmd, named by the start that made it, the start
                \* that startTime is of, failures; done is closed; locked by Start; StateChanged
                \* is wrapped; the exit in exitChan
    child,      \* per start: what has become of its child
    waiter,     \* pc; of, its child; was, p.running as it found it; began, the start whose
                \* time it takes the runtime from
    monitor,    \* pc
    stop,       \* pc of the one call of Process.Stop
    report,     \* per reporter: pc; val, the status to write; old: the instance has changed
                \* since it was looked at; show: an event to the dashboards follows
    gauge,      \* the instance's status gauge
    overtaken,  \* the last write of the gauge rested on something that had changed since, or
                \* was a callback's that came when the instance had failed
    runtimes,   \* how often the runtime since each start was recorded
    dashboard,  \* the last event about the instance shows it as it is
    memory      \* the start whose child p.memoryUsage was measured of

vars == <<p, child, waiter, monitor, stop, report, gauge, overtaken, runtimes,
          dashboard, memory>>
reports == <<gauge, overtaken, memory>>

ProcStates ==
    [state : {"Running", "Stopped", "Failed"}, running : BOOLEAN, cmd : 0..MaxStarts,
     started : 0..MaxStarts, failures : 0..MaxStarts, done : BOOLEAN, locked : BOOLEAN,
     wrapped : BOOLEAN, exit : {"none", "clean", "failure"}]
WaiterStates ==
    [pc : {"none", "wait", "record", "notify"}, of : 0..MaxStarts, was : BOOLEAN,
     began : 0..MaxStarts]
ReportStates ==
    [pc : {"idle", "read", "set", "show", "send"}, val : 0..2, old : BOOLEAN, show : BOOLEAN]

TypeOK ==
    /\ p \in ProcStates
    /\ child \in [Attempt -> {"none", "up", "clean", "failure"}]
    /\ waiter \in WaiterStates
    /\ monitor \in {"begin", "exec", "ready", "unlisted", "wait", "backoff", "over"}
    /\ stop \in {"idle", "wait", "leave", "done"}
    /\ report \in [Reporter -> ReportStates]
    /\ gauge \in 0..2 /\ overtaken \in BOOLEAN
    /\ runtimes \in [Attempt -> 0..1]
    /\ dashboard \in BOOLEAN
    /\ memory \in 0..MaxStarts

Idle == [pc |-> "idle", val |-> 0, old |-> FALSE, show |-> FALSE]

\* ProcessGroup.Start has made the instance and calls its Start.
Init ==
    /\ p = [state |-> "Running", running |-> FALSE, cmd |-> 0, started |-> 0, failures |-> 0,
            done |-> FALSE, locked |-> FALSE, wrapped |-> FALSE, exit |-> "none"]
    /\ child = [a \in Attempt |-> "none"]
    /\ waiter = [pc |-> "none", of |-> 0, was |-> FALSE, began |-> 0]
    /\ monitor = "begin" /\ stop = "idle"
    /\ report = [r \in Reporter |-> Idle]
    /\ gauge = 0 /\ overtaken = FALSE
    /\ runtimes = [a \in Attempt |-> 0]
    /\ dashboard = FALSE
    /\ memory = 0

\* The status as the gauge's help text has it.  An instance that was to be restarted and was
\* not, because exec failed, is none of the three.
Status == IF p.running THEN 0
          ELSE IF p.state = "Stopped" THEN 1
          ELSE IF p.state = "Failed" THEN 2
          ELSE gauge

Unlocked == ~p.locked
Silent(r) == report[r].pc = "idle"
Dead(a) == child[a] \in {"clean", "failure"}

\* A reporter is about to write a status it knows, or to call StateChanged as it is now.
Known(v) == [Idle EXCEPT !.pc = "set", !.val = v]
Callback == [Idle EXCEPT !.pc = "read", !.show = p.wrapped]

\* The instance changes, and what others have read and not yet reported, or have reported to
\* the dashboards, is no longer true.
Change(q, reported) ==
    LET changes == <<q.running, q.state>> # <<p.running, p.state>>
    IN  /\ p' = q
        /\ report' = [r \in Reporter |-> IF changes /\ report[r].pc \in {"set", "send"}
                                           THEN [reported[r] EXCEPT !.old = TRUE] ELSE reported[r]]
        /\ dashboard' = (dashboard /\ ~changes)
With(r, what) == [report EXCEPT ![r] = what]
Same == report

\* The bound on concurrent reports; what it forbids is late, not impossible.
Room == Cardinality({r \in Reporter \ {Periodic} : ~Silent(r)}) < MaxInFlight

\* The group lists the instance when its first Start has succeeded, and drops it otherwise.
Listed == p.started > 1 \/ monitor \notin {"begin", "exec", "ready", "unlisted"}

-----------------------------------------------------------------------------
(* Process.Start, called by the group and then by Monitor.                 *)

\* The state and the times are set, and after the unlock the gauge.
StartBegins ==
    /\ monitor = "begin" /\ p.started < MaxStarts /\ Unlocked
    /\ Change([p EXCEPT !.state = "Running", !.started = @ + 1], With(Monitor, Known(0)))
    /\ monitor' = "exec"
    /\ UNCHANGED <<child, waiter, stop, runtimes, reports>>

\* Start keeps the lock from here to its return.  p.running was clear when it was called
\* (module Process), so the change is notified, by a goroutine of its own.
StartSpawns ==
    /\ monitor = "exec" /\ Silent(Monitor) /\ Unlocked /\ Room
    /\ child' = [child EXCEPT ![p.started] = "up"]
    /\ waiter' = [pc |-> "wait", of |-> p.started, was |-> FALSE, began |-> 0]
    /\ Change([p EXCEPT !.running = TRUE, !.cmd = p.started, !.locked = TRUE],
              With(<<"notify", p.started>>, Callback))
    /\ monitor' = "ready"
    /\ UNCHANGED <<stop, runtimes, reports>>

\* A restart that fails is counted, and no event will wake Monitor again.
StartFails ==
    /\ "execFails" \in Events
    /\ monitor = "exec" /\ Silent(Monitor) /\ Unlocked
    /\ IF p.started = 1 THEN monitor' = "unlisted" /\ UNCHANGED p
                        ELSE monitor' = "wait" /\ p' = [p EXCEPT !.failures = @ + 1]
    /\ UNCHANGED <<child, waiter, stop, report, dashboard, runtimes, reports>>

StartReturns ==
    /\ monitor = "ready"
    /\ p' = [p EXCEPT !.locked = FALSE]
    /\ monitor' = "wait"
    /\ UNCHANGED <<child, waiter, stop, report, dashboard, runtimes, reports>>

-----------------------------------------------------------------------------
(* The child and its wait goroutine.                                       *)

ChildExits(a) ==
    /\ child[a] = "up"
    /\ \E how \in {"clean", "failure"} : child' = [child EXCEPT ![a] = how]
    /\ UNCHANGED <<p, waiter, monitor, stop, report, dashboard, runtimes, reports>>

\* Mutant: the runtime of a child that Stop has seen go is left to Stop to record.
WaiterLeavesItToStop ==
    /\ waiter.pc = "wait" /\ Dead(waiter.of) /\ Unlocked
    /\ waiter' = [waiter EXCEPT !.pc = IF p.running THEN "record" ELSE "notify",
                               !.was = p.running, !.began = p.started]
    /\ Change([p EXCEPT !.running = FALSE], Same)
    /\ UNCHANGED <<child, monitor, stop, runtimes, reports>>

\* Mutant: StateChanged is called under the lock it takes itself.
WaiterNotifiesLocked ==
    /\ waiter.pc = "wait" /\ Dead(waiter.of) /\ Unlocked
    /\ waiter' = [waiter EXCEPT !.pc = "record", !.was = p.running, !.began = p.started]
    /\ Change([p EXCEPT !.running = FALSE, !.locked = TRUE], Same)
    /\ UNCHANGED <<child, monitor, stop, runtimes, reports>>

\* Wait has returned; under the lock the runtime is taken from p.startTime.
WaiterLocks ==
    /\ waiter.pc = "wait" /\ Dead(waiter.of) /\ Unlocked
    /\ waiter' = [waiter EXCEPT !.pc = "record", !.was = p.running, !.began = p.started]
    /\ Change([p EXCEPT !.running = FALSE], Same)
    /\ UNCHANGED <<child, monitor, stop, runtimes, reports>>

WaiterRecords ==
    /\ waiter.pc = "record" /\ Room
    /\ runtimes' = [runtimes EXCEPT ![waiter.began] = @ + 1]
    /\ waiter' = [waiter EXCEPT !.pc = "notify"]
    /\ report' = IF waiter.was THEN With(Waiter, Callback) ELSE Same
    /\ UNCHANGED <<p, child, monitor, stop, dashboard, reports>>

\* The exit is sent when the callback has returned.
WaiterSends ==
    /\ waiter.pc = "notify" /\ Silent(Waiter) /\ p.exit = "none"
    /\ p' = [p EXCEPT !.exit = child[waiter.of]]
    /\ waiter' = [pc |-> "none", of |-> 0, was |-> FALSE, began |-> 0]
    /\ UNCHANGED <<child, monitor, stop, report, dashboard, runtimes, reports>>

-----------------------------------------------------------------------------
(* Process.Monitor.                                                        *)

\* Mutant: the status of a failed instance is not recorded.
MonitorFailsSilently ==
    /\ monitor = "wait" /\ p.exit # "none" /\ Unlocked
    /\ LET failed == p.state = "Running" /\ p.exit = "failure"
           last == failed /\ p.failures + 1 >= MaxRestarts
           count == p.failures + (IF failed THEN 1 ELSE 0)
       IN  /\ Change([p EXCEPT !.exit = "none", !.failures = count,
                               !.state = IF last THEN "Failed" ELSE @], Same)
           /\ monitor' = IF last \/ p.state # "Running" THEN "over"
                         ELSE IF failed THEN "backoff" ELSE "begin"
    /\ UNCHANGED <<child, waiter, stop, runtimes, reports>>

\* Mutant: a child that ended well is not restarted.
MonitorAcceptsCleanExit ==
    /\ monitor = "wait" /\ p.exit # "none" /\ Unlocked
    /\ LET failed == p.state = "Running" /\ p.exit = "failure"
           last == failed /\ p.failures + 1 >= MaxRestarts
           count == p.failures + (IF failed THEN 1 ELSE 0)
       IN  /\ IF last
                THEN Change([p EXCEPT !.exit = "none", !.failures = count, !.state = "Failed"],
                            With(Monitor, Known(2)))
                ELSE Change([p EXCEPT !.exit = "none", !.failures = count], Same)
           /\ monitor' = IF failed /\ ~last THEN "backoff" ELSE "over"
    /\ UNCHANGED <<child, waiter, stop, runtimes, reports>>

\* The exit is received and the state read; a failure is counted, and after one too many the
\* gauge is set once the lock is free.
MonitorReceives ==
    /\ monitor = "wait" /\ p.exit # "none" /\ Unlocked
    /\ LET failed == p.state = "Running" /\ p.exit = "failure"
           last == failed /\ p.failures + 1 >= MaxRestarts
           count == p.failures + (IF failed THEN 1 ELSE 0)
       IN  /\ IF last
                THEN Change([p EXCEPT !.exit = "none", !.failures = count, !.state = "Failed"],
                            With(Monitor, Known(2)))
                ELSE Change([p EXCEPT !.exit = "none", !.failures = count], Same)
           /\ monitor' = IF last \/ p.state # "Running" THEN "over"
                         ELSE IF failed THEN "backoff" ELSE "begin"
    /\ UNCHANGED <<child, waiter, stop, runtimes, reports>>

BackoffEnds ==
    /\ monitor = "backoff"
    /\ monitor' \in {"begin"} \cup {over \in {"over"} : p.done}
    /\ UNCHANGED <<p, child, waiter, stop, report, dashboard, runtimes, reports>>

MonitorDone ==
    /\ monitor = "wait" /\ p.done
    /\ monitor' = "over"
    /\ UNCHANGED <<p, child, waiter, stop, report, dashboard, runtimes, reports>>

-----------------------------------------------------------------------------
(* Process.Stop.                                                           *)

\* An instance that is not running is stopped at once, without a callback.
StopBegins ==
    /\ "stop" \in Events /\ stop = "idle" /\ Listed /\ Unlocked
    /\ IF p.running
         THEN stop' = "wait" /\ Change([p EXCEPT !.state = "Stopped"], Same)
         ELSE stop' = "leave" /\ Change([p EXCEPT !.state = "Stopped", !.done = TRUE],
                                       With(Stopper, Known(1)))
    /\ UNCHANGED <<child, waiter, monitor, runtimes, reports>>

\* Mutant: Stop records the runtime of the child that its wait has seen go.
StopRecordsToo ==
    /\ stop = "wait" /\ Unlocked /\ Room
    /\ \E exit \in {"none", p.exit}, told \in BOOLEAN :
         /\ p.running => told
         /\ Change([p EXCEPT !.running = FALSE, !.cmd = 0, !.done = TRUE, !.exit = exit],
                   IF told THEN With(Stopper, Callback) ELSE Same)
    /\ runtimes' = [runtimes EXCEPT ![p.started] = @ + 1]
    /\ stop' = "leave"
    /\ UNCHANGED <<child, waiter, monitor, reports>>

\* After the wait p.running and p.cmd are cleared and the callback is called: if the instance
\* was running till now, with the exit event or after giving up as well, and otherwise when a
\* look at the pid or at p.running, not the exit event, showed that the child is gone.
StopEnds ==
    /\ stop = "wait" /\ Unlocked /\ Room
    /\ \E exit \in {"none", p.exit}, told \in BOOLEAN :
         /\ p.running => told
         /\ Change([p EXCEPT !.running = FALSE, !.cmd = 0, !.done = TRUE, !.exit = exit],
                   IF told THEN With(Stopper, Callback) ELSE Same)
    /\ stop' = "leave"
    /\ UNCHANGED <<child, waiter, monitor, runtimes, reports>>

\* Its context ends; or it is through.  ProcessGroup.Stop then closes pg.done.
StopReturns ==
    /\ stop = "wait" \/ (stop = "leave" /\ Silent(Stopper))
    /\ stop' = "done"
    /\ UNCHANGED <<p, child, waiter, monitor, report, dashboard, runtimes, reports>>

-----------------------------------------------------------------------------
(* The callback and the web server's events.                               *)

Report(r, after) == report' = [report EXCEPT ![r] = after]

\* RecordStateChange is passed what IsRunning returns.
CallbackReads(r) ==
    /\ report[r].pc = "read" /\ Unlocked
    /\ Report(r, [report[r] EXCEPT !.pc = "set", !.val = IF p.running THEN 0 ELSE 1])
    /\ UNCHANGED <<p, child, waiter, monitor, stop, runtimes, dashboard, reports>>

\* The gauge is set; the wrapped callback goes on to BroadcastProcessState.
SetsGauge(r) ==
    /\ report[r].pc = "set"
    /\ gauge' = report[r].val
    /\ overtaken' = (report[r].old \/ (p.state = "Failed" /\ r # Monitor))
    /\ Report(r, IF report[r].show THEN [Idle EXCEPT !.pc = "show"] ELSE Idle)
    /\ UNCHANGED <<p, child, waiter, monitor, stop, runtimes, dashboard, memory>>

\* It reads p.running, p.state and the rest one after the other, the lock free for others in
\* between: from the first look on the event may be out of date.
EventReads(r) ==
    /\ report[r].pc = "show" /\ Unlocked
    /\ Report(r, [Idle EXCEPT !.pc = "send"])
    /\ UNCHANGED <<p, child, waiter, monitor, stop, runtimes, dashboard, reports>>

\* Broadcast waits for the hub.
EventIsSent(r) ==
    /\ report[r].pc = "send"
    /\ dashboard' = ~report[r].old
    /\ Report(r, Idle)
    /\ UNCHANGED <<p, child, waiter, monitor, stop, runtimes, reports>>

\* Mutant: the periodic broadcaster leaves instances that do not run to the callback.
PeriodicSkipsStopped ==
    /\ Listed /\ Silent(Periodic) /\ Unlocked /\ p.running
    /\ Report(Periodic, [Idle EXCEPT !.pc = "send"])
    /\ UNCHANGED <<p, child, waiter, monitor, stop, runtimes, dashboard, reports>>

\* Every second, and 100 ms after a request, for each instance in the groups.
PeriodicTicks ==
    /\ Listed /\ Silent(Periodic) /\ Unlocked
    /\ Report(Periodic, [Idle EXCEPT !.pc = "send"])
    /\ UNCHANGED <<p, child, waiter, monitor, stop, runtimes, dashboard, reports>>

\* 500 ms after the web server was made; an instance of a later start is never wrapped.
Wrap ==
    /\ "wrap" \in Events /\ Listed /\ ~p.wrapped
    /\ p' = [p EXCEPT !.wrapped = TRUE]
    /\ UNCHANGED <<child, waiter, monitor, stop, report, dashboard, runtimes, reports>>

-----------------------------------------------------------------------------
(* The memory goroutine of ProcessGroup.Monitor, which pg.done ends.       *)

\* The pid is taken under the lock and looked up without it; nothing is stored when it is
\* gone by then.  As children do not overlap, the outcome is that of one step.
UpdateMemoryUsage ==
    /\ Unlocked /\ p.running /\ p.cmd # 0 /\ child[p.cmd] = "up"
    /\ memory' = p.cmd
    /\ UNCHANGED <<p, child, waiter, monitor, stop, report, dashboard, runtimes, gauge, overtaken>>

\* Mutant: a timer in place of the ticker.
MemoryTicksOnce == Listed /\ stop # "done" /\ memory = 0 /\ UpdateMemoryUsage

\* Every second, until pg.done is closed.
MemoryTicks == Listed /\ stop # "done" /\ UpdateMemoryUsage

-----------------------------------------------------------------------------
StartStep == StartBegins \/ StartSpawns \/ StartFails \/ StartReturns
WaiterStep == WaiterLocks \/ WaiterRecords \/ WaiterSends
MonitorStep == MonitorReceives \/ BackoffEnds \/ MonitorDone
ReportStep(r) ==
    \/ CallbackReads(r) \/ SetsGauge(r)
    \/ EventReads(r) \/ EventIsSent(r)

Next ==
    \/ StartStep \/ WaiterStep \/ MonitorStep \/ MemoryTicks
    \/ StopBegins \/ StopEnds \/ StopReturns
    \/ \E a \in Attempt : ChildExits(a)
    \/ \E r \in Reporter : ReportStep(r)
    \/ PeriodicTicks \/ Wrap

Spec == Init /\ [][Next]_vars

\* Every goroutine is scheduled, Stop's timeouts and the tickers elapse, and the hub takes
\* what it is sent, as module WSHub has it when no dashboard stalls (BroadcastReturns).
\* Callbacks share one condition, which is enough because none of them goes on for ever.
\* Nothing is assumed of children and of the operator.
FairSpec ==
    /\ Spec
    /\ WF_vars(StartStep) /\ WF_vars(WaiterStep) /\ WF_vars(MonitorStep)
    /\ WF_vars(StopEnds \/ StopReturns)
    /\ WF_vars(\E r \in Reporter \ {Periodic} : ReportStep(r))
    /\ WF_vars(PeriodicTicks \/ ReportStep(Periodic))
    /\ WF_vars(MemoryTicks)

-----------------------------------------------------------------------------
\* Nobody but the periodic broadcaster is about to change or report anything.
AtRest ==
    /\ \A r \in Reporter \ {Periodic} : Silent(r)
    /\ monitor = "over" \/ (monitor = "wait" /\ p.exit = "none")
    /\ waiter.pc = "none" \/ (waiter.pc = "wait" /\ ~Dead(waiter.of))
    /\ stop \in {"idle", "done"}

\* At rest the gauge shows the status the instance has, unless the goroutine that wrote it
\* last had made up its mind before the instance changed once more, or was a callback that
\* came after Monitor's report of the failure and knows only running or not.
StatusIsReported == AtRest => (gauge = Status \/ overtaken)

\* An instance that calls itself Running for good has a child, unless its restart failed in
\* exec, after which nobody tries again, or Stop had closed p.done when a monitor revived it,
\* so that the monitor left and missed the exit of the child it had started.
RunningIsTrue ==
    (AtRest /\ p.state = "Running" /\ ~p.running) => (child[p.started] = "none" \/ p.done)

\* The runtime of every child is recorded once, when it has ended, and measured from its own
\* start, whatever the next Start does meanwhile and Stop, which has code to record it too.
RuntimeIsRecordedOnce ==
    \A a \in Attempt :
        runtimes[a] = IF Dead(a) /\ ~(waiter.of = a /\ waiter.pc \in {"wait", "record"}) THEN 1 ELSE 0

\* An exit gets through to exitChan, although the callback has to come back first and needs
\* the lock that Start and Stop take as well.
ExitIsDelivered == (waiter.pc = "wait" /\ Dead(waiter.of)) ~> (waiter.pc = "none")

\* When the instance comes to rest, the dashboards are right in the end, in whichever order
\* the events about its last changes were sent.
DashboardCatchesUp == <>[]AtRest => <>[]dashboard

\* The memory figure of a child that keeps running is in the end its own, unless the group
\* was stopped before, which ends the measurements for good.
MemoryCatchesUp ==
    <>[](AtRest /\ p.running /\ stop # "done") => <>[](memory = p.cmd)
\* What the invariants need to be inductive.  Monitor comes back to Start only when the wait
\* goroutine of the last child is through and its exit was taken, so that goroutine, its
\* child and the times it reads are all of the last start.
OneChild ==
    /\ waiter.pc = "none" => waiter.of = 0
    /\ waiter.pc # "none" => waiter.of \in Attempt /\ waiter.of = p.started
    /\ waiter.pc = "wait" => child[waiter.of] # "none"
    /\ waiter.pc \in {"record", "notify"} => Dead(waiter.of) /\ waiter.began = waiter.of
    /\ waiter.pc \in {"record", "notify"} \/ p.exit # "none" => ~p.running
    /\ p.exit # "none" => waiter.pc = "none"
    /\ monitor \in {"begin", "exec", "backoff"} => waiter.pc = "none" /\ p.exit = "none"
    /\ monitor \in {"exec", "ready", "wait"} => p.started \in Attempt
    /\ monitor = "exec" => child[p.started] = "none"
    /\ \A a \in Attempt :
         /\ a > p.started => child[a] = "none"
         /\ child[a] = "up" => waiter.pc = "wait" /\ waiter.of = a

\* Each start is counted as a failure at most once, when nothing of it is left.
CountedOnce ==
    /\ p.failures <= p.started
    /\ monitor \in {"exec", "ready"} \/ waiter.pc # "none" \/ p.exit # "none" =>
         p.failures < p.started

\* Somebody still has the exit of the last child to handle, or p.done is closed.
ExitIsWatched ==
    /\ waiter.pc = "wait" => p.running \/ p.done
    /\ monitor = "over" => p.state # "Running" \/ p.done
    /\ monitor \in {"ready", "wait"} /\ child[p.started] # "none" =>
         waiter.pc # "none" \/ p.exit # "none" \/ p.done

\* A status that a reporter is about to write, and that has not changed since, is right as
\* far as its reporter can tell; and the gauge shows the status, or somebody is about to
\* write it, or it was overtaken.
Pending == (\E r \in Reporter : report[r].pc \in {"read", "set"}) \/ (waiter.pc = "record" /\ waiter.was)
ReportsAreDue ==
    /\ report[Periodic].pc \in {"idle", "send"}
    /\ report[Monitor].pc # "read" /\ report[Monitor].val # 1
    /\ \A r \in Reporter : report[r].pc = "set" /\ ~report[r].old =>
         \/ report[r].val = 0 /\ (p.running \/ p.state = "Running")
         \/ report[r].val = 1 /\ ~p.running
         \/ report[r].val = 2 /\ ~p.running /\ p.state = "Failed"
    /\ overtaken \/ gauge = Status \/ Pending

ReportingInv ==
    /\ TypeOK
    /\ OneChild
    /\ CountedOnce
    /\ ExitIsWatched
    /\ RuntimeIsRecordedOnce
    /\ ReportsAreDue
=============================================================================
