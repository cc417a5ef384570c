------------------------------- MODULE Group -------------------------------
(***************************************************************************)
(* A process group and those who drive it: type ProcessGroup of            *)
(* internal/process/process.go, the handlers of internal/web/server.go,    *)
(* and main with the manager, which start, monitor and at last stop the    *)
(* group.  Each of them calls Start at most once, so an instance is named  *)
(* by the call that created it and its slot.                               *)
(*                                                                         *)
(* An instance is seen from outside, as module Lifecycle does: whether it  *)
(* has a child, an exit event, a monitor about to restart it, or nothing,  *)
(* and what p.running says, which is another matter: two ways out of       *)
(* Process.Stop clear it over a live child.  Process.Stop is its first     *)
(* critical section, a wait, and its result.                               *)
(***************************************************************************)
EXTENDS Naturals, FiniteSets

CONSTANTS
    Main,      \* the goroutine of func main, with the manager's calls
    Starts,    \* requests POST /api/processes/{group}/start
    Stops,     \* requests .../stop
    Restarts,  \* requests .../restart
    NumProcs,  \* config.NumProcs
    Nobody,    \* pg.mu is free; pg.processes was never made
    Events     \* what the environment may do

Request == Starts \cup Stops \cup Restarts
Caller == {Main} \cup Request
Slot == 1..NumProcs
Obj == Caller \X Slot

ASSUME NumProcsAssumption == NumProcs \in Nat \ {0}
ASSUME CallersAssumption ==
    /\ Main \notin Request
    /\ Starts \cap Stops = {} /\ Starts \cap Restarts = {} /\ Stops \cap Restarts = {}
    /\ Nobody \notin Caller
ASSUME GroupEventsAssumption ==
    Events \subseteq {"exit",       \* a child exits by itself
                      "execFails",  \* exec fails
                      "slowStart",  \* start_timeout elapses while Start waits for its child
                      "outlives",   \* a child lives on two seconds after SIGKILL
                      "eperm",      \* the kernel refuses a child Goardian's signals
                      "leave",      \* a client leaves before its request is served
                      "shutdown",   \* main receives a signal
                      "deadline"}   \* main's shutdown_delay elapses

VARIABLES
    pg,        \* current: the Start call that made pg.processes; listed: the instances written
               \* into a pg.processes; mu: who holds pg.mu across steps; done: pg.done is closed
    call,      \* per caller: pc; todo, the slots its loop has still to visit; view, the
               \* pg.processes its Monitor ranges over; targets, the instances its Stop copied
               \* from pg.processes; failed: its Stop has an error to return
    ended,     \* callers whose context is done
    stopping,  \* calls of Process.Stop in progress
    inst       \* per instance: phase; running, p.running; state, p.state; closed: p.done is
               \* closed; own: its child runs under the context of the request that made it;
               \* monitors: the Monitor calls that watch it; lost: why the program no longer
               \* knows of its live child (what happened to it, not a variable of the code)

vars == <<pg, call, ended, stopping, inst>>

StopSteps == {"stop", "wait", "verify", "force", "forcing", "close"}
StopCalls == [by : Caller, obj : Obj, force : BOOLEAN, waiting : BOOLEAN]

PgStates ==
    [current : Caller \cup {Nobody}, listed : SUBSET Obj, mu : Caller \cup {Nobody},
     done : BOOLEAN]
CallSteps ==
    StopSteps \cup {"idle", "start", "starting", "monitor", "attach", "serving",
                    "reply", "refuse", "ok", "error"}
CallStates ==
    [pc : CallSteps,
     todo : SUBSET Slot, view : Caller \cup {Nobody}, targets : SUBSET Obj, failed : BOOLEAN]
InstStates ==
    [phase : {"new", "up", "exited", "starting", "over"}, running : BOOLEAN,
     lost : {"no", "abandoned", "killed", "refused"},
     state : {"Running", "Stopped", "Failed"}, closed : BOOLEAN, own : BOOLEAN,
     monitors : SUBSET Caller]

TypeOK ==
    /\ pg \in PgStates
    /\ call \in [Caller -> CallStates]
    /\ ended \subseteq Caller
    /\ stopping \subseteq StopCalls
    /\ inst \in [Obj -> InstStates]

\* main has added the group and calls StartAll.
Init ==
    /\ pg = [current |-> Nobody, listed |-> {}, mu |-> Nobody, done |-> FALSE]
    /\ call = [c \in Caller |-> [pc |-> IF c = Main THEN "start" ELSE "idle", todo |-> {},
                                 view |-> Nobody, targets |-> {}, failed |-> FALSE]]
    /\ ended = {}
    /\ stopping = {}
    /\ inst = [o \in Obj |-> [phase |-> "new", running |-> FALSE, lost |-> "no",
                              state |-> "Running", closed |-> FALSE, own |-> FALSE,
                              monitors |-> {}]]

At(c, step) == call[c].pc = step
Free == pg.mu = Nobody
Processes == {o \in pg.listed : o[1] = pg.current}
Up(o) == inst[o].phase = "up"
\* IsRunning.
Running(o) == inst[o].running

-----------------------------------------------------------------------------
(* The instances.                                                          *)

InstStep(o, after) ==
    /\ inst' = [inst EXCEPT ![o] = after]
    /\ UNCHANGED <<pg, call, ended, stopping>>

\* exec.CommandContext kills a child whose context is done.
Doomed(o) == inst[o].own /\ o[1] \in ended

\* A child exits by itself, or because it was signalled, or killed with its context.  Its
\* waiter clears p.running before it reports the exit.
ChildExits(o) ==
    /\ Up(o)
    /\ "exit" \in Events \/ inst[o].state = "Stopped" \/ Doomed(o)
    /\ InstStep(o, [inst[o] EXCEPT !.phase = "exited", !.running = FALSE, !.lost = "no"])

\* Monitor receives the exit and reads the state: it will restart, or it returns.
MonitorTakesExit(m, o) ==
    /\ m \in inst[o].monitors /\ inst[o].phase = "exited"
    /\ InstStep(o, IF inst[o].state = "Running"
                     THEN [inst[o] EXCEPT !.phase = "starting"]
                     ELSE [inst[o] EXCEPT !.phase = "over", !.monitors = @ \ {m}])

\* Instead of a restart: the failure was one too many, or p.done is closed in backoff.
MonitorGivesUp(m, o) ==
    /\ m \in inst[o].monitors /\ inst[o].phase = "starting"
    /\ \E after \in {"Failed"} \cup {s \in {inst[o].state} : inst[o].closed} :
         InstStep(o, [inst[o] EXCEPT !.phase = "over", !.state = after, !.running = FALSE,
                                     !.monitors = @ \ {m}])

\* Mutant: Monitor heeds p.done only while the instance is marked stopped.
MonitorChecksState(m, o) ==
    /\ m \in inst[o].monitors /\ inst[o].closed /\ inst[o].state = "Stopped"
    /\ inst[o].phase = "starting" => inst[o].monitors # {m}
    /\ InstStep(o, [inst[o] EXCEPT !.monitors = @ \ {m}])

\* Monitor sees p.done closed in its select; it is not the one that is restarting.
MonitorQuits(m, o) ==
    /\ m \in inst[o].monitors /\ inst[o].closed
    /\ inst[o].phase = "starting" => inst[o].monitors # {m}
    /\ InstStep(o, [inst[o] EXCEPT !.monitors = @ \ {m}])

\* Mutant: an instance that was given up is restarted as well.
MonitorRevives(o) ==
    /\ inst[o].phase \in {"starting", "over"} /\ inst[o].monitors # {}
    /\ InstStep(o, [inst[o] EXCEPT !.phase = "up", !.running = TRUE, !.state = "Running",
                                   !.own = FALSE])

\* The restart: Start sets the state to Running again and uses the application's context.
\* Where start_timeout elapses Start fails, but the child is that of this instance still.
MonitorRestarts(o) ==
    /\ inst[o].phase = "starting"
    /\ InstStep(o, [inst[o] EXCEPT !.phase = "up", !.running = TRUE, !.state = "Running",
                                   !.own = FALSE])

MonitorFailsToRestart(o) ==
    /\ inst[o].phase = "starting" /\ "execFails" \in Events
    /\ InstStep(o, [inst[o] EXCEPT !.phase = "over", !.state = "Running"])

-----------------------------------------------------------------------------
(* Process.Stop, called for one instance by a ProcessGroup.Stop.           *)

StopCall(c, o, forced) == [by |-> c, obj |-> o, force |-> forced, waiting |-> FALSE]

\* First critical section: with p.running cleared Stop returns at once.
StopInstance(s) ==
    /\ s \in stopping /\ ~s.waiting
    /\ stopping' = (stopping \ {s}) \cup
                   {t \in {[s EXCEPT !.waiting = TRUE]} : Running(s.obj)}
    /\ inst' = [inst EXCEPT ![s.obj].state = "Stopped",
                            ![s.obj].closed = @ \/ ~Running(s.obj)]
    /\ UNCHANGED <<pg, call, ended>>

\* The caller's stopErrors gets the error, unless ProcessGroup.Stop has read it already; that
\* of a forced stop is only logged.
Fails(s) ==
    call' = [call EXCEPT ![s.by].failed = @ \/ (~s.force /\ call[s.by].pc \in StopSteps)]

\* Stop received the exit event, or saw p.running or p.cmd cleared by the waiter or by
\* another Stop, and returns nil.
StopInstanceEnds(s) ==
    /\ s \in stopping /\ s.waiting /\ ~Running(s.obj)
    /\ stopping' = stopping \ {s}
    /\ inst' = [inst EXCEPT ![s.obj].closed = TRUE,
                            ![s.obj].phase = IF @ = "exited" THEN "over" ELSE @]
    /\ UNCHANGED <<pg, call, ended>>

\* processExists takes a refused signal 0 for "no such process": Stop returns nil and has
\* cleared p.running over a live child.
StopInstanceFindsNoPid(s) ==
    /\ s \in stopping /\ s.waiting /\ "eperm" \in Events /\ Up(s.obj)
    /\ stopping' = stopping \ {s}
    /\ inst' = [inst EXCEPT ![s.obj].closed = TRUE, ![s.obj].running = FALSE,
                            ![s.obj].lost = "refused"]
    /\ UNCHANGED <<pg, call, ended>>

\* No exit event within two seconds of SIGKILL: the child lives on, or its monitor took the
\* event.  Stop clears p.running all the same and returns an error.
StopInstanceGivesUp(s) ==
    /\ s \in stopping /\ s.waiting /\ Up(s.obj) => "outlives" \in Events
    /\ stopping' = stopping \ {s}
    /\ inst' = [inst EXCEPT ![s.obj].closed = TRUE, ![s.obj].running = FALSE,
                            ![s.obj].lost = IF Up(s.obj) THEN "killed" ELSE @]
    /\ Fails(s)
    /\ UNCHANGED <<pg, ended>>

\* The caller's context is done first, or the three seconds of a forced stop are over.
StopInstanceCtxDone(s) ==
    /\ s \in stopping /\ s.waiting
    /\ s.force \/ s.by \in ended
    /\ stopping' = stopping \ {s}
    /\ Fails(s)
    /\ UNCHANGED <<pg, ended, inst>>

-----------------------------------------------------------------------------
(* ProcessGroup.Start: pg.mu is held from the first step to the last.      *)

CallStep(c, after) ==
    /\ call' = [call EXCEPT ![c] = after]
    /\ UNCHANGED ended

Goto(c, step) == CallStep(c, [call[c] EXCEPT !.pc = step])

\* Mutant: the early return forgets to unlock.
StartRefusedKeepsLock(c) ==
    /\ At(c, "start") /\ Free /\ c \in ended
    /\ pg' = [pg EXCEPT !.mu = c]
    /\ Goto(c, "refuse")
    /\ UNCHANGED <<stopping, inst>>

StartRefused(c) ==
    /\ At(c, "start") /\ Free /\ c \in ended
    /\ Goto(c, "refuse")
    /\ UNCHANGED <<pg, stopping, inst>>

\* Mutant: the loop runs from 0 to NumProcs.
StartMakesOneMore(c) ==
    /\ At(c, "start") /\ Free /\ c \notin ended
    /\ pg' = [pg EXCEPT !.current = c, !.mu = c]
    /\ CallStep(c, [call[c] EXCEPT !.pc = "starting", !.todo = 0..NumProcs])
    /\ UNCHANGED <<stopping, inst>>

\* pg.processes is made anew, whatever the old one still runs.
StartMakesProcesses(c) ==
    /\ At(c, "start") /\ Free /\ c \notin ended
    /\ pg' = [pg EXCEPT !.current = c, !.mu = c]
    /\ CallStep(c, [call[c] EXCEPT !.pc = "starting", !.todo = Slot])
    /\ UNCHANGED <<stopping, inst>>

\* The caller's loop is at slot i, and goes on to step.
IsNext(c, i) == i \in call[c].todo /\ \A j \in call[c].todo : i <= j
Visit(c, i, step) ==
    IsNext(c, i) /\ CallStep(c, [call[c] EXCEPT !.pc = step, !.todo = @ \ {i}])

\* The child of slot i runs, under the context of the call.
Spawned(c, i, lost) ==
    inst' = [inst EXCEPT ![<<c, i>>].phase = "up", ![<<c, i>>].running = TRUE,
                         ![<<c, i>>].own = c # Main, ![<<c, i>>].lost = lost]

\* Process.Start succeeds: the instance enters pg.processes.
StartInstance(c, i) ==
    /\ At(c, "starting") /\ c \notin ended
    /\ Visit(c, i, "starting")
    /\ Spawned(c, i, "no")
    /\ pg' = [pg EXCEPT !.listed = @ \cup {<<c, i>>}]
    /\ UNCHANGED stopping

\* Process.Start fails: the slot stays nil, also when Start only stopped waiting for a child
\* that runs, because its context ended or start_timeout elapsed.
StartInstanceFails(c, i) ==
    /\ At(c, "starting")
    /\ Visit(c, i, "starting")
    /\ \/ /\ c \in ended \/ "execFails" \in Events
          /\ inst' = [inst EXCEPT ![<<c, i>>].phase = "over"]
       \/ c \in ended /\ Spawned(c, i, "no")
       \/ "slowStart" \in Events /\ Spawned(c, i, "abandoned")
    /\ UNCHANGED <<pg, stopping>>

StartReturns(c) ==
    /\ At(c, "starting") /\ call[c].todo = {}
    /\ pg' = [pg EXCEPT !.mu = Nobody]
    /\ Goto(c, "monitor")
    /\ UNCHANGED <<stopping, inst>>

-----------------------------------------------------------------------------
(* ProcessGroup.Monitor, which reads pg.processes without pg.mu.           *)

MonitorRanges(c) ==
    /\ At(c, "monitor")
    /\ CallStep(c, [call[c] EXCEPT !.pc = "attach", !.view = pg.current, !.todo = Slot])
    /\ UNCHANGED <<pg, stopping, inst>>

Watch(c, objects) ==
    inst' = [o \in Obj |-> IF o \in objects \cap pg.listed
                             THEN [inst[o] EXCEPT !.monitors = @ \cup {c}] ELSE inst[o]]

\* Mutant: the loop misses the first instance.
MonitorSkipsSlot(c, i) ==
    /\ At(c, "attach")
    /\ Visit(c, i, "attach")
    /\ Watch(c, {<<call[c].view, j>> : j \in {i} \ {1}})
    /\ UNCHANGED <<pg, stopping>>

MonitorAttaches(c, i) ==
    /\ At(c, "attach")
    /\ Visit(c, i, "attach")
    /\ Watch(c, {<<call[c].view, i>>})
    /\ UNCHANGED <<pg, stopping>>

MonitorReturns(c) ==
    /\ At(c, "attach") /\ call[c].todo = {}
    /\ CallStep(c, [call[c] EXCEPT !.pc = IF c = Main THEN "serving" ELSE "reply",
                                   !.view = Nobody])
    /\ UNCHANGED <<pg, stopping, inst>>

-----------------------------------------------------------------------------
(* ProcessGroup.Stop.                                                      *)

\* A copy of pg.processes is taken, and a goroutine started for each instance in it.
StopCopies(c) ==
    /\ At(c, "stop") /\ Free
    /\ CallStep(c, [call[c] EXCEPT !.pc = "wait", !.targets = Processes])
    /\ stopping' = stopping \cup {StopCall(c, o, FALSE) : o \in Processes}
    /\ UNCHANGED <<pg, inst>>

\* All p.Stop returned, ctx is done, or the group's timeout elapsed, in any order.
StopWaited(c) ==
    /\ At(c, "wait")
    /\ \E err \in {FALSE, (c \in ended)} :
         CallStep(c, [call[c] EXCEPT !.pc = "verify", !.failed = @ \/ err])
    /\ UNCHANGED <<pg, stopping, inst>>

\* Mutant: after its wait Stop takes all instances for stopped.
StopTrusts(c) ==
    /\ At(c, "verify") /\ Free
    /\ Goto(c, "close")
    /\ UNCHANGED <<pg, stopping, inst>>

\* Which instances of pg.processes, as it is now, are running?
StopVerifies(c) ==
    /\ At(c, "verify") /\ Free
    /\ LET unstopped == {o[2] : o \in {p \in Processes : Running(p)}}
       IN  CallStep(c, [call[c] EXCEPT !.todo = unstopped,
                                       !.pc = IF unstopped = {} THEN "close" ELSE "force"])
    /\ UNCHANGED <<pg, stopping, inst>>

\* The instance at an unstopped index, as pg.processes is now, is stopped once more.
StopForces(c, i) ==
    /\ At(c, "force") /\ Free
    /\ LET again == {o \in Processes : o[2] = i /\ Running(o)}
       IN  /\ Visit(c, i, IF again = {} THEN "force" ELSE "forcing")
           /\ stopping' = stopping \cup {StopCall(c, o, TRUE) : o \in again}
    /\ UNCHANGED <<pg, inst>>

StopForced(c) ==
    /\ At(c, "forcing")
    /\ \A s \in stopping : ~(s.by = c /\ s.force)
    /\ Goto(c, "force")
    /\ UNCHANGED <<pg, stopping, inst>>

StopVerifiesAgain(c) ==
    /\ At(c, "force") /\ call[c].todo = {} /\ Free
    /\ CallStep(c, [call[c] EXCEPT !.pc = "close",
                                   !.failed = @ \/ \E o \in Processes : Running(o)])
    /\ UNCHANGED <<pg, stopping, inst>>

\* Mutant: a restart goes on although its Stop failed.
StopIgnoresErrors(c) ==
    /\ At(c, "close") /\ Free
    /\ pg' = [pg EXCEPT !.done = TRUE]
    /\ Goto(c, IF c \in Restarts THEN "start" ELSE "reply")
    /\ UNCHANGED <<stopping, inst>>

\* pg.done is closed, once.  A restart goes on if Stop returned no error.
StopReturns(c) ==
    /\ At(c, "close") /\ Free
    /\ pg' = [pg EXCEPT !.done = TRUE]
    /\ Goto(c, IF call[c].failed THEN "refuse" ELSE IF c \in Restarts THEN "start" ELSE "reply")
    /\ UNCHANGED <<stopping, inst>>

-----------------------------------------------------------------------------
(* The callers.                                                            *)

\* The web server runs once main has called MonitorAll.
RequestArrives(r) ==
    /\ At(r, "idle")
    /\ call[Main].pc \notin {"start", "starting", "monitor", "attach", "ok", "error"}
    /\ Goto(r, IF r \in Starts THEN "start" ELSE "stop")
    /\ UNCHANGED <<pg, stopping, inst>>

\* main receives a signal: StopAll, with a context that ends after shutdown_delay.
Shutdown ==
    /\ At(Main, "serving") /\ "shutdown" \in Events
    /\ Goto(Main, "stop")
    /\ UNCHANGED <<pg, stopping, inst>>

\* The caller returns and its context is cancelled, a request's by net/http.
CallReturns(c) ==
    /\ call[c].pc \in {"reply", "refuse"}
    /\ call' = [call EXCEPT ![c].pc = IF @ = "reply" THEN "ok" ELSE "error",
                            ![c].failed = FALSE]
    /\ ended' = ended \cup {c}
    /\ UNCHANGED <<pg, stopping, inst>>

\* A client leaves, or shutdown_delay elapses.
ContextEnds(c) ==
    /\ IF c = Main THEN "deadline" \in Events /\ call[c].pc \in StopSteps
                   ELSE "leave" \in Events /\ call[c].pc \notin {"idle", "ok", "error"}
    /\ c \notin ended
    /\ ended' = ended \cup {c}
    /\ UNCHANGED <<pg, call, stopping, inst>>

-----------------------------------------------------------------------------
StartStep(c) ==
    \/ StartRefused(c) \/ StartMakesProcesses(c) \/ StartReturns(c)
    \/ \E i \in Slot : StartInstance(c, i) \/ StartInstanceFails(c, i)

MonitorStep(c) ==
    \/ MonitorRanges(c) \/ MonitorReturns(c)
    \/ \E i \in Slot : MonitorAttaches(c, i)

StopStep(c) ==
    \/ StopCopies(c) \/ StopWaited(c) \/ StopVerifies(c) \/ StopForced(c)
    \/ StopVerifiesAgain(c) \/ StopReturns(c)
    \/ \E i \in Slot : StopForces(c, i)

HandlerStep(c) == StartStep(c) \/ MonitorStep(c) \/ StopStep(c) \/ CallReturns(c)

StopInstanceStep(s) ==
    \/ StopInstance(s) \/ StopInstanceEnds(s) \/ StopInstanceFindsNoPid(s)
    \/ StopInstanceGivesUp(s) \/ StopInstanceCtxDone(s)

WatchStep(o) ==
    \/ \E m \in Caller : MonitorTakesExit(m, o) \/ MonitorGivesUp(m, o)
    \/ MonitorRestarts(o) \/ MonitorFailsToRestart(o)

QuitStep(o) == \E m \in Caller : MonitorQuits(m, o)

Next ==
    \/ \E c \in Caller : HandlerStep(c) \/ ContextEnds(c)
    \/ \E r \in Request : RequestArrives(r)
    \/ Shutdown
    \/ \E s \in stopping : StopInstanceStep(s)
    \/ \E o \in Obj : ChildExits(o) \/ WatchStep(o) \/ QuitStep(o)

Spec == Init /\ [][Next]_vars

(* Go's scheduler starves no goroutine and timers fire.  The mutex need not  *)
(* be fair: each caller takes it a few times only.  No client need send a    *)
(* request or leave, no child need exit, not even when it is killed, and     *)
(* nobody need stop the program.                                             *)
Fairness ==
    /\ \A c \in Caller : WF_vars(HandlerStep(c))
    /\ \A o \in Obj :
        /\ WF_vars(\E s \in stopping : s.obj = o /\ StopInstanceStep(s))
        /\ WF_vars(WatchStep(o))
        /\ WF_vars(QuitStep(o))

FairSpec == Spec /\ Fairness

-----------------------------------------------------------------------------
(* Properties.                                                             *)

\* Every instance that pg.processes holds and nobody stopped is watched by a Monitor, once
\* the call that made pg.processes has monitored it: although Monitor reads the slice
\* without the mutex, and another Start may replace it meanwhile (410-428).
Supervised ==
    \A o \in Processes :
        /\ inst[o].state = "Running" /\ ~inst[o].closed
        /\ inst[o].phase \in {"up", "exited"}
        /\ call[pg.current].pc \notin {"starting", "monitor", "attach"}
        => inst[o].monitors # {}

\* The program knows of o's child: no Start gave up waiting for it, and no Stop wrote it off.
Known(o) == Up(o) /\ inst[o].lost = "no"

\* Every live child is in pg.processes with p.running set, where a Stop and the dashboard
\* find it, or its context is done and it is being killed, or the program lost it in one of
\* three ways: start_timeout elapsed while the group started it, a Stop gave up on it after
\* SIGKILL, or a Stop took a refused signal for its exit.  A restart in particular replaces
\* the instances only when no other child is left, whatever timeouts its Stop met (95,
\* 120-126, 183-260, 699-716, 888-906, server.go 389-402).
NoOrphans == \A o \in Obj : Known(o) => (o \in Processes /\ Running(o)) \/ Doomed(o)

\* When ProcessGroup.Stop has returned nil, to a handler or to main at shutdown, and also
\* when its wait timed out, an instance it set out to stop has a child only where a Stop,
\* this or another, gave up on it after SIGKILL or took a refused signal for its exit
\* (198-277, 699-716, 888-906, 932-937).
StopIsTruthful ==
    \A c \in Caller : At(c, "ok") => \A o \in call[c].targets : ~Known(o)

\* Every call of the group ends, whatever the children do with the signals they are sent: no
\* goroutine is left holding pg.mu, and no wait is without a timeout (86-137, 139-277).
CallsEnd ==
    \A c \in Caller :
        call[c].pc \in {"start", "stop"} ~> call[c].pc \in {"serving", "ok", "error"}

\* Once p.done is closed the monitors of the instance end, in a restart too and also those
\* a concurrent Start attaches later, whether or not its child has exited: no goroutine is
\* left behind (286, 345, 398-405, 925).
MonitorsEnd == \A o \in Obj : inst[o].closed ~> (inst[o].monitors = {})

\* To the group an instance is what Lifecycle says, which Process implements.
Instance(o) == INSTANCE Lifecycle WITH
    phase <- IF inst[o].phase = "new" THEN "starting" ELSE inst[o].phase
InstancesImplementLifecycle ==
    /\ \A o \in Obj : Instance(o)!Init
    /\ [][\A o \in Obj : inst'[o].phase # inst[o].phase => Instance(o)!Next]_inst

-----------------------------------------------------------------------------
(* What the invariants need to be inductive.                               *)

\* A caller that has made pg.processes never makes it again: a restart stops before it
\* starts, and main starts before it stops.
HasStarted(c) == ~At(c, "idle") /\ ~At(c, "start") /\ (c # Main => call[c].pc \notin StopSteps)
StartedOnce ==
    /\ \A c \in Caller : pg.current = c => HasStarted(c) /\ c \notin Stops
    /\ \A o \in Obj : inst[o].phase # "new" => HasStarted(o[1])
    /\ \A o \in pg.listed : inst[o].phase # "new"
    /\ \A c \in Stops : ~At(c, "start") /\ ~At(c, "starting")

\* The caller that starts the instances has pg.mu, and has not started those to come.
StartHoldsLock ==
    \A c \in Caller : At(c, "starting") =>
        /\ pg.mu = c /\ pg.current = c
        /\ \A i \in call[c].todo \cap Slot : inst[<<c, i>>].phase = "new"

\* The call that made pg.processes, as it is now, ranges over its own instances, and watches
\* those it has visited until they are closed or through.
Watched ==
    \A c \in Caller : pg.current = c =>
        /\ At(c, "attach") => call[c].view = c
        /\ \A i \in Slot :
             /\ <<c, i>> \in pg.listed /\ ~inst[<<c, i>>].closed
             /\ inst[<<c, i>>].phase \in {"up", "exited", "starting"}
             /\ IF At(c, "attach") THEN i \notin call[c].todo
                                   ELSE ~At(c, "starting") /\ ~At(c, "monitor")
             => c \in inst[<<c, i>>].monitors

\* p.running speaks of a live child, and is cleared over one only where a Stop wrote it off.
RunningIsUp ==
    \A o \in Obj :
        /\ Running(o) \/ inst[o].lost # "no" => Up(o)
        /\ Known(o) => Running(o)
        /\ o \in pg.listed /\ Running(o) => Known(o)

GroupInv ==
    /\ TypeOK
    /\ StartedOnce
    /\ StartHoldsLock
    /\ Watched
    /\ RunningIsUp

\* When children do not exit by themselves, there is at most one restart and nobody sends a
\* start, main's instances are not restarted, and a Stop that found none of them running
\* was right for good.
Quiet ==
    /\ "exit" \notin Events
    /\ Starts = {}
    /\ \A r1, r2 \in Restarts : r1 = r2
MainEarlier == {"start", "starting", "monitor", "attach"}
MainIsSteady ==
    /\ Main \in ended => call[Main].pc \in StopSteps \cup {"reply", "refuse", "ok", "error"}
    /\ \A r \in Request : ~At(r, "idle") => call[Main].pc \notin MainEarlier
    /\ \A i \in Slot :
         /\ inst[<<Main, i>>].phase # "starting" /\ ~inst[<<Main, i>>].own
         /\ inst[<<Main, i>>].phase = "exited" => inst[<<Main, i>>].state # "Running"

\* An instance that is not in pg.processes, because its Start failed, is not watched, and if
\* it has a child its Start timed out or the context that child runs under is done.
Unlisted ==
    \A o \in Obj \ pg.listed :
        /\ inst[o].monitors = {} /\ inst[o].phase # "starting"
        /\ Known(o) => Doomed(o)

\* pg.processes is replaced when the instances of main are gone or lost, and only once.
Replaced ==
    /\ \A o \in Obj : o[1] = Main /\ Known(o) => o \in Processes
    /\ \A o \in Obj : o[1] # Main /\ inst[o].phase # "new" => pg.current = o[1]
    /\ \A c \in Caller :
         \/ At(c, "close") /\ ~call[c].failed
         \/ At(c, "reply") \/ At(c, "ok")
         \/ c # Main /\ call[c].pc \in {"start", "starting", "monitor", "attach"}
         => \A i \in Slot : ~Known(<<Main, i>>)

QuietInv == MainIsSteady /\ Unlisted /\ Replaced

\* Where only main starts instances, Stop aims at those.
TargetsOfMain == \A c \in Caller : \A o \in call[c].targets : o[1] = Main
=============================================================================
