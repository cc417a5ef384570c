------------------------------ MODULE Program ------------------------------
(***************************************************************************)
(* The program from LoadConfig to its exit: func main, the manager's       *)
(* loops over the groups, the web and metrics servers, the hub's goroutine *)
(* and the requests that arrive meanwhile, under one shutdown deadline.    *)
(*                                                                         *)
(* All instances that one call of ProcessGroup.Start makes are one unit,   *)
(* named by the caller and the group; Start holds pg.mu to its end and is  *)
(* one step.  Of ProcessGroup.Stop a unit sees the copy of the table, the  *)
(* goroutines that mark the instances stopped, and what Stop finds when it *)
(* verifies; module Group has what happens between those points.           *)
(*                                                                         *)
(* Of the panics those of main and of the hub's Stop are steps.  The hub's *)
(* send on a closed channel (module WSHub) and a goroutine that reads      *)
(* p.cmd when a Stop has cleared it (process.go, 532 and 585) are not:     *)
(* they end the program wherever it is, and no property speaks of that.    *)
(***************************************************************************)
EXTENDS Integers, Sequences, FiniteSets, SequencesExt

CONSTANTS
    Name,       \* names of process groups
    Main,       \* the goroutine of func main
    Starts,     \* requests that may be POST /api/processes/{group}/start
    Stops,      \* requests that may be .../stop
    Restarts,   \* requests that may be .../restart
    Absent,     \* the manager's map has no such group
    Nobody,     \* the group was added and not started
    MaxEntries, \* bound on the length of the configuration
    Events      \* what the environment may do

Request == Starts \cup Stops \cup Restarts
Caller == {Main} \cup Request
Unit == Caller \X Name

ASSUME ProgramAssumption ==
    /\ MaxEntries \in Nat
    /\ Main \notin Request /\ {Absent, Nobody} \cap Caller = {} /\ Absent # Nobody
    /\ Stops \cap Restarts = {}
    /\ Events \subseteq {"badFile", \* the configuration cannot be read or parsed
                         "exit",    \* children exit by themselves
                         "slowStart", \* a child's start takes longer than start_timeout
                         "eperm",   \* the kernel refuses to signal a child
                         "outlives", \* a child is not dead two seconds after its SIGKILL
                         "scrape",  \* a scrape of the metrics that may never end
                         "stall"}   \* a dashboard stops reading in the middle of a write

VARIABLES
    config,    \* the process entries of the file: name and numprocs
    main,      \* pc; todo, the groups its loop has still to visit; errors, those whose Stop failed
    call,      \* per caller: pc; name, the group it works on; target, the unit its Stop copied;
               \* failed: that Stop has an error to return already
    table,     \* who made pg.processes of each group in the manager's map
    unit,      \* what has become of the children of each unit
    late,      \* units started, or restarted in spite of a Stop, after main's Stop of their
               \* group copied its table
    telling,   \* Stop calls with the units their goroutines have still to mark stopped
    server,    \* the two http.Servers
    hub,       \* pc of the hub's goroutine; done: s.done is closed; stalled: a pump holds c.mu
               \* for good
    signalled, \* a signal was sent to sigChan
    expired,   \* shutdown_delay has elapsed
    cancelled  \* the application's context is done

vars == <<config, main, call, table, unit, late, telling, server, hub,
          signalled, expired, cancelled>>

Entry == [name : Name, numProcs : {-1, 0, 1}]
Phases == {"none",    \* never started
           "up", "between",     \* children run; they have exited and a restart is due
           "told",              \* children run, marked stopped
           "racing",    \* marked stopped when a monitor may have decided to restart
           "lost",      \* children run that the program has written off
           "gone"}
\* p.running is set.
Running(u) == unit[u] \in {"up", "told"}

\* Of a lost unit p.running is not set, or the table has no entry: Start timed out; Stop was
\* refused the signal and took that for an exit; or Stop gave up after its SIGKILL.
HasChild(u) == unit[u] \in {"up", "told", "lost"}
LostIf(event) == {after \in {"lost"} : event \in Events}

MainStates ==
    [pc : {"load", "add", "startAll", "serve", "await", "stopAll", "stopHub", "stopWeb",
           "stopMetrics", "return", "exited", "crashed"},
     todo : SUBSET Name, errors : SUBSET Name]
CallStates ==
    [pc : {"idle", "start", "stop", "wait", "force", "held", "done"},
     name : Name \cup {Nobody}, target : Unit \cup {Nobody}, failed : BOOLEAN]
HubStates == [pc : {"off", "running", "stuck", "exited"}, done : BOOLEAN, stalled : BOOLEAN]
Idle == [pc |-> "idle", name |-> Nobody, target |-> Nobody, failed |-> FALSE]

TypeOK ==
    /\ config \in BoundedSeq(Entry, MaxEntries)
    /\ main \in MainStates
    /\ call \in [Caller -> CallStates]
    /\ table \in [Name -> Caller \cup {Absent, Nobody}]
    /\ unit \in [Unit -> Phases]
    /\ late \subseteq Unit /\ telling \subseteq Caller \X Unit
    /\ server \in [{"web", "metrics"} ->
                   {"off", "starting", "listening", "busy", "draining", "closed"}]
    /\ hub \in HubStates
    /\ signalled \in BOOLEAN /\ expired \in BOOLEAN /\ cancelled \in BOOLEAN

Init ==
    /\ config \in BoundedSeq(Entry, MaxEntries)
    /\ main = [pc |-> "load", todo |-> {}, errors |-> {}]
    /\ call = [c \in Caller |-> Idle]
    /\ table = [g \in Name |-> Absent]
    /\ unit = [u \in Unit |-> "none"]
    /\ late = {} /\ telling = {}
    /\ server = [s \in {"web", "metrics"} |-> "off"]
    /\ hub = [pc |-> "off", done |-> FALSE, stalled |-> FALSE]
    /\ signalled = FALSE /\ expired = FALSE /\ cancelled = FALSE

Ended == main.pc \in {"exited", "crashed"}
\* The groups the manager knows, and the instances one has; every group in the map is
\* started by StartAll before anything else looks at it.
Groups == {g \in Name : table[g] # Absent}
Current(g) == <<table[g], g>>
\* main's Stop of a group is past its copy of pg.processes.
StoppedByMain(g) ==
    \/ main.pc = "stopAll" /\ g \notin main.todo
    \/ main.pc \in {"stopHub", "stopWeb", "stopMetrics", "return", "exited"}
Late(u) == {v \in {u} : StoppedByMain(v[2])}
Crash == main' = [main EXCEPT !.pc = "crashed"]
Goto(step) == main' = [main EXCEPT !.pc = step]

-----------------------------------------------------------------------------
(* main, up to the signal.                                                 *)

\* LoadConfig sets the defaults and main starts the metrics server, or exits with log.Fatalf.
LoadConfig ==
    /\ main.pc = "load"
    /\ \/ /\ config' = [i \in DOMAIN config |->
                         [config[i] EXCEPT !.numProcs = IF @ = 0 THEN 1 ELSE @]]
          /\ server' = [server EXCEPT !["metrics"] = "listening"]
          /\ Goto("add")
       \/ "badFile" \in Events /\ Goto("exited") /\ UNCHANGED <<config, server>>
    /\ UNCHANGED <<call, table, unit, late, telling, hub, signalled, expired, cancelled>>

\* One iteration of the loop over the entries: the manager's map is keyed by name, and
\* NewProcessGroup panics in make when numprocs is negative.
AddProcessGroup ==
    /\ main.pc = "add" /\ config # <<>>
    /\ IF Head(config).numProcs < 0
         THEN Crash /\ UNCHANGED <<config, table>>
         ELSE /\ table' = [table EXCEPT ![Head(config).name] = Nobody]
              /\ config' = Tail(config)
              /\ UNCHANGED main
    /\ UNCHANGED <<call, unit, late, telling, server, hub, signalled, expired, cancelled>>

StartAll ==
    /\ main.pc = "add" /\ config = <<>>
    /\ main' = [main EXCEPT !.pc = "startAll", !.todo = Groups]
    /\ UNCHANGED <<config, call, table, unit, late, telling, server, hub,
                   signalled, expired, cancelled>>

\* ProcessGroup.Start makes a new pg.processes; every exec may fail, and a start that takes
\* too long leaves its slot empty and its child running.
Start(c, g) ==
    /\ table' = [table EXCEPT ![g] = c]
    /\ \E after \in {"up", "gone"} \cup LostIf("slowStart") :
         unit' = [unit EXCEPT ![<<c, g>>] = after]
    /\ late' = late \cup Late(<<c, g>>)
    /\ UNCHANGED <<config, telling, server, hub, signalled, expired, cancelled>>

\* Mutant: StartAll returns after the first group.
StartFirst ==
    /\ main.pc = "startAll"
    /\ \E g \in main.todo : Start(Main, g) /\ main' = [main EXCEPT !.todo = {}]
    /\ UNCHANGED call

\* The manager's maps are ranged over in any order.
StartNext ==
    /\ main.pc = "startAll"
    /\ \E g \in main.todo : Start(Main, g) /\ main' = [main EXCEPT !.todo = @ \ {g}]
    /\ UNCHANGED call

\* MonitorAll, once StartAll is through; nothing in it waits.
MonitorAll ==
    /\ main.pc = "startAll" /\ main.todo = {}
    /\ Goto("serve")
    /\ UNCHANGED <<config, call, table, unit, late, telling, server, hub,
                   signalled, expired, cancelled>>

\* Server.Start of the web server: the hub's goroutine and the one that listens.
Serve ==
    /\ main.pc = "serve"
    /\ server' = [server EXCEPT !["web"] = "starting"]
    /\ hub' = [hub EXCEPT !.pc = "running"]
    /\ Goto("await")
    /\ UNCHANGED <<config, call, table, unit, late, telling, signalled, expired, cancelled>>

\* The web server's goroutine gets to ListenAndServe, or never does when its address is
\* taken: that fails only into the log.
Listen ==
    /\ ~Ended /\ server["web"] = "starting"
    /\ server' = [server EXCEPT !["web"] = "listening"]
    /\ UNCHANGED <<config, main, call, table, unit, late, telling, hub,
                   signalled, expired, cancelled>>

-----------------------------------------------------------------------------
(* main, from the signal to its return.                                    *)

\* main receives the signal, starts the shutdown clock and calls StopAll.
AwaitSignal ==
    /\ main.pc = "await" /\ signalled
    /\ main' = [main EXCEPT !.pc = "stopAll", !.todo = Groups]
    /\ UNCHANGED <<config, call, table, unit, late, telling, server, hub,
                   signalled, expired, cancelled>>

\* ProcessGroup.Stop copies pg.processes and starts a goroutine per instance.
StopCopies(c, g) ==
    /\ call[c].pc \in {"idle", "stop"}
    /\ call' = [call EXCEPT ![c] = [pc |-> "wait", name |-> g, target |-> Current(g),
                                  failed |-> FALSE]]
    /\ telling' = telling \cup {<<c, Current(g)>>}
    /\ UNCHANGED <<config, table, unit, late, server, hub, signalled, expired, cancelled>>

\* StopAll goes to the next group whatever the context says.
StopNext ==
    /\ main.pc = "stopAll"
    /\ \E g \in main.todo : StopCopies(Main, g) /\ main' = [main EXCEPT !.todo = @ \ {g}]

\* Process.Stop of a running instance signals the child, or is told by the kernel that it
\* may not, which processExists takes for a child that has exited.
Signalled == {"told"} \cup LostIf("eperm")

\* Such a goroutine marks the instances stopped and signals their children; one whose
\* child has exited has nothing to signal, and its monitor may have decided to restart.
Tell(c, u) ==
    /\ ~Ended /\ <<c, u>> \in telling
    /\ telling' = telling \ {<<c, u>>}
    /\ \E after \in CASE Running(u) -> Signalled
                     [] unit[u] = "between" -> {"racing", "gone"}
                     [] OTHER -> {unit[u]} :
         unit' = [unit EXCEPT ![u] = after]
    /\ UNCHANGED <<config, main, call, table, late, server, hub, signalled, expired, cancelled>>

\* Mutant: Stop waits for its goroutines without a timeout, and their callbacks for the hub.
WaitIsOverForAll(c, failed) ==
    /\ <<c, call[c].target>> \notin telling
    /\ hub.pc = "stuck" => call[c].target[1] # Main

\* The wait is over: the goroutines are through, or the context is done (a client may leave at
\* any time), or the timeout of the group has passed, by when they have at least begun.
\* The Stop has failed by then when a Process.Stop or the context had an error.
WaitIsOver(c, failed) ==
    <<c, call[c].target>> \in telling => failed /\ (c = Main => expired)

\* IsRunning is asked of the instances now in the table, not of those the Stop copied.  Those
\* for which it is true Stop stops by force, itself.
StopForces(c) ==
    /\ call[c].pc = "wait" /\ Running(Current(call[c].name))
    /\ \E failed \in BOOLEAN :
         WaitIsOver(c, failed) /\ call' = [call EXCEPT ![c].pc = "force", ![c].failed = failed]
    /\ UNCHANGED <<config, table, unit, late, telling, server, hub, signalled, expired, cancelled>>

\* The forced Process.Stop ends within three seconds, with the child gone, lost, or still
\* running.
ForcedStop(u) ==
    LET outcomes == Signalled \cup {"gone"} \cup LostIf("outlives")
    IN  \E after \in IF Running(u) THEN outcomes ELSE {unit[u]} :
          unit' = [unit EXCEPT ![u] = after]

\* It calls StateChanged whenever it has cleared p.running or found it cleared, and that of
\* the instances main has started broadcasts: with the hub stuck it never returns.
ForcedStopHangs(c) ==
    LET u == Current(call[c].name)
    IN  /\ call[c].pc = "force" /\ Running(u)
        /\ hub.pc = "stuck" /\ u[1] = Main
        /\ ForcedStop(u) /\ unit'[u] # "told"
        /\ call' = [call EXCEPT ![c].pc = "held"]
        /\ UNCHANGED <<config, table, late, telling, server, hub, signalled, expired, cancelled>>

\* ProcessGroup.Stop returns, with nil only when IsRunning holds of no instance in the table.
StopEnds(c, ok) ==
    LET u == Current(call[c].name)
    IN  /\ \/ /\ call[c].pc = "wait" /\ ~Running(u) /\ WaitIsOver(c, ~ok)
              /\ UNCHANGED unit
           \/ /\ call[c].pc = "force" /\ ForcedStop(u)
              /\ ok => ~call[c].failed /\ unit'[u] # "told"
        /\ UNCHANGED <<config, table, late, telling, server, hub, signalled, expired, cancelled>>

\* Mutant: StopAll returns the first error.
StopAllGivesUp ==
    /\ main.pc = "stopAll"
    /\ \E ok \in BOOLEAN :
         /\ StopEnds(Main, ok)
         /\ main' = IF ok THEN main
                         ELSE [main EXCEPT !.errors = @ \cup {call[Main].name}, !.todo = {}]
    /\ call' = [call EXCEPT ![Main] = Idle]

StopAllForces ==
    main.pc = "stopAll" /\ (StopForces(Main) \/ ForcedStopHangs(Main)) /\ UNCHANGED main

\* StopAll writes an error into the log and goes on.
StopReturns ==
    /\ main.pc = "stopAll"
    /\ \E ok \in BOOLEAN :
         /\ StopEnds(Main, ok)
         /\ main' = IF ok THEN main ELSE [main EXCEPT !.errors = @ \cup {call[Main].name}]
    /\ call' = [call EXCEPT ![Main] = Idle]

StopAllReturns ==
    /\ main.pc = "stopAll" /\ main.todo = {} /\ call[Main].pc = "idle"
    /\ Goto("stopHub")
    /\ UNCHANGED <<config, call, table, unit, late, telling, server, hub,
                   signalled, expired, cancelled>>

\* WSServer.Stop needs the lock of every client, knows no deadline and panics when s.done
\* is closed already.
StopsHub(goroutine, next) ==
    /\ ~hub.stalled
    /\ IF hub.done
         THEN Crash /\ UNCHANGED hub
         ELSE hub' = [hub EXCEPT !.done = TRUE, !.pc = goroutine] /\ Goto(next)
    /\ UNCHANGED <<config, call, table, unit, late, telling, server,
                   signalled, expired, cancelled>>

StopHub == main.pc = "stopHub" /\ StopsHub(hub.pc, "stopWeb")

\* The hub's goroutine sees the context done.
HubCancelled == ~Ended /\ cancelled /\ hub.pc = "running" /\ StopsHub("exited", main.pc)

\* http.Server.Shutdown closes the listener and then waits for the requests being served,
\* or for the deadline; only in the first case it leaves nobody behind.
CloseListener(s, after) ==
    /\ server[s] \in {"starting", "listening"}
    /\ server' = [server EXCEPT ![s] = after]
    /\ UNCHANGED main

Drained(s, busy, next) ==
    /\ server[s] \in {"busy", "draining"}
    /\ \/ ~busy /\ server' = [server EXCEPT ![s] = "closed"]
       \/ expired /\ UNCHANGED server
    /\ Goto(next)

Serving == {r \in Request : call[r].pc \notin {"idle", "done"}}

\* Mutant: Close in place of Shutdown, which leaves the handlers to themselves.
StopWebAtOnce ==
    /\ main.pc = "stopWeb"
    /\ CloseListener("web", "draining") \/ Drained("web", FALSE, "stopMetrics")
    /\ UNCHANGED <<config, call, table, unit, late, telling, hub,
                   signalled, expired, cancelled>>

\* Hijacked connections, those of the dashboards, are not among the requests.
StopWeb ==
    /\ main.pc = "stopWeb"
    /\ CloseListener("web", "draining") \/ Drained("web", Serving # {}, "stopMetrics")
    /\ UNCHANGED <<config, call, table, unit, late, telling, hub,
                   signalled, expired, cancelled>>

StopMetrics ==
    /\ main.pc = "stopMetrics"
    /\ \/ \E after \in {"draining"} \cup {b \in {"busy"} : "scrape" \in Events} :
            CloseListener("metrics", after)
       \/ Drained("metrics", server["metrics"] = "busy", "return")
    /\ UNCHANGED <<config, call, table, unit, late, telling, hub,
                   signalled, expired, cancelled>>

\* The deferred cancel runs, and other goroutines may still do so, before the process ends.
Return ==
    /\ main.pc = "return"
    /\ IF cancelled THEN Goto("exited") /\ UNCHANGED cancelled
                    ELSE cancelled' = TRUE /\ UNCHANGED main
    /\ UNCHANGED <<config, call, table, unit, late, telling, server, hub,
                   signalled, expired>>

-----------------------------------------------------------------------------
(* The requests.                                                           *)

\* A handler finds its group in the manager's map, which no longer changes.
RequestArrives(r, g) ==
    /\ server["web"] = "listening" /\ ~Ended
    /\ call[r].pc = "idle" /\ g \in Groups
    /\ \E step \in {s \in {"start"} : r \in Starts}
               \cup {s \in {"stop"} : r \in Stops \cup Restarts} :
         call' = [call EXCEPT ![r].pc = step, ![r].name = g]
    /\ UNCHANGED <<config, main, table, unit, late, telling, server, hub,
                   signalled, expired, cancelled>>

\* Start, then Monitor, unless the client has left by then.
RequestStarts(r) ==
    /\ ~Ended /\ call[r].pc = "start"
    /\ Start(r, call[r].name) \/ UNCHANGED <<config, table, unit, late, telling, server, hub,
                                            signalled, expired, cancelled>>
    /\ call' = [call EXCEPT ![r] = [Idle EXCEPT !.pc = "done"]]
    /\ UNCHANGED main

RequestStops(r) ==
    /\ ~Ended /\ call[r].pc = "stop"
    /\ StopCopies(r, call[r].name)
    /\ UNCHANGED main

\* A restart goes on only when its Stop returned nil.
RequestStopped(r) ==
    /\ ~Ended
    /\ \E ok \in BOOLEAN :
         /\ StopEnds(r, ok)
         /\ call' = [call EXCEPT ![r].pc = IF ok /\ r \in Restarts THEN "start" ELSE "done",
                                 ![r].target = Nobody, ![r].failed = FALSE]
    /\ UNCHANGED main

RequestForces(r) == ~Ended /\ (StopForces(r) \/ ForcedStopHangs(r)) /\ UNCHANGED main

-----------------------------------------------------------------------------
(* The environment: children, the two clocks, signals and peers.           *)

\* Monitors run once MonitorAll, or the request, has attached them.
Monitored == main.pc \notin {"load", "add", "startAll"}

\* A Process.Stop of the unit may be at work.
Stopping(u) ==
    \/ \E c \in Caller :
         call[c].pc \in {"wait", "force"} /\ u \in {call[c].target, Current(call[c].name)}
    \/ StoppedByMain(u[2])

\* A lost child has no monitor that would start another.
UnitMoves(u) ==
    /\ ~Ended
    /\ \E after \in
         CASE unit[u] = "up" /\ "exit" \in Events -> {"between"}
           [] unit[u] = "between" /\ Monitored -> {"up", "gone"}
           [] unit[u] = "told" ->
                {"gone"} \cup {lost \in LostIf("outlives") : Stopping(u)}
           [] unit[u] = "lost" -> {"gone"}
           [] unit[u] = "racing" -> {"up", "gone"}
           [] OTHER -> {} :
         /\ unit' = [unit EXCEPT ![u] = after]
         /\ late' = IF unit[u] = "racing" /\ after = "up" THEN late \cup Late(u) ELSE late
    /\ UNCHANGED <<config, main, call, table, telling, server, hub,
                   signalled, expired, cancelled>>

\* Until main has called signal.Notify a signal ends the program; then one is kept.
Signal ==
    /\ ~Ended
    /\ IF main.pc = "load" THEN Goto("exited") /\ UNCHANGED signalled
                           ELSE signalled' = TRUE /\ UNCHANGED main
    /\ UNCHANGED <<config, call, table, unit, late, telling, server, hub,
                   expired, cancelled>>

Deadline ==
    /\ main.pc \in {"stopAll", "stopHub", "stopWeb", "stopMetrics"} /\ ~expired
    /\ expired' = TRUE
    /\ UNCHANGED <<config, main, call, table, unit, late, telling, server, hub,
                   signalled, cancelled>>

\* The scrape that was being answered when the listener was closed.
ScrapeEnds ==
    /\ ~Ended /\ server["metrics"] = "busy"
    /\ server' = [server EXCEPT !["metrics"] = "draining"]
    /\ UNCHANGED <<config, main, call, table, unit, late, telling, hub,
                   signalled, expired, cancelled>>

\* A dashboard that no longer reads lets a pump wait in its write, with c.mu held; after
\* WSServer.Stop nobody that main waits for needs that lock.
PeerStalls ==
    /\ "stall" \in Events /\ ~Ended
    /\ server["web"] = "listening" /\ ~hub.done
    /\ hub' = [hub EXCEPT !.stalled = TRUE]
    /\ UNCHANGED <<config, main, call, table, unit, late, telling, server,
                   signalled, expired, cancelled>>

\* The hub closes that client, whose buffer is full or whose reader has given up, and waits
\* for c.mu with s.mu held; it takes no event any more.
HubGetsStuck ==
    /\ ~Ended /\ hub.stalled /\ hub.pc = "running"
    /\ hub' = [hub EXCEPT !.pc = "stuck"]
    /\ UNCHANGED <<config, main, call, table, unit, late, telling, server,
                   signalled, expired, cancelled>>

-----------------------------------------------------------------------------
MainStep ==
    \/ LoadConfig \/ AddProcessGroup \/ StartAll \/ StartNext \/ MonitorAll \/ Serve
    \/ AwaitSignal \/ StopNext \/ StopAllForces \/ StopReturns \/ StopAllReturns \/ StopHub
    \/ StopWeb \/ StopMetrics \/ Return

Next ==
    \/ MainStep \/ HubCancelled
    \/ Listen
    \/ \E r \in Request : \/ \E g \in Name : RequestArrives(r, g)
                          \/ RequestStarts(r) \/ RequestStops(r)
                          \/ RequestForces(r) \/ RequestStopped(r)
    \/ \E u \in Unit : UnitMoves(u) \/ \E c \in Caller : Tell(c, u)
    \/ Signal \/ Deadline \/ ScrapeEnds \/ PeerStalls \/ HubGetsStuck

Spec == Init /\ [][Next]_vars

\* main is scheduled and the clock runs.  Of requests, children, peers and the goroutines
\* that stop instances nothing is assumed.
FairSpec ==
    /\ Spec
    /\ WF_vars(MainStep)
    /\ WF_vars(Deadline)

-----------------------------------------------------------------------------
\* When main has returned, whether or not the hub's goroutine then panics, a child of an
\* instance in a group's table is accounted for: it was started after StopAll had passed its
\* group, or restarted by a monitor that raced its Stop (module Process); StopAll has written
\* an error about the group into the log; or the program had written the child off, when
\* Start timed out, when a signal was refused, or when it outlived its SIGKILL.
ShutdownIsComplete ==
    main.pc = "exited" \/ (main.pc = "crashed" /\ cancelled) =>
        \A g \in Groups : LET u == Current(g)
                         IN  HasChild(u) => \/ u \in late
                                            \/ g \in main.errors
                                            \/ unit[u] = "lost"

\* Once the web server's Shutdown has returned without an error, no request changes what
\* the manager knows: the groups stay as they are until the program ends.
WebStopIsFinal == [][server["web"] = "closed" => UNCHANGED <<table, call>>]_vars

\* A signal ends the program, however slow the children, requests and scrapes are, unless a
\* dashboard that does not read leaves main in one of two places: in WSServer.Stop, waiting
\* for the lock of that client, or in a stop it has to force itself in StopAll, waiting for
\* the hub that waits for this lock.  The callbacks that wait for the stuck hub in monitors and
\* in the goroutines of Process.Stop do not hold main up.
SignalEndsProgram ==
    signalled ~> \/ Ended
                 \/ main.pc = "stopHub" /\ hub.stalled
                 \/ call[Main].pc = "held" /\ hub.pc = "stuck"

-----------------------------------------------------------------------------
\* What the invariants above need to be inductive.  No group is without a start once main is
\* past StartAll, and only then are there requests; how far each part has come at each step
\* of main; and what is true of a group from the moment main's Stop has copied its table.
GroupsAreStarted ==
    /\ main.pc = "load" => Groups = {}
    /\ main.pc \in {"load", "add"} => \A u \in Unit : unit[u] = "none"
    /\ main.pc = "startAll" => \A g \in Name : table[g] = Nobody => g \in main.todo
    /\ main.pc \in {"startAll", "stopAll"} => main.todo \subseteq Groups
    /\ main.pc = "serve" \/ server["web"] # "off" => \A g \in Name : table[g] # Nobody
    /\ main.pc \in {"load", "add", "startAll", "serve"} => server["web"] = "off"
    /\ main.pc \in {"await", "stopAll", "stopHub", "stopWeb", "stopMetrics", "return"} =>
         server["web"] # "off"
    /\ \A r \in Request :
         /\ server["web"] = "off" => call[r].pc = "idle"
         /\ call[r].pc \notin {"idle", "done"} => call[r].name \in Groups

CallOfMain ==
    /\ call[Main].pc \in {"idle", "wait", "force", "held"}
    /\ call[Main].pc # "idle" => main.pc = "stopAll" /\ call[Main].name \in Groups \ main.todo

Stopped == {"busy", "draining", "closed"}
ShutdownProceeds ==
    /\ main.pc \in {"stopHub", "stopWeb", "stopMetrics", "return"} => main.todo = {}
    /\ main.pc \in {"stopMetrics", "return"} => server["web"] \in Stopped
    /\ main.pc = "return" => server["metrics"] \in Stopped
    /\ server["web"] = "closed" =>
         Serving = {} /\ main.pc \in {"stopMetrics", "return", "exited", "crashed"}
    /\ cancelled => main.pc \in {"return", "exited", "crashed"}
    /\ hub.done => main.pc \in {"stopWeb", "stopMetrics", "return", "exited", "crashed"}

\* While main's Stop of a group waits, its goroutine has still to mark the instances, or has
\* left none that a monitor restarts; then main forces the rest, and when it is over none is
\* running, or it was an error.
StopIsAccountedFor(g) ==
    LET u == Current(g)
        mine == call[Main].name = g
    IN  (StoppedByMain(g) \/ (main.pc = "crashed" /\ cancelled)) /\ u \notin late =>
          \/ unit[u] \notin {"up", "told", "between"} \/ g \in main.errors
          \/ call[Main].pc = "wait" /\ mine /\ call[Main].target = u
                /\ (<<Main, u>> \in telling \/ unit[u] = "told")
          \/ call[Main].pc = "force" /\ mine /\ (call[Main].failed \/ unit[u] = "told")

ProgramInv ==
    /\ TypeOK
    /\ GroupsAreStarted
    /\ CallOfMain
    /\ ShutdownProceeds
    /\ \A g \in Groups : StopIsAccountedFor(g)
=============================================================================
