------------------------------ MODULE Process ------------------------------
(***************************************************************************)
(* One supervised process instance: internal/process/process.go, type      *)
(* Process.  The goroutines that touch it are the actors: the one that     *)
(* called ProcessGroup.Start (Starter), the monitoring goroutines          *)
(* (Monitors), the callers of Process.Stop (Stoppers), and for each child  *)
(* the goroutine that waits for it.  An actor's pc names the next step of  *)
(* the handler it runs; a step is the code between two points at which     *)
(* another goroutine can be scheduled: a critical section of p.mu, a       *)
(* channel operation or a system call.                                     *)
(*                                                                         *)
(* p.mu outlives a step in one place only, Start's wait for the child to   *)
(* come up, so the mutex is held exactly when some actor is at "ready".    *)
(* Time is abstracted: a timer may fire whenever its select is reached.    *)
(***************************************************************************)
EXTENDS Naturals

CONSTANTS
    Cmd,           \* exec.Cmd objects, each with its child; reused once nobody refers to them
    NoCmd,         \* the nil *exec.Cmd
    Starter,       \* the goroutine in ProcessGroup.Start that creates the instance
    Monitors,      \* goroutines running Process.Monitor
    Stoppers,      \* goroutines calling Process.Stop
    MaxRestarts,   \* config.MaxRestarts
    StarterCtx,    \* the context ProcessGroup.Start was given: "app" or "req"
    Events         \* what the environment may do

ASSUME MaxRestartsAssumption == MaxRestarts \in Nat \ {0}
ASSUME ActorsAssumption ==
    /\ Starter \notin Monitors \cup Stoppers
    /\ Monitors \cap Stoppers = {}
ASSUME CmdAssumption == NoCmd \notin Cmd
ASSUME StarterCtxAssumption == StarterCtx \in {"app", "req"}
ASSUME EventsAssumption ==
    Events \subseteq {"exit",       \* a child exits by itself, with any status
                      "execFails",  \* exec fails (missing binary, no pipes, no pids)
                      "slowStart",  \* start_timeout elapses before the ready goroutine reports
                      "appCancel",  \* the application context is cancelled
                      "reset",      \* a web handler calls ResetRestartCounters
                      "eperm"}      \* the kernel may refuse a child Goardian's signals

Actor == {Starter} \cup Monitors \cup Stoppers
StopCaller == Monitors \cup Stoppers

VARIABLES
    state,                \* p.state
    running,              \* p.running
    cmd,                  \* p.cmd
    exitChan,             \* p.exitChan, capacity 1: "none" or the exit code it holds
    done,                 \* TRUE once p.done is closed
    failureRestarts,      \* p.failureRestarts, saturating at MaxRestarts; p.consecutiveFailures
                          \* only sets how long a backoff is, and is left to module Backoff
    child,                \* per Cmd: the child and the goroutine waiting for it
    code,                 \* per Cmd: the status the child exited with
    sig,                  \* per Cmd: the signals the child got, and whether one was refused
    ctx,                  \* per Cmd: the context given to exec.CommandContext
    cancelled,            \* the contexts that are done
    pc,                   \* per actor: its next step
    exitCode,             \* per monitor: the local variable exitCode
    handle,               \* per Stop caller: the *exec.Cmd it took the process from
    lateReady             \* actors whose ready goroutine outlived the Start that made it

procVars == <<state, running, cmd, exitChan, done>>
childVars == <<child, code, sig, ctx>>
actorVars == <<pc, exitCode, handle, lateReady>>
vars == <<procVars, failureRestarts, childVars, cancelled, actorVars>>

StartSteps == {"start", "exec", "ready"}
StopSteps == {"stop", "check", "term", "early", "wait", "kill", "killWait",
              "finish", "tick", "noCmd", "giveUp"}
MonitorSteps == {"off", "select", "exited", "failure", "clean", "backoff",
                 "startErr", "restarted", "returned"}
Steps == StartSteps \cup StopSteps \cup MonitorSteps
         \cup {"started", "dropped", "idle", "stopped", "error"}
PCs(a) == IF a = Starter THEN StartSteps \cup {"started", "dropped"}
          ELSE IF a \in Monitors THEN MonitorSteps \cup StartSteps \cup StopSteps
          ELSE StopSteps \cup {"idle", "stopped", "error"}

\* "gone" is both a Cmd that was never started and one whose waiter has reported.
ChildStates == {"gone", "alive", "zombie", "reaped", "send"}

TypeOK ==
    /\ state \in {"Running", "Stopped", "Failed"}
    /\ running \in BOOLEAN
    /\ cmd \in Cmd \cup {NoCmd}
    /\ exitChan \in {"none", "zero", "nonzero"}
    /\ done \in BOOLEAN
    /\ failureRestarts \in 0..MaxRestarts
    /\ child \in [Cmd -> ChildStates]
    /\ code \in [Cmd -> {"zero", "nonzero"}]
    /\ sig \in [Cmd -> SUBSET {"term", "kill", "refused"}]
    /\ ctx \in [Cmd -> {"app", "req"}]
    /\ cancelled \subseteq {"app", "req"}
    /\ pc \in [Actor -> Steps]
    /\ \A a \in Actor : pc[a] \in PCs(a)
    /\ exitCode \in [Monitors -> {"zero", "nonzero"}]
    /\ handle \in [StopCaller -> Cmd \cup {NoCmd}]
    /\ lateReady \subseteq Actor

\* ProcessGroup.Start has created the object and is about to call its Start.
Init ==
    /\ state = "Running"
    /\ running = FALSE
    /\ cmd = NoCmd
    /\ exitChan = "none"
    /\ done = FALSE
    /\ failureRestarts = 0
    /\ child = [c \in Cmd |-> "gone"]
    /\ code = [c \in Cmd |-> "zero"]
    /\ sig = [c \in Cmd |-> {}]
    /\ ctx = [c \in Cmd |-> "app"]
    /\ cancelled = {}
    /\ pc = [a \in Actor |-> IF a = Starter THEN "start"
                             ELSE IF a \in Monitors THEN "off" ELSE "idle"]
    /\ exitCode = [m \in Monitors |-> "zero"]
    /\ handle = [s \in StopCaller |-> NoCmd]
    /\ lateReady = {}

Unlocked == \A a \in Actor : pc[a] # "ready"
Goto(a, step) == pc' = [pc EXCEPT ![a] = step]

\* Mutant: the count goes on past MaxRestarts.
IncPastMax(n) == n + 1

\* Counters are only compared with MaxRestarts, so they saturate there.
Inc(n) == IF n < MaxRestarts THEN n + 1 ELSE n

-----------------------------------------------------------------------------
(* The child and the goroutine that waits for it.                          *)

Die(c, status) ==
    /\ child[c] = "alive"
    /\ child' = [child EXCEPT ![c] = "zombie"]
    /\ code' = [code EXCEPT ![c] = status]
    /\ UNCHANGED <<procVars, failureRestarts, sig, ctx, cancelled, actorVars>>

\* A child exits by itself, or because of a SIGTERM, with any status.
ChildExits(c) ==
    /\ "exit" \in Events \/ "term" \in sig[c]
    /\ \E status \in {"zero", "nonzero"} : Die(c, status)

\* SIGKILL cannot be ignored, and ExitCode() of a killed child is -1.
ChildKilled(c) ==
    /\ "kill" \in sig[c]
    /\ Die(c, "nonzero")

\* exec.CommandContext kills the child when its context is done.
CtxKills(c) ==
    /\ ctx[c] \in cancelled
    /\ Die(c, "nonzero")

\* cmd.Wait returns.
WaiterReaps(c) ==
    /\ child[c] = "zombie"
    /\ child' = [child EXCEPT ![c] = "reaped"]
    /\ UNCHANGED <<procVars, failureRestarts, code, sig, ctx, cancelled, actorVars>>

\* Mutant: the waiter forgets to clear running.
WaiterKeepsRunning(c) ==
    /\ child[c] = "reaped"
    /\ Unlocked
    /\ child' = [child EXCEPT ![c] = "send"]
    /\ UNCHANGED <<procVars, failureRestarts, code, sig, ctx, cancelled, actorVars>>

\* The waiter's critical section: whatever child p.cmd is by now, running is cleared.
WaiterLocks(c) ==
    /\ child[c] = "reaped"
    /\ Unlocked
    /\ running' = FALSE
    /\ child' = [child EXCEPT ![c] = "send"]
    /\ UNCHANGED <<state, cmd, exitChan, done, failureRestarts, code, sig, ctx,
                   cancelled, actorVars>>

\* p.exitChan <- err, which blocks while the channel is full.  The Cmd is then
\* forgotten: no later step reads its status, signals or context.
WaiterSends(c) ==
    /\ child[c] = "send"
    /\ exitChan = "none"
    /\ exitChan' = code[c]
    /\ child' = [child EXCEPT ![c] = "gone"]
    /\ code' = [code EXCEPT ![c] = "zero"]
    /\ sig' = [sig EXCEPT ![c] = {}]
    /\ ctx' = [ctx EXCEPT ![c] = "app"]
    /\ UNCHANGED <<state, running, cmd, done, failureRestarts, cancelled, actorVars>>

-----------------------------------------------------------------------------
(* Start, called by the Starter and by a Monitor that restarts.            *)

CtxOf(a) == IF a = Starter THEN StarterCtx ELSE "app"
\* Mutant: a Start that failed is tried again at once.
StartErrorRetries(a) == IF a = Starter THEN "dropped" ELSE "start"

StartError(a) == IF a = Starter THEN "dropped" ELSE "startErr"
Fresh(c) == child[c] = "gone" /\ cmd # c /\ \A s \in StopCaller : handle[s] # c

\* First critical section.
StartBegins(a) ==
    /\ pc[a] = "start"
    /\ Unlocked
    /\ state' = "Running"
    /\ Goto(a, "exec")
    /\ UNCHANGED <<running, cmd, exitChan, done, failureRestarts, childVars,
                   cancelled, exitCode, handle, lateReady>>

\* Second critical section: the context is done, or pipes or exec fail.
StartFails(a) ==
    /\ pc[a] = "exec"
    /\ Unlocked
    /\ CtxOf(a) \in cancelled \/ "execFails" \in Events
    /\ Goto(a, StartError(a))
    /\ UNCHANGED <<procVars, failureRestarts, childVars, cancelled, exitCode, handle,
                   lateReady>>

\* Second critical section: the child is running and the mutex stays held.
StartSpawns(a) ==
    /\ pc[a] = "exec"
    /\ Unlocked
    /\ CtxOf(a) \notin cancelled
    /\ \E c \in Cmd :
        /\ Fresh(c)
        /\ cmd' = c
        /\ child' = [child EXCEPT ![c] = "alive"]
        /\ ctx' = [ctx EXCEPT ![c] = CtxOf(a)]
    /\ running' = TRUE
    /\ Goto(a, "ready")
    /\ UNCHANGED <<state, exitChan, done, failureRestarts, code, sig, cancelled,
                   exitCode, handle, lateReady>>

\* The ready goroutine reports: p.cmd.Process is never nil once exec succeeded.
StartReady(a) ==
    /\ pc[a] = "ready"
    /\ Goto(a, IF a = Starter THEN "started" ELSE "restarted")
    /\ UNCHANGED <<procVars, failureRestarts, childVars, cancelled, exitCode, handle,
                   lateReady>>

\* Start gives up waiting: an error is returned, the child and the ready goroutine
\* live on.
StartAbandoned(a) ==
    /\ pc[a] = "ready"
    /\ CtxOf(a) \in cancelled \/ "slowStart" \in Events
    /\ Goto(a, StartError(a))
    /\ lateReady' = lateReady \cup {a}
    /\ UNCHANGED <<procVars, failureRestarts, childVars, cancelled, exitCode, handle>>

\* A ready goroutine left behind evaluates p.cmd.Process without the mutex.  With a
\* nil p.cmd the program panics; the model goes no further.
LateReady(a) ==
    /\ a \in lateReady
    /\ cmd # NoCmd
    /\ lateReady' = lateReady \ {a}
    /\ UNCHANGED <<procVars, failureRestarts, childVars, cancelled, pc, exitCode, handle>>

-----------------------------------------------------------------------------
(* Monitor.                                                                *)

\* The group is monitored, and its instances stopped, once its Start has returned.
MonitorCalled(m) ==
    /\ pc[m] = "off"
    /\ pc[Starter] = "started"
    /\ Goto(m, "select")
    /\ UNCHANGED <<procVars, failureRestarts, childVars, cancelled, exitCode, handle,
                   lateReady>>

\* ctx.Done(): the monitor stops the instance itself.
MonitorCancelled(m) ==
    /\ pc[m] = "select"
    /\ "app" \in cancelled
    /\ Goto(m, "stop")
    /\ UNCHANGED <<procVars, failureRestarts, childVars, cancelled, exitCode, handle,
                   lateReady>>

MonitorDone(m) ==
    /\ pc[m] = "select"
    /\ done
    /\ Goto(m, "returned")
    /\ UNCHANGED <<procVars, failureRestarts, childVars, cancelled, exitCode, handle,
                   lateReady>>

MonitorReceives(m) ==
    /\ pc[m] = "select"
    /\ exitChan # "none"
    /\ exitCode' = [exitCode EXCEPT ![m] = exitChan]
    /\ exitChan' = "none"
    /\ Goto(m, "exited")
    /\ UNCHANGED <<state, running, cmd, done, failureRestarts, childVars, cancelled,
                   handle, lateReady>>

\* Mutant: only failures are restarted.
MonitorDropsCleanExit(m) ==
    /\ pc[m] = "exited"
    /\ Unlocked
    /\ Goto(m, IF state # "Running" \/ exitCode[m] = "zero" THEN "returned" ELSE "failure")
    /\ UNCHANGED <<procVars, failureRestarts, childVars, cancelled, exitCode, handle,
                   lateReady>>

\* Mutant: Monitor gives way to a failed instance only, not to a stopped one.
MonitorMissesStop(m) ==
    /\ pc[m] = "exited"
    /\ Unlocked
    /\ Goto(m, IF state = "Failed" THEN "returned"
               ELSE IF exitCode[m] = "zero" THEN "clean" ELSE "failure")
    /\ UNCHANGED <<procVars, failureRestarts, childVars, cancelled, exitCode, handle,
                   lateReady>>

\* p.state is read under RLock; the decision below is made from what was read.
MonitorReadsState(m) ==
    /\ pc[m] = "exited"
    /\ Unlocked
    /\ Goto(m, IF state # "Running" THEN "returned"
               ELSE IF exitCode[m] = "zero" THEN "clean" ELSE "failure")
    /\ UNCHANGED <<procVars, failureRestarts, childVars, cancelled, exitCode, handle,
                   lateReady>>

\* Mutant: the limit is tested with > instead of >=.
MonitorAllowsOneMore(m) ==
    /\ pc[m] = "failure"
    /\ Unlocked
    /\ failureRestarts' = Inc(failureRestarts)
    /\ IF failureRestarts' > MaxRestarts
         THEN state' = "Failed" /\ running' = FALSE /\ Goto(m, "returned")
         ELSE UNCHANGED <<state, running>> /\ Goto(m, "backoff")
    /\ UNCHANGED <<cmd, exitChan, done, childVars, cancelled, exitCode, handle,
                   lateReady>>

\* Mutant: no return after marking the instance failed.
MonitorGoesOnAfterFailed(m) ==
    /\ pc[m] = "failure"
    /\ Unlocked
    /\ failureRestarts' = Inc(failureRestarts)
    /\ state' = IF failureRestarts' >= MaxRestarts THEN "Failed" ELSE state
    /\ Goto(m, "backoff")
    /\ UNCHANGED <<running, cmd, exitChan, done, childVars, cancelled, exitCode,
                   handle, lateReady>>

\* A non-zero exit is counted; the last one allowed marks the instance failed.
MonitorCountsFailure(m) ==
    /\ pc[m] = "failure"
    /\ Unlocked
    /\ failureRestarts' = Inc(failureRestarts)
    /\ IF failureRestarts' >= MaxRestarts
         THEN state' = "Failed" /\ running' = FALSE /\ Goto(m, "returned")
         ELSE UNCHANGED <<state, running>> /\ Goto(m, "backoff")
    /\ UNCHANGED <<cmd, exitChan, done, childVars, cancelled, exitCode, handle,
                   lateReady>>

BackoffElapses(m) ==
    /\ pc[m] = "backoff"
    /\ Goto(m, "start")
    /\ UNCHANGED <<procVars, failureRestarts, childVars, cancelled, exitCode, handle,
                   lateReady>>

BackoffInterrupted(m) ==
    /\ pc[m] = "backoff"
    /\ done \/ "app" \in cancelled
    /\ Goto(m, "returned")
    /\ UNCHANGED <<procVars, failureRestarts, childVars, cancelled, exitCode, handle,
                   lateReady>>

MonitorCleanExit(m) ==
    /\ pc[m] = "clean"
    /\ Unlocked
    /\ Goto(m, "start")
    /\ UNCHANGED <<procVars, failureRestarts, childVars, cancelled, exitCode, handle,
                   lateReady>>

\* Mutant: max_restarts is tested here as well, as if no child could be left.
MonitorFailsOnStartError(m) ==
    /\ pc[m] = "startErr"
    /\ Unlocked
    /\ failureRestarts' = Inc(failureRestarts)
    /\ state' = IF failureRestarts' >= MaxRestarts THEN "Failed" ELSE state
    /\ Goto(m, "select")
    /\ UNCHANGED <<running, cmd, exitChan, done, childVars, cancelled, exitCode,
                   handle, lateReady>>

\* Mutant: the restart is tried again at once.
MonitorRetriesStart(m) ==
    /\ pc[m] = "startErr"
    /\ Unlocked
    /\ failureRestarts' = Inc(failureRestarts)
    /\ Goto(m, "start")
    /\ UNCHANGED <<procVars, childVars, cancelled, exitCode, handle, lateReady>>

\* Start failed: count it and go back to the select.
MonitorCountsStartError(m) ==
    /\ pc[m] = "startErr"
    /\ Unlocked
    /\ failureRestarts' = Inc(failureRestarts)
    /\ Goto(m, "select")
    /\ UNCHANGED <<procVars, childVars, cancelled, exitCode, handle, lateReady>>

MonitorRestarted(m) ==
    /\ pc[m] = "restarted"
    /\ Unlocked
    /\ Goto(m, "select")
    /\ UNCHANGED <<procVars, failureRestarts, childVars, cancelled, exitCode, handle,
                   lateReady>>

-----------------------------------------------------------------------------
(* Stop, called by the Stoppers and by a Monitor whose context is done.    *)

\* Monitor ignores what Stop returns, and returns.
Return(s, result) == Goto(s, IF s \in Monitors THEN "returned" ELSE result)
Succeed(s) == Return(s, "stopped") /\ handle' = [handle EXCEPT ![s] = NoCmd]

StopCalled(s) ==
    /\ pc[s] = "idle"
    /\ pc[Starter] = "started"
    /\ Goto(s, "stop")
    /\ UNCHANGED <<procVars, failureRestarts, childVars, cancelled, exitCode, handle,
                   lateReady>>

\* Mutant: the state is set only when there is nothing left to stop.
StopLeavesState(s) ==
    /\ pc[s] = "stop"
    /\ Unlocked
    /\ IF cmd = NoCmd \/ ~running
         THEN /\ state' = "Stopped"
              /\ running' = FALSE
              /\ done' = TRUE
              /\ Succeed(s)
         ELSE /\ Goto(s, "check")
              /\ handle' = [handle EXCEPT ![s] = cmd]
              /\ UNCHANGED <<state, running, done>>
    /\ UNCHANGED <<cmd, exitChan, failureRestarts, childVars, cancelled, exitCode, lateReady>>

\* First critical section.  Nothing to stop, or an exit event already waiting in the
\* channel: Stop returns at once.  Otherwise it remembers the process it will signal.
StopBegins(s) ==
    /\ pc[s] = "stop"
    /\ Unlocked
    /\ state' = "Stopped"
    /\ LET idle == cmd = NoCmd \/ ~running
       IN  IF idle \/ exitChan # "none"
             THEN /\ running' = FALSE
                  /\ done' = TRUE
                  /\ cmd' = IF idle THEN cmd ELSE NoCmd
                  /\ exitChan' = IF idle THEN exitChan ELSE "none"
                  /\ Succeed(s)
             ELSE /\ Goto(s, "check")
                  /\ handle' = [handle EXCEPT ![s] = cmd]
                  /\ UNCHANGED <<running, done, cmd, exitChan>>
    /\ UNCHANGED <<failureRestarts, childVars, cancelled, exitCode, lateReady>>

Reaped(c) == child[c] \in {"reaped", "send", "gone"}
StopMoves(s, from, to) ==
    /\ pc[s] = from
    /\ Goto(s, to)
    /\ UNCHANGED <<procVars, failureRestarts, childVars, cancelled, exitCode, handle,
                   lateReady>>

\* The kernel lets a signal through, or refuses it (EPERM) to a child that has changed its
\* user.  After SIGKILL the others no longer matter.
Delivered(c, signal) ==
    sig' = [sig EXCEPT ![c] = IF "kill" \in @ \cup {signal} THEN {"kill"} ELSE @ \cup {signal}]
Refused(c) == "eperm" \in Events /\ Delivered(c, "refused")

\* processExists(pid), which is signal 0 without an error: false once the child is reaped,
\* unless the pid was reused, and also when the signal is refused.
StopFindsNoPid(s) ==
    /\ pc[s] = "check"
    /\ IF Reaped(handle[s]) THEN UNCHANGED sig ELSE Refused(handle[s])
    /\ Goto(s, "finish")
    /\ UNCHANGED <<procVars, failureRestarts, child, code, ctx, cancelled, exitCode,
                   handle, lateReady>>
StopFindsPid(s) == StopMoves(s, "check", "term")

\* process.Signal on a reaped process is "os: process already finished"; a refusal is logged.
StopSignals(s, from, signal, to) ==
    /\ pc[s] = from
    /\ IF Reaped(handle[s])
         THEN Goto(s, "finish") /\ UNCHANGED sig
         ELSE Goto(s, to) /\ (Delivered(handle[s], signal) \/ Refused(handle[s]))
    /\ UNCHANGED <<procVars, failureRestarts, child, code, ctx, cancelled, exitCode,
                   handle, lateReady>>

StopTerminates(s) == StopSignals(s, "term", "term", "early")

\* One of Stop's three selects receives the exit event.
StopReceives(s) ==
    /\ pc[s] \in {"early", "wait", "killWait"}
    /\ exitChan # "none"
    /\ exitChan' = "none"
    /\ Goto(s, "finish")
    /\ UNCHANGED <<state, running, cmd, done, failureRestarts, childVars, cancelled,
                   exitCode, handle, lateReady>>

\* No exit event within 50ms.
StopEarlyElapses(s) == StopMoves(s, "early", "wait")

\* ctx.Done(): the caller's deadline passed, its request ended, or the application did.
StopCtxDone(s) ==
    /\ pc[s] = "wait"
    /\ s \in Monitors => "app" \in cancelled
    /\ Return(s, "error")
    /\ handle' = [handle EXCEPT ![s] = NoCmd]
    /\ UNCHANGED <<procVars, failureRestarts, childVars, cancelled, exitCode, lateReady>>

\* Mutant: the ticker does not look at running.
StopTicksBlindly(s) == Unlocked /\ StopMoves(s, "wait", "tick")

\* The ticker finds that the instance is no longer running.
StopTicks(s) == Unlocked /\ ~running /\ StopMoves(s, "wait", "tick")

\* Mutant: the stop_timeout timer is never armed.
StopNeverTimesOut(s) == FALSE /\ StopMoves(s, "wait", "kill")

\* stop_timeout elapses: take whatever p.cmd is now.
StopTimesOut(s) ==
    /\ pc[s] = "wait"
    /\ Unlocked
    /\ IF cmd = NoCmd
         THEN Goto(s, "noCmd") /\ UNCHANGED handle
         ELSE Goto(s, "kill") /\ handle' = [handle EXCEPT ![s] = cmd]
    /\ UNCHANGED <<procVars, failureRestarts, childVars, cancelled, exitCode, lateReady>>

\* Mutant: SIGTERM is sent a second time instead of SIGKILL.
StopTerminatesAgain(s) == StopSignals(s, "kill", "term", "killWait")

StopKills(s) == StopSignals(s, "kill", "kill", "killWait")

\* No exit event within two seconds of SIGKILL.
StopGivesUp(s) == StopMoves(s, "killWait", "giveUp")

\* The last critical section of each way out of Stop.
StopReturns(s) ==
    /\ pc[s] \in {"finish", "tick", "noCmd", "giveUp"}
    /\ Unlocked
    /\ running' = IF pc[s] = "tick" THEN running ELSE FALSE
    /\ cmd' = IF pc[s] = "noCmd" THEN cmd ELSE NoCmd
    /\ done' = TRUE
    /\ Return(s, IF pc[s] = "giveUp" THEN "error" ELSE "stopped")
    /\ handle' = [handle EXCEPT ![s] = NoCmd]
    /\ UNCHANGED <<state, exitChan, failureRestarts, childVars, cancelled, exitCode,
                   lateReady>>

-----------------------------------------------------------------------------
(* The rest of the program.                                                *)

\* The web handlers reset the counters before a manual start, stop or restart.
ResetRestartCounters ==
    /\ "reset" \in Events
    /\ pc[Starter] = "started"
    /\ Unlocked
    /\ failureRestarts' = 0
    /\ UNCHANGED <<procVars, childVars, cancelled, actorVars>>

Cancel(context) ==
    /\ context \notin cancelled
    /\ cancelled' = cancelled \cup {context}
    /\ UNCHANGED <<procVars, failureRestarts, childVars, actorVars>>

\* net/http cancels a request's context when its handler returns or its client leaves.
RequestEnds == StarterCtx = "req" /\ Cancel("req")
AppCancelled == "appCancel" \in Events /\ Cancel("app")

ChildStep(c) ==
    \/ ChildExits(c) \/ ChildKilled(c) \/ CtxKills(c)
    \/ WaiterReaps(c) \/ WaiterLocks(c) \/ WaiterSends(c)

StartStep(a) ==
    \/ StartBegins(a) \/ StartFails(a) \/ StartSpawns(a)
    \/ StartReady(a) \/ StartAbandoned(a) \/ LateReady(a)

MonitorStep(m) ==
    \/ MonitorCalled(m) \/ MonitorCancelled(m) \/ MonitorDone(m)
    \/ MonitorReceives(m) \/ MonitorReadsState(m) \/ MonitorCountsFailure(m)
    \/ BackoffElapses(m) \/ BackoffInterrupted(m) \/ MonitorCleanExit(m)
    \/ MonitorCountsStartError(m) \/ MonitorRestarted(m)

StopStep(s) ==
    \/ StopBegins(s) \/ StopFindsNoPid(s) \/ StopFindsPid(s)
    \/ StopTerminates(s) \/ StopReceives(s) \/ StopEarlyElapses(s)
    \/ StopTicks(s) \/ StopTimesOut(s) \/ StopKills(s)
    \/ StopGivesUp(s) \/ StopReturns(s)

Next ==
    \/ \E c \in Cmd : ChildStep(c)
    \/ \E a \in {Starter} \cup Monitors : StartStep(a)
    \/ \E m \in Monitors : MonitorStep(m)
    \/ \E s \in Stoppers : StopCalled(s)
    \/ \E s \in StopCaller : StopStep(s) \/ StopCtxDone(s)
    \/ ResetRestartCounters
    \/ RequestEnds
    \/ AppCancelled

Spec == Init /\ [][Next]_vars

(* Go's scheduler starves no goroutine, its mutex hands over to the longest *)
(* waiter, and timers fire: every goroutine of the program keeps moving.    *)
(* A child dies of a SIGKILL the kernel accepts.  It need not exit otherwise, *)
(* a context need not end and nobody need call Stop.                        *)
Fairness ==
    /\ \A c \in Cmd : WF_vars(ChildKilled(c))
    /\ \A c \in Cmd : SF_vars(WaiterReaps(c) \/ WaiterLocks(c) \/ WaiterSends(c))
    /\ \A a \in {Starter} \cup Monitors : SF_vars(StartStep(a))
    /\ \A m \in Monitors : SF_vars(MonitorStep(m))
    /\ \A s \in StopCaller : SF_vars(StopStep(s))

FairSpec == Spec /\ Fairness

-----------------------------------------------------------------------------
(* Properties.                                                             *)

Pending(c) == child[c] # "gone"
Handling(a) == pc[a] \in {"exited", "failure", "clean", "backoff", "start", "exec"}
\* A monitor that found the state Running, or a Start before its child exists.
Restarting(a) == pc[a] \in {"failure", "clean", "backoff", "start", "exec"}
\* Stop found the instance running and has not returned yet.
Stopping(s) == pc[s] \in StopSteps \ {"stop"}

\* The entitlement to run a child is in one place: in a child or its waiter, in the
\* exit channel, or with the one goroutine that handles the exit or starts the next
\* child.  Hence an instance never has two children, and a waiter never blocks on a
\* full p.exitChan (Start 473-536, the waiter 531-554, Monitor 287, Stop's receives).
OneIncarnation ==
    /\ \A c, d \in Cmd : Pending(c) /\ Pending(d) => c = d
    /\ \A a, b \in Actor : Handling(a) /\ Handling(b) => a = b
    /\ \A c \in Cmd : Pending(c) => exitChan = "none" /\ \A a \in Actor : ~Handling(a)
    /\ exitChan # "none" => \A a \in Actor : ~Handling(a)

\* Whenever p.running is set it speaks of the child p.cmd names, and that child's waiter
\* is still going to clear it: the flag never survives its child, although the waiter,
\* Monitor and five branches of Stop write it (526-527, 534, 308, 632-906).
RunningTracksChild == running => cmd # NoCmd /\ child[cmd] \in {"alive", "zombie", "reaped"}

\* No child escapes: one that is alive is the one p.cmd names with p.running set, so that a
\* Stop of this instance finds it, unless SIGKILL is on its way to it or the kernel refused
\* it a signal.  Stop clears p.cmd on ten ways out, four of them without an exit event
\* (618-930); whether the group still refers to the instance is module Group's subject.
NothingEscapes ==
    \A c \in Cmd : child[c] = "alive" =>
        (running /\ cmd = c) \/ sig[c] \cap {"kill", "refused"} # {}

\* Once Stop has found the instance running nothing restarts it before Stop returns:
\* the state it set stands and no restart is in flight (621, 296-302, 475).
StopHolds ==
    \A s \in StopCaller : Stopping(s) =>
        state = "Stopped" /\ \A a \in Actor : ~Restarting(a)

\* Where Stop is about to return nil after it found the child running, the child has exited,
\* has SIGKILL on its way, or was refused a signal: processExists takes the last for an exit
\* (659-677, 699-820, 855-880, 908-925, 983-994).
StopSucceeds ==
    \A s \in StopCaller : pc[s] \in {"finish", "tick", "noCmd"} =>
        \A c \in Cmd : child[c] = "alive" => sig[c] \cap {"kill", "refused"} # {}

\* A failed instance is at rest: not running, no child, nobody restarting it (310-311).
FailedIsQuiet ==
    state = "Failed" =>
        /\ ~running
        /\ exitChan = "none"
        /\ \A c \in Cmd : ~Pending(c)
        /\ \A a \in Actor : ~Handling(a)

\* Failed is left only by a manual stop, never by a restart, whatever stale decision a
\* monitor or a stop is carrying out (309-322, 475, 621).
FailedIsFinal == [][state = "Failed" => state' \in {"Failed", "Stopped"}]_vars

\* A stop is final unless somebody had already read the state Running, or begun a Start,
\* when it came: from then on no decision read, no event left in a channel and no later
\* Stop leads to another child (296-302, 370-376, 475, 621).
Spawned(c) == child[c] = "gone" /\ child'[c] = "alive"
StoppedInTime == state = "Stopped" /\ \A a \in Actor : ~Restarting(a)
StopIsForGood == [][StoppedInTime => StoppedInTime' /\ \A c \in Cmd : ~Spawned(c)]_vars

\* No restart is begun once max_restarts failures were counted (309-322), as long as
\* exec works and Start is not abandoned: a clean exit between failures, a reset by a
\* web handler or a Stop in the middle does not let one through.
RestartsWithinBudget ==
    \A m \in Monitors : pc[m] \in {"backoff", "start", "exec"} => failureRestarts < MaxRestarts

\* A child that never fails by itself is never counted as failed: what Stop kills, even
\* through several concurrent Stops, is not mistaken for a failure (296-305, 621).
HealthyNeverCounted == failureRestarts = 0

\* An exit nobody stopped is followed by a restart, a failed state or a stop: no event
\* is lost between the waiter's send and the monitor (287-409).
ExitIsHandled ==
    (exitChan # "none" /\ ~done) ~> (running \/ state # "Running" \/ done)

\* Stop returns, whatever the child does with the signals it is sent, and although the
\* mutex it needs is held through each Start (618-930).
StopReturnsEventually ==
    \A s \in Stoppers : pc[s] = "stop" ~> pc[s] \in {"stopped", "error"}

\* A Stop that found the instance running gets its child dead, or returns an error
\* because its context ended or the child outlived SIGKILL by two seconds (777, 882-906).
StopKillsChild ==
    \A s \in Stoppers :
        pc[s] = "check" ~> (pc[s] = "error" \/ \A c \in Cmd : child[c] # "alive")

\* What the invariants above need to be inductive: while Stop waits, the process it took
\* from p.cmd is the only child there can be, "tick" is reached with running cleared, and
\* SIGKILL has been sent, or a signal refused, where Stop is about to give up.
StopPins ==
    \A s \in StopCaller :
        /\ pc[s] \in {"check", "term", "early", "wait", "kill", "killWait"} =>
             /\ handle[s] \in Cmd
             /\ cmd \in {NoCmd, handle[s]}
             /\ \A c \in Cmd : Pending(c) => c = handle[s]
        /\ pc[s] = "tick" => ~running
        /\ pc[s] \in {"killWait", "giveUp"} =>
             \A c \in Cmd : child[c] = "alive" => sig[c] \cap {"kill", "refused"} # {}

IInv ==
    /\ TypeOK
    /\ OneIncarnation
    /\ RunningTracksChild
    /\ NothingEscapes
    /\ StopHolds
    /\ StopSucceeds
    /\ FailedIsQuiet
    /\ StopPins

\* The entitlement as the abstract specification names it.
phase ==
    IF \E c \in Cmd : Pending(c) THEN "up"
    ELSE IF exitChan # "none" THEN "exited"
    ELSE IF \E a \in Actor : Handling(a) THEN "starting"
    ELSE "over"

L == INSTANCE Lifecycle WITH phase <- phase

\* The goroutines of an instance implement the abstract lifecycle of its children.
LifecycleSpec == L!Spec

-----------------------------------------------------------------------------
(* What the documentation says, and the code does not do.                  *)

\* README.md:81: a stopped process "will not be automatically restarted".  So once a
\* Stop has returned nil no child is started.
StoppedIsFinal ==
    [][(\E s \in Stoppers : pc[s] = "stopped") => \A c \in Cmd : ~Spawned(c)]_vars
=============================================================================
