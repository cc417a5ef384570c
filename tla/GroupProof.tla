----------------------------- MODULE GroupProof -----------------------------
(***************************************************************************)
(* Theorems about a process group, for any number of instances and of      *)
(* start, stop and restart requests.  The inductive invariants are         *)
(* GroupInv and, where no child exits by itself, QuietInv of module Group. *)
(***************************************************************************)
EXTENDS Group, TLAPS

-----------------------------------------------------------------------------
(* Type correctness.                                                       *)

\* What the steps of one caller leave of the calls.
LEMMA CallAfter ==
    ASSUME TypeOK, NEW c \in Caller, NEW after, CallStep(c, after)
    PROVE  /\ UNCHANGED ended /\ call'[c] = after
           /\ \A d \in Caller \ {c} : call'[d] = call[d]
           /\ after \in CallStates => call' \in [Caller -> CallStates]
  BY DEF TypeOK, CallStep

LEMMA GotoAfter ==
    ASSUME TypeOK, NEW c \in Caller, NEW step, Goto(c, step)
    PROVE  /\ UNCHANGED ended
           /\ call'[c].pc = step /\ call'[c].todo = call[c].todo /\ call'[c].view = call[c].view
           /\ call'[c].targets = call[c].targets /\ call'[c].failed = call[c].failed
           /\ \A d \in Caller \ {c} : call'[d] = call[d]
           /\ step \in CallSteps => call' \in [Caller -> CallStates]
  <1> DEFINE after == [call[c] EXCEPT !.pc = step]
  <1>1. CallStep(c, after)
      BY DEF Goto
  <1>2. call[c] \in CallStates
      BY DEF TypeOK
  <1>3. /\ after.pc = step /\ after.todo = call[c].todo /\ after.view = call[c].view
        /\ after.targets = call[c].targets /\ after.failed = call[c].failed
        /\ step \in CallSteps => after \in CallStates
      BY <1>2 DEF CallStates, CallSteps
  <1> HIDE DEF after
  <1> QED
      BY <1>1, <1>3, CallAfter

LEMMA VisitAfter ==
    ASSUME TypeOK, NEW c \in Caller, NEW i \in Slot, NEW step, Visit(c, i, step)
    PROVE  /\ i \in call[c].todo /\ UNCHANGED ended
           /\ call'[c].pc = step /\ call'[c].todo = call[c].todo \ {i}
           /\ call'[c].view = call[c].view
           /\ call'[c].targets = call[c].targets /\ call'[c].failed = call[c].failed
           /\ \A d \in Caller \ {c} : call'[d] = call[d]
           /\ step \in {"starting", "attach", "force", "forcing"}
                => call' \in [Caller -> CallStates]
  <1> DEFINE after == [call[c] EXCEPT !.pc = step, !.todo = @ \ {i}]
  <1>1. CallStep(c, after) /\ i \in call[c].todo
      BY DEF Visit, IsNext
  <1>2. call[c] \in CallStates
      BY DEF TypeOK
  <1>3. /\ after.pc = step /\ after.todo = call[c].todo \ {i} /\ after.view = call[c].view
        /\ after.targets = call[c].targets /\ after.failed = call[c].failed
        /\ step \in {"starting", "attach", "force", "forcing"} => after \in CallStates
      BY <1>2 DEF CallStates, CallSteps, StopSteps
  <1> HIDE DEF after
  <1> QED
      BY <1>1, <1>3, CallAfter

LEMMA StartKeepsTypes ==
    ASSUME TypeOK, NEW c \in Caller, StartStep(c)
    PROVE  TypeOK'
  <1>1. CASE StartRefused(c)
      BY <1>1, GotoAfter DEF StartRefused, CallSteps, TypeOK
  <1>2. CASE StartMakesProcesses(c)
    <2>1. [pg EXCEPT !.current = c, !.mu = c] \in PgStates
        BY DEF TypeOK, PgStates
    <2>2. [call[c] EXCEPT !.pc = "starting", !.todo = Slot] \in CallStates
        BY DEF TypeOK, CallStates, CallSteps
    <2> QED
        BY <1>2, <2>1, <2>2, CallAfter DEF StartMakesProcesses, TypeOK
  <1>3. CASE StartReturns(c)
    <2>1. [pg EXCEPT !.mu = Nobody] \in PgStates
        BY DEF TypeOK, PgStates
    <2> QED
        BY <1>3, <2>1, GotoAfter DEF StartReturns, CallSteps, TypeOK
  <1>4. ASSUME NEW i \in Slot, StartInstance(c, i) \/ StartInstanceFails(c, i)
        PROVE  TypeOK'
    <2> DEFINE o == <<c, i>>
    <2>1. o \in Obj /\ inst[o] \in InstStates
        BY DEF Obj, TypeOK
    <2>2. call' \in [Caller -> CallStates] /\ UNCHANGED <<ended, stopping>>
        BY <1>4, VisitAfter DEF StartInstance, StartInstanceFails
    <2> HIDE DEF o
    <2>3. CASE StartInstance(c, i)
      <3>1. pg' = [pg EXCEPT !.listed = @ \cup {o}]
            /\ inst' = [inst EXCEPT ![o].phase = "up", ![o].running = TRUE,
                                    ![o].own = c # Main, ![o].lost = "no"]
          BY <2>3 DEF StartInstance, Spawned, o
      <3>2. pg' \in PgStates
          BY <2>1, <3>1 DEF TypeOK, PgStates
      <3>3. [inst[o] EXCEPT !.phase = "up", !.running = TRUE, !.own = c # Main,
                            !.lost = "no"] \in InstStates
          BY <2>1 DEF InstStates
      <3>4. inst' \in [Obj -> InstStates]
          BY <2>1, <3>1, <3>3 DEF TypeOK
      <3> QED
          BY <2>2, <3>2, <3>4 DEF TypeOK
    <2>4. CASE StartInstanceFails(c, i)
      <3>1. /\ UNCHANGED pg
            /\ \/ inst' = [inst EXCEPT ![o].phase = "over"]
               \/ \E lost \in {"no", "abandoned"} :
                    inst' = [inst EXCEPT ![o].phase = "up", ![o].running = TRUE,
                                         ![o].own = c # Main, ![o].lost = lost]
          BY <2>4 DEF StartInstanceFails, Spawned, o
      <3>2. /\ \A lost \in {"no", "abandoned"} :
                 [inst[o] EXCEPT !.phase = "up", !.running = TRUE, !.own = c # Main,
                                 !.lost = lost] \in InstStates
            /\ [inst[o] EXCEPT !.phase = "over"] \in InstStates
          BY <2>1 DEF InstStates
      <3>3. inst' \in [Obj -> InstStates]
          BY <2>1, <3>1, <3>2 DEF TypeOK
      <3> QED
          BY <2>2, <3>1, <3>3 DEF TypeOK
    <2> QED
        BY <1>4, <2>3, <2>4
  <1> QED
      BY <1>1, <1>2, <1>3, <1>4 DEF StartStep

LEMMA MonitorKeepsTypes ==
    ASSUME TypeOK, NEW c \in Caller, MonitorStep(c)
    PROVE  TypeOK'
  <1>1. call[c] \in CallStates /\ pg.current \in Caller \cup {Nobody}
      BY DEF TypeOK, PgStates
  <1>2. CASE MonitorRanges(c)
    <2>1. [call[c] EXCEPT !.pc = "attach", !.view = pg.current, !.todo = Slot] \in CallStates
        BY <1>1 DEF CallStates, CallSteps
    <2> QED
        BY <1>2, <2>1, CallAfter DEF MonitorRanges, TypeOK
  <1>3. CASE MonitorReturns(c)
    <2>1. \A step \in {"serving", "reply"} :
            [call[c] EXCEPT !.pc = step, !.view = Nobody] \in CallStates
        BY <1>1 DEF CallStates, CallSteps
    <2>2. PICK step \in {"serving", "reply"} :
            CallStep(c, [call[c] EXCEPT !.pc = step, !.view = Nobody])
        BY <1>3 DEF MonitorReturns
    <2> QED
        BY <1>3, <2>1, <2>2, CallAfter DEF MonitorReturns, TypeOK
  <1>4. ASSUME NEW i \in Slot, MonitorAttaches(c, i)
        PROVE  TypeOK'
    <2>1. \A o \in Obj : [inst[o] EXCEPT !.monitors = @ \cup {c}] \in InstStates
        BY DEF TypeOK, InstStates
    <2>2. inst' \in [Obj -> InstStates]
        BY <1>4, <2>1 DEF MonitorAttaches, Watch, TypeOK
    <2> QED
        BY <1>4, <2>2, VisitAfter DEF MonitorAttaches, TypeOK
  <1> QED
      BY <1>2, <1>3, <1>4 DEF MonitorStep

LEMMA StopKeepsTypes ==
    ASSUME TypeOK, NEW c \in Caller, StopStep(c)
    PROVE  TypeOK'
  <1>1. call[c] \in CallStates /\ Processes \subseteq Obj
      BY DEF TypeOK, PgStates, Processes
  <1>2. \A o \in Processes, f \in BOOLEAN : StopCall(c, o, f) \in StopCalls
      BY <1>1 DEF StopCall, StopCalls
  <1>3. CASE StopCopies(c)
    <2>1. [call[c] EXCEPT !.pc = "wait", !.targets = Processes] \in CallStates
        BY <1>1 DEF CallStates, CallSteps, StopSteps
    <2>2. stopping' \subseteq StopCalls
        BY <1>2, <1>3 DEF StopCopies, TypeOK
    <2> QED
        BY <1>3, <2>1, <2>2, CallAfter DEF StopCopies, TypeOK
  <1>4. CASE StopWaited(c)
    <2>1. PICK err \in BOOLEAN :
            CallStep(c, [call[c] EXCEPT !.pc = "verify", !.failed = @ \/ err])
        BY <1>4 DEF StopWaited
    <2>2. [call[c] EXCEPT !.pc = "verify", !.failed = @ \/ err] \in CallStates
        BY <1>1 DEF CallStates, CallSteps, StopSteps
    <2> QED
        BY <1>4, <2>1, <2>2, CallAfter DEF StopWaited, TypeOK
  <1>5. CASE StopVerifies(c)
    <2> DEFINE unstopped == {o[2] : o \in {p \in Processes : Running(p)}}
               step == IF unstopped = {} THEN "close" ELSE "force"
    <2>1. CallStep(c, [call[c] EXCEPT !.todo = unstopped, !.pc = step])
        BY <1>5 DEF StopVerifies
    <2>2. unstopped \subseteq Slot /\ step \in {"close", "force"}
        BY <1>1 DEF Obj
    <2> HIDE DEF unstopped, step
    <2>3. [call[c] EXCEPT !.todo = unstopped, !.pc = step] \in CallStates
        BY <1>1, <2>2 DEF CallStates, CallSteps, StopSteps
    <2> QED
        BY <1>5, <2>1, <2>3, CallAfter DEF StopVerifies, TypeOK
  <1>6. ASSUME NEW i \in Slot, StopForces(c, i)
        PROVE  TypeOK'
    <2> DEFINE again == {o \in Processes : o[2] = i /\ Running(o)}
    <2>1. PICK step \in {"force", "forcing"} : Visit(c, i, step)
        BY <1>6 DEF StopForces
    <2>2. stopping' = stopping \cup {StopCall(c, o, TRUE) : o \in again} /\ UNCHANGED <<pg, inst>>
        BY <1>6 DEF StopForces
    <2>3. stopping' \subseteq StopCalls
        BY <1>2, <2>2 DEF TypeOK
    <2> QED
        BY <2>1, <2>2, <2>3, VisitAfter DEF TypeOK
  <1>7. CASE StopForced(c)
      BY <1>7, GotoAfter DEF StopForced, CallSteps, StopSteps, TypeOK
  <1>8. CASE StopVerifiesAgain(c)
    <2>1. PICK some \in BOOLEAN :
            CallStep(c, [call[c] EXCEPT !.pc = "close", !.failed = @ \/ some])
        BY <1>8 DEF StopVerifiesAgain
    <2>2. [call[c] EXCEPT !.pc = "close", !.failed = @ \/ some] \in CallStates
        BY <1>1 DEF CallStates, CallSteps, StopSteps
    <2> QED
        BY <1>8, <2>1, <2>2, CallAfter DEF StopVerifiesAgain, TypeOK
  <1>9. CASE StopReturns(c)
    <2>1. PICK step \in {"refuse", "start", "reply"} : Goto(c, step)
        BY <1>9 DEF StopReturns
    <2>2. [pg EXCEPT !.done = TRUE] \in PgStates
        BY DEF TypeOK, PgStates
    <2> QED
        BY <1>9, <2>1, <2>2, GotoAfter DEF StopReturns, CallSteps, TypeOK
  <1> QED
      BY <1>3, <1>4, <1>5, <1>6, <1>7, <1>8, <1>9 DEF StopStep

LEMMA CallersKeepTypes ==
    ASSUME TypeOK, \/ \E c \in Caller : CallReturns(c) \/ ContextEnds(c)
                   \/ \E r \in Request : RequestArrives(r)
                   \/ Shutdown
    PROVE  TypeOK'
  <1>1. ASSUME NEW c \in Caller, CallReturns(c)
        PROVE  TypeOK'
    <2>1. \A step \in {"ok", "error"} : [call[c] EXCEPT !.pc = step, !.failed = FALSE] \in CallStates
        BY DEF TypeOK, CallStates, CallSteps
    <2>2. call' \in [Caller -> CallStates]
        BY <1>1, <2>1 DEF CallReturns, TypeOK
    <2> QED
        BY <1>1, <2>2 DEF CallReturns, TypeOK
  <1>2. ASSUME NEW c \in Caller, ContextEnds(c)
        PROVE  TypeOK'
      BY <1>2 DEF ContextEnds, TypeOK
  <1>3. ASSUME NEW r \in Request, RequestArrives(r)
        PROVE  TypeOK'
    <2>1. r \in Caller
        BY DEF Caller
    <2>2. PICK step \in {"start", "stop"} : Goto(r, step)
        BY <1>3 DEF RequestArrives
    <2> QED
        BY <1>3, <2>1, <2>2, GotoAfter DEF RequestArrives, CallSteps, StopSteps, TypeOK
  <1>4. CASE Shutdown
    <2>1. Main \in Caller
        BY DEF Caller
    <2> QED
        BY <1>4, <2>1, GotoAfter DEF Shutdown, CallSteps, StopSteps, TypeOK
  <1> QED
      BY <1>1, <1>2, <1>3, <1>4

-----------------------------------------------------------------------------
(* What the monitors, the children and the calls of Process.Stop do.       *)

InstanceStep ==
    \/ \E s \in stopping : StopInstanceStep(s)
    \/ \E o \in Obj : ChildExits(o) \/ WatchStep(o) \/ QuitStep(o)

\* What p.running says of a child, and when one is lost.
Kept(r) ==
    /\ r.running \/ r.lost # "no" => r.phase = "up"
    /\ r.phase = "up" /\ r.lost = "no" => r.running

\* They take an instance along its lifecycle, close and leave it, and clear p.running when
\* its child exits or is written off; and nobody else is moved.
Moved(o) ==
    /\ \/ inst'[o].phase = inst[o].phase
       \/ /\ inst[o].phase = "up" /\ inst'[o].phase = "exited" /\ inst'[o].state = inst[o].state
          /\ "exit" \in Events \/ inst[o].state = "Stopped" \/ Doomed(o)
       \/ /\ inst[o].phase = "exited" /\ inst'[o].phase = "starting"
          /\ inst[o].state = "Running" /\ inst[o].monitors # {}
       \/ inst[o].phase \in {"exited", "starting"} /\ inst'[o].phase = "over"
       \/ inst[o].phase = "starting" /\ inst'[o].phase = "up"
    /\ inst[o].closed => inst'[o].closed
    /\ inst'[o].monitors \subseteq inst[o].monitors
    /\ inst'[o].closed \/ inst'[o].phase = "over" \/ inst'[o].monitors = inst[o].monitors
    /\ inst'[o].own = inst[o].own \/ inst[o].phase = "starting"
    /\ inst'[o].state \in {inst[o].state, "Stopped"} \/ inst[o].phase = "starting"
    /\ Kept(inst[o]) => Kept(inst'[o])
    /\ Kept(inst[o]) /\ inst'[o].running /\ inst'[o].lost # "no"
         => inst[o].running /\ inst[o].lost # "no"
    /\ inst'[o].phase = "up" /\ inst'[o].lost = "no"
         => (inst[o].phase = "up" /\ inst[o].lost = "no") \/ inst[o].phase = "starting"

LEMMA OneMoves ==
    ASSUME TypeOK, NEW o \in Obj, NEW after \in InstStates, InstStep(o, after)
    PROVE  TypeOK' /\ UNCHANGED <<pg, call, ended>> /\ inst'[o] = after
           /\ \A b \in Obj \ {o} : inst'[b] = inst[b]
  BY DEF InstStep, TypeOK

LEMMA UnmovedIsMoved == \A o \in Obj : inst'[o] = inst[o] => Moved(o)
  BY DEF Moved

LEMMA WatchMoves ==
    ASSUME TypeOK, NEW o \in Obj, ChildExits(o) \/ WatchStep(o) \/ QuitStep(o)
    PROVE  TypeOK' /\ UNCHANGED <<pg, call, ended>> /\ \A b \in Obj : Moved(b)
  <1>1. inst[o] \in InstStates
      BY DEF TypeOK
  <1>2. SUFFICES \E after \in InstStates : InstStep(o, after) /\ (inst'[o] = after => Moved(o))
      BY <1>2, OneMoves, UnmovedIsMoved
  <1>3. CASE ChildExits(o)
    <2> DEFINE after == [inst[o] EXCEPT !.phase = "exited", !.running = FALSE, !.lost = "no"]
    <2>1. InstStep(o, after)
        BY <1>3 DEF ChildExits
    <2>2. /\ after \in InstStates /\ after.phase = "exited" /\ after.state = inst[o].state
          /\ after.closed = inst[o].closed /\ after.monitors = inst[o].monitors
          /\ after.own = inst[o].own /\ after.running = FALSE /\ after.lost = "no"
        BY <1>1 DEF InstStates
    <2> HIDE DEF after
    <2>3. inst'[o] = after => Moved(o)
        BY <1>3, <2>2 DEF ChildExits, Up, Moved, Kept
    <2> QED
        BY <2>1, <2>2, <2>3
  <1>4. ASSUME NEW m \in Caller, MonitorTakesExit(m, o)
        PROVE  \E after \in InstStates : InstStep(o, after) /\ (inst'[o] = after => Moved(o))
    <2> DEFINE on == [inst[o] EXCEPT !.phase = "starting"]
               out == [inst[o] EXCEPT !.phase = "over", !.monitors = @ \ {m}]
    <2>1. /\ on \in InstStates /\ on.phase = "starting" /\ on.state = inst[o].state
          /\ on.closed = inst[o].closed /\ on.monitors = inst[o].monitors
          /\ on.own = inst[o].own /\ on.running = inst[o].running /\ on.lost = inst[o].lost
        BY <1>1 DEF InstStates
    <2>2. /\ out \in InstStates /\ out.phase = "over" /\ out.state = inst[o].state
          /\ out.closed = inst[o].closed /\ out.monitors = inst[o].monitors \ {m}
          /\ out.own = inst[o].own /\ out.running = inst[o].running /\ out.lost = inst[o].lost
        BY <1>1 DEF InstStates
    <2>3. /\ m \in inst[o].monitors /\ inst[o].phase = "exited"
          /\ inst[o].state = "Running" => InstStep(o, on)
          /\ inst[o].state # "Running" => InstStep(o, out)
        BY <1>4 DEF MonitorTakesExit
    <2> HIDE DEF on, out
    <2>4. inst[o].state = "Running" => (inst'[o] = on => Moved(o))
        BY <2>1, <2>3 DEF Moved, Kept
    <2>5. inst'[o] = out => Moved(o)
        BY <2>2, <2>3 DEF Moved, Kept
    <2> QED
        BY <2>1, <2>2, <2>3, <2>4, <2>5
  <1>5. ASSUME NEW m \in Caller, MonitorGivesUp(m, o)
        PROVE  \E after \in InstStates : InstStep(o, after) /\ (inst'[o] = after => Moved(o))
    <2>1. PICK state \in {"Failed", inst[o].state} :
            InstStep(o, [inst[o] EXCEPT !.phase = "over", !.state = state, !.running = FALSE,
                                        !.monitors = @ \ {m}])
        BY <1>5 DEF MonitorGivesUp
    <2> DEFINE after == [inst[o] EXCEPT !.phase = "over", !.state = state, !.running = FALSE,
                                        !.monitors = @ \ {m}]
    <2>2. /\ after \in InstStates /\ after.phase = "over"
          /\ after.closed = inst[o].closed /\ after.monitors = inst[o].monitors \ {m}
          /\ after.own = inst[o].own /\ after.running = FALSE /\ after.lost = inst[o].lost
        BY <1>1 DEF InstStates
    <2>3. InstStep(o, after) /\ inst[o].phase = "starting"
        BY <1>5, <2>1 DEF MonitorGivesUp
    <2> HIDE DEF after
    <2>4. inst'[o] = after => Moved(o)
        BY <2>2, <2>3 DEF Moved, Kept
    <2> QED
        BY <2>2, <2>3, <2>4
  <1>6. CASE MonitorRestarts(o)
    <2> DEFINE after == [inst[o] EXCEPT !.phase = "up", !.running = TRUE, !.state = "Running",
                                        !.own = FALSE]
    <2>1. InstStep(o, after) /\ inst[o].phase = "starting"
        BY <1>6 DEF MonitorRestarts
    <2>2. /\ after \in InstStates /\ after.phase = "up"
          /\ after.closed = inst[o].closed /\ after.monitors = inst[o].monitors
          /\ after.running = TRUE /\ after.lost = inst[o].lost
        BY <1>1 DEF InstStates
    <2> HIDE DEF after
    <2>3. inst'[o] = after => Moved(o)
        BY <2>1, <2>2 DEF Moved, Kept
    <2> QED
        BY <2>1, <2>2, <2>3
  <1>7. CASE MonitorFailsToRestart(o)
    <2> DEFINE after == [inst[o] EXCEPT !.phase = "over", !.state = "Running"]
    <2>1. InstStep(o, after) /\ inst[o].phase = "starting"
        BY <1>7 DEF MonitorFailsToRestart
    <2>2. /\ after \in InstStates /\ after.phase = "over"
          /\ after.closed = inst[o].closed /\ after.monitors = inst[o].monitors
          /\ after.running = inst[o].running /\ after.lost = inst[o].lost
        BY <1>1 DEF InstStates
    <2> HIDE DEF after
    <2>3. inst'[o] = after => Moved(o)
        BY <2>1, <2>2 DEF Moved, Kept
    <2> QED
        BY <2>1, <2>2, <2>3
  <1>8. ASSUME NEW m \in Caller, MonitorQuits(m, o)
        PROVE  \E after \in InstStates : InstStep(o, after) /\ (inst'[o] = after => Moved(o))
    <2> DEFINE after == [inst[o] EXCEPT !.monitors = @ \ {m}]
    <2>1. InstStep(o, after) /\ inst[o].closed
        BY <1>8 DEF MonitorQuits
    <2>2. /\ after \in InstStates /\ after.phase = inst[o].phase /\ after.state = inst[o].state
          /\ after.closed = inst[o].closed /\ after.monitors = inst[o].monitors \ {m}
          /\ after.own = inst[o].own /\ after.running = inst[o].running
          /\ after.lost = inst[o].lost
        BY <1>1 DEF InstStates
    <2> HIDE DEF after
    <2>3. inst'[o] = after => Moved(o)
        BY <2>1, <2>2 DEF Moved, Kept
    <2> QED
        BY <2>1, <2>2, <2>3
  <1> QED
      BY <1>3, <1>4, <1>5, <1>6, <1>7, <1>8 DEF WatchStep, QuitStep

LEMMA StopMoves ==
    ASSUME TypeOK, NEW s \in stopping, StopInstanceStep(s)
    PROVE  /\ TypeOK' /\ UNCHANGED <<pg, ended>> /\ \A b \in Obj : Moved(b)
           /\ \A c \in Caller :
                /\ call'[c].pc = call[c].pc /\ call'[c].todo = call[c].todo
                /\ call'[c].view = call[c].view /\ call'[c].targets = call[c].targets
                /\ call[c].failed => call'[c].failed
  <1>1. s \in StopCalls /\ s.obj \in Obj /\ s.by \in Caller
      BY DEF TypeOK, StopCalls
  <1> DEFINE o == s.obj
  <1>2. inst[o] \in InstStates /\ stopping \subseteq StopCalls
      BY <1>1 DEF TypeOK
  <1>3. CASE StopInstance(s)
    <2> DEFINE after == [inst[o] EXCEPT !.state = "Stopped", !.closed = @ \/ ~Running(o)]
    <2>1. /\ after \in InstStates /\ after.phase = inst[o].phase /\ after.state = "Stopped"
          /\ inst[o].closed => after.closed
          /\ after.monitors = inst[o].monitors /\ after.own = inst[o].own
          /\ after.running = inst[o].running /\ after.lost = inst[o].lost
        BY <1>2 DEF InstStates, Running
    <2>2. /\ inst' = [inst EXCEPT ![o] = after] /\ UNCHANGED <<pg, call, ended>>
          /\ stopping' = (stopping \ {s}) \cup
                         {t \in {[s EXCEPT !.waiting = TRUE]} : Running(s.obj)}
        BY <1>3 DEF StopInstance
    <2>3. [s EXCEPT !.waiting = TRUE] \in StopCalls
        BY <1>1 DEF StopCalls
    <2>4. stopping' \subseteq StopCalls
        BY <1>2, <2>2, <2>3
    <2> HIDE DEF after
    <2>5. inst'[o] = after /\ \A b \in Obj \ {o} : inst'[b] = inst[b]
        BY <1>1, <2>2 DEF TypeOK
    <2>6. Moved(o)
        BY <2>1, <2>5 DEF Moved, Kept
    <2>7. TypeOK'
        BY <1>1, <2>1, <2>2, <2>4 DEF TypeOK
    <2> QED
        BY <2>2, <2>5, <2>6, <2>7, UnmovedIsMoved
  <1>4. CASE StopInstanceEnds(s)
    <2> DEFINE step == IF inst[o].phase = "exited" THEN "over" ELSE inst[o].phase
               after == [inst[o] EXCEPT !.closed = TRUE, !.phase = step]
    <2>1. step \in {"new", "up", "exited", "starting", "over"}
        BY <1>2 DEF InstStates
    <2>2. step = inst[o].phase \/ (inst[o].phase = "exited" /\ step = "over")
        OBVIOUS
    <2>3. inst' = [inst EXCEPT ![o] = after] /\ UNCHANGED <<pg, call, ended>>
          /\ stopping' = stopping \ {s}
        BY <1>4 DEF StopInstanceEnds
    <2> HIDE DEF step
    <2>4. /\ after \in InstStates /\ after.phase = step /\ after.state = inst[o].state
          /\ after.closed /\ after.monitors = inst[o].monitors /\ after.own = inst[o].own
          /\ after.running = inst[o].running /\ after.lost = inst[o].lost
        BY <1>2, <2>1 DEF InstStates
    <2> HIDE DEF after
    <2>5. inst'[o] = after /\ \A b \in Obj \ {o} : inst'[b] = inst[b]
        BY <1>1, <2>3 DEF TypeOK
    <2>6. Moved(o)
        BY <2>2, <2>4, <2>5 DEF Moved, Kept
    <2>7. TypeOK'
        BY <1>1, <2>3, <2>4 DEF TypeOK
    <2> QED
        BY <2>3, <2>5, <2>6, <2>7, UnmovedIsMoved
  <1>5. ASSUME Fails(s)
        PROVE  /\ call' \in [Caller -> CallStates]
               /\ \A c \in Caller :
                    /\ call'[c].pc = call[c].pc /\ call'[c].todo = call[c].todo
                    /\ call'[c].view = call[c].view /\ call'[c].targets = call[c].targets
                    /\ call[c].failed => call'[c].failed
    <2>1. PICK failed \in BOOLEAN :
            call' = [call EXCEPT ![s.by].failed = @ \/ failed]
        BY <1>5 DEF Fails
    <2>2. \A c \in Caller : [call[c] EXCEPT !.failed = @ \/ failed] \in CallStates
        BY DEF TypeOK, CallStates, CallSteps
    <2>3. call' \in [Caller -> CallStates]
        BY <1>1, <2>1, <2>2 DEF TypeOK
    <2>4. \A c \in Caller :
                /\ call'[c].pc = call[c].pc /\ call'[c].todo = call[c].todo
                /\ call'[c].view = call[c].view /\ call'[c].targets = call[c].targets
                /\ call[c].failed => call'[c].failed
        BY <2>1 DEF TypeOK, CallStates, CallSteps
    <2> QED
        BY <2>3, <2>4
  <1>6. CASE StopInstanceCtxDone(s)
      BY <1>5, <1>6, UnmovedIsMoved DEF StopInstanceCtxDone, TypeOK
  <1>7. ASSUME NEW lost \in {"refused", "killed", inst[o].lost},
               inst[o].phase = "up" => lost \in {"refused", "killed"},
               inst[o].phase # "up" => lost = inst[o].lost,
               stopping' = stopping \ {s}, UNCHANGED <<pg, ended>>,
               inst' = [inst EXCEPT ![o].closed = TRUE, ![o].running = FALSE, ![o].lost = lost]
        PROVE  /\ inst' \in [Obj -> InstStates] /\ stopping' \subseteq StopCalls
               /\ \A b \in Obj : Moved(b)
    <2> DEFINE after == [inst[o] EXCEPT !.closed = TRUE, !.running = FALSE, !.lost = lost]
    <2>1. lost \in {"no", "abandoned", "killed", "refused"}
        BY <1>2 DEF InstStates
    <2>2. /\ after \in InstStates /\ after.phase = inst[o].phase
          /\ after.state = inst[o].state /\ after.closed /\ after.own = inst[o].own
          /\ after.monitors = inst[o].monitors
          /\ after.running = FALSE /\ after.lost = lost
        BY <1>2, <2>1 DEF InstStates
    <2>3. inst' = [inst EXCEPT ![o] = after]
        BY <1>7
    <2> HIDE DEF after
    <2>4. inst'[o] = after /\ \A b \in Obj \ {o} : inst'[b] = inst[b]
        BY <1>1, <2>3 DEF TypeOK
    <2>5. Moved(o)
        BY <1>7, <2>2, <2>4 DEF Moved, Kept
    <2> QED
        BY <1>1, <1>2, <1>7, <2>2, <2>3, <2>4, <2>5, UnmovedIsMoved DEF TypeOK
  <1>8. CASE StopInstanceFindsNoPid(s)
    <2>1. /\ stopping' = stopping \ {s} /\ UNCHANGED <<pg, call, ended>>
          /\ inst[o].phase = "up"
          /\ inst' = [inst EXCEPT ![o].closed = TRUE, ![o].running = FALSE,
                                  ![o].lost = "refused"]
        BY <1>8 DEF StopInstanceFindsNoPid, Up
    <2> QED
        BY <1>7, <2>1 DEF TypeOK
  <1>9. CASE StopInstanceGivesUp(s)
    <2> DEFINE lost == IF Up(o) THEN "killed" ELSE inst[o].lost
    <2>1. /\ stopping' = stopping \ {s} /\ UNCHANGED <<pg, ended>> /\ Fails(s)
          /\ inst' = [inst EXCEPT ![o].closed = TRUE, ![o].running = FALSE, ![o].lost = lost]
        BY <1>9 DEF StopInstanceGivesUp
    <2>2. /\ inst[o].phase = "up" => lost = "killed"
          /\ inst[o].phase # "up" => lost = inst[o].lost
        BY DEF Up
    <2> HIDE DEF lost
    <2>3. lost \in {"refused", "killed", inst[o].lost}
        BY <2>2
    <2> QED
        BY <1>5, <1>7, <2>1, <2>2, <2>3 DEF TypeOK
  <1> QED
      BY <1>3, <1>4, <1>6, <1>8, <1>9 DEF StopInstanceStep

LEMMA InstanceMoves ==
    ASSUME TypeOK, InstanceStep
    PROVE  /\ TypeOK' /\ UNCHANGED <<pg, ended>> /\ \A b \in Obj : Moved(b)
           /\ \A c \in Caller :
                /\ call'[c].pc = call[c].pc /\ call'[c].todo = call[c].todo
                /\ call'[c].view = call[c].view /\ call'[c].targets = call[c].targets
                /\ call[c].failed => call'[c].failed
  BY WatchMoves, StopMoves DEF InstanceStep

-----------------------------------------------------------------------------
(* What the callers do.                                                    *)

\* A step of a caller's that leaves the instances and pg.processes alone.
Hops(c) ==
    /\ UNCHANGED inst
    /\ pg'.current = pg.current /\ pg'.listed = pg.listed /\ pg'.mu = pg.mu
    /\ \A d \in Caller \ {c} : call'[d] = call[d]
    /\ UNCHANGED ended \/ (call[c].pc \in {"reply", "refuse"} /\ ended' = ended \cup {c})
    /\ call'[c].targets = call[c].targets \/ call'[c].targets = Processes
    /\ \/ /\ At(c, "start") /\ At(c, "refuse")'
       \/ /\ At(c, "monitor") /\ At(c, "attach")'
          /\ call'[c].view = pg.current /\ call'[c].todo = Slot
       \/ /\ At(c, "attach") /\ call[c].todo = {}
          /\ IF c = Main THEN At(c, "serving")' ELSE At(c, "reply")'
       \/ /\ call[c].pc \in StopSteps /\ call'[c].pc \in StopSteps
          /\ At(c, "close")' /\ ~call'[c].failed => \A o \in Processes : ~Running(o)
       \/ /\ At(c, "close")
          /\ \/ At(c, "refuse")'
             \/ ~call[c].failed /\ c \in Restarts /\ At(c, "start")'
             \/ ~call[c].failed /\ c \notin Restarts /\ At(c, "reply")'
       \/ /\ At(c, "idle") /\ c \in Request
          /\ call[Main].pc \notin {"start", "starting", "monitor", "attach"}
          /\ IF c \in Starts THEN At(c, "start")' ELSE At(c, "stop")'
       \/ /\ c = Main /\ At(c, "serving") /\ At(c, "stop")'
       \/ /\ At(c, "reply") /\ At(c, "ok")'
       \/ /\ At(c, "refuse") /\ At(c, "error")'

LEMMA MonitorHops ==
    ASSUME TypeOK, NEW c \in Caller, StartRefused(c) \/ MonitorRanges(c) \/ MonitorReturns(c)
    PROVE  Hops(c)
  <1>1. call[c] \in CallStates
      BY DEF TypeOK
  <1>2. CASE StartRefused(c)
      BY <1>2, GotoAfter DEF StartRefused, Hops, At
  <1>3. CASE MonitorRanges(c)
    <2> DEFINE after == [call[c] EXCEPT !.pc = "attach", !.view = pg.current, !.todo = Slot]
    <2>1. CallStep(c, after) /\ At(c, "monitor") /\ UNCHANGED <<pg, inst>>
        BY <1>3 DEF MonitorRanges
    <2>2. /\ after.pc = "attach" /\ after.view = pg.current /\ after.todo = Slot
          /\ after.targets = call[c].targets
        BY <1>1 DEF CallStates
    <2> HIDE DEF after
    <2> QED
        BY <2>1, <2>2, CallAfter DEF Hops, At
  <1>4. CASE MonitorReturns(c)
    <2> DEFINE step == IF c = Main THEN "serving" ELSE "reply"
               after == [call[c] EXCEPT !.pc = step, !.view = Nobody]
    <2>1. CallStep(c, after) /\ At(c, "attach") /\ call[c].todo = {} /\ UNCHANGED <<pg, inst>>
        BY <1>4 DEF MonitorReturns
    <2>2. after.pc = step /\ after.targets = call[c].targets
        BY <1>1 DEF CallStates
    <2> HIDE DEF after
    <2> QED
        BY <2>1, <2>2, CallAfter DEF Hops, At
  <1> QED
      BY <1>2, <1>3, <1>4

LEMMA StopHops ==
    ASSUME TypeOK, NEW c \in Caller, StopStep(c)
    PROVE  Hops(c)
  <1>1. call[c] \in CallStates
      BY DEF TypeOK
  <1>2. CASE StopCopies(c)
    <2> DEFINE after == [call[c] EXCEPT !.pc = "wait", !.targets = Processes]
    <2>1. CallStep(c, after) /\ At(c, "stop") /\ UNCHANGED <<pg, inst>>
        BY <1>2 DEF StopCopies
    <2>2. after.pc = "wait" /\ after.targets = Processes
        BY <1>1 DEF CallStates
    <2> HIDE DEF after
    <2> QED
        BY <2>1, <2>2, CallAfter DEF Hops, At, StopSteps
  <1>3. CASE StopWaited(c)
    <2>1. PICK err \in BOOLEAN :
            CallStep(c, [call[c] EXCEPT !.pc = "verify", !.failed = @ \/ err])
        BY <1>3 DEF StopWaited
    <2> DEFINE after == [call[c] EXCEPT !.pc = "verify", !.failed = @ \/ err]
    <2>2. CallStep(c, after) /\ At(c, "wait") /\ UNCHANGED <<pg, inst>>
        BY <1>3, <2>1 DEF StopWaited
    <2>3. after.pc = "verify" /\ after.targets = call[c].targets
        BY <1>1 DEF CallStates
    <2> HIDE DEF after
    <2> QED
        BY <2>2, <2>3, CallAfter DEF Hops, At, StopSteps
  <1>4. CASE StopVerifies(c)
    <2> DEFINE unstopped == {o[2] : o \in {p \in Processes : Running(p)}}
               step == IF unstopped = {} THEN "close" ELSE "force"
               after == [call[c] EXCEPT !.todo = unstopped, !.pc = step]
    <2>1. CallStep(c, after) /\ At(c, "verify") /\ UNCHANGED <<pg, inst>>
        BY <1>4 DEF StopVerifies
    <2>2. /\ step \in {"close", "force"}
          /\ step = "close" => \A o \in Processes : ~Running(o)
        OBVIOUS
    <2> HIDE DEF unstopped, step
    <2>3. after.pc = step /\ after.targets = call[c].targets
        BY <1>1 DEF CallStates
    <2> HIDE DEF after
    <2> QED
        BY <2>1, <2>2, <2>3, CallAfter DEF Hops, At, StopSteps
  <1>5. ASSUME NEW i \in Slot, StopForces(c, i)
        PROVE  Hops(c)
    <2>1. PICK step \in {"force", "forcing"} : Visit(c, i, step)
        BY <1>5 DEF StopForces
    <2>2. At(c, "force") /\ UNCHANGED <<pg, inst>>
        BY <1>5 DEF StopForces
    <2> QED
        BY <2>1, <2>2, VisitAfter DEF Hops, At, StopSteps
  <1>6. CASE StopForced(c)
      BY <1>6, GotoAfter DEF StopForced, Hops, At, StopSteps
  <1>7. CASE StopVerifiesAgain(c)
    <2> DEFINE some == \E o \in Processes : Running(o)
               after == [call[c] EXCEPT !.pc = "close", !.failed = @ \/ some]
    <2>1. CallStep(c, after) /\ At(c, "force") /\ UNCHANGED <<pg, inst>>
        BY <1>7 DEF StopVerifiesAgain
    <2>2. ~some => \A o \in Processes : ~Running(o)
        OBVIOUS
    <2> HIDE DEF some
    <2>3. /\ after.pc = "close" /\ after.targets = call[c].targets
          /\ after.failed = (call[c].failed \/ some)
        BY <1>1 DEF CallStates
    <2> HIDE DEF after
    <2> QED
        BY <2>1, <2>2, <2>3, CallAfter DEF Hops, At, StopSteps
  <1>8. CASE StopReturns(c)
    <2> DEFINE step == IF call[c].failed THEN "refuse"
                       ELSE IF c \in Restarts THEN "start" ELSE "reply"
    <2>1. Goto(c, step) /\ At(c, "close") /\ pg' = [pg EXCEPT !.done = TRUE] /\ UNCHANGED inst
        BY <1>8 DEF StopReturns
    <2>2. pg'.current = pg.current /\ pg'.listed = pg.listed /\ pg'.mu = pg.mu
        BY <2>1 DEF TypeOK, PgStates
    <2>3. \/ step = "refuse"
          \/ ~call[c].failed /\ c \in Restarts /\ step = "start"
          \/ ~call[c].failed /\ c \notin Restarts /\ step = "reply"
        OBVIOUS
    <2> HIDE DEF step
    <2> QED
        BY <2>1, <2>2, <2>3, GotoAfter DEF Hops, At
  <1> QED
      BY <1>2, <1>3, <1>4, <1>5, <1>6, <1>7, <1>8 DEF StopStep

LEMMA CallersHop ==
    ASSUME TypeOK
    PROVE  /\ \A c \in Caller : CallReturns(c) => Hops(c)
           /\ \A r \in Request : RequestArrives(r) => r \in Caller /\ Hops(r)
           /\ Shutdown => Main \in Caller /\ Hops(Main)
  <1>1. ASSUME NEW c \in Caller, CallReturns(c)
        PROVE  Hops(c)
    <2> DEFINE step == IF At(c, "reply") THEN "ok" ELSE "error"
               after == [call[c] EXCEPT !.pc = step, !.failed = FALSE]
    <2>1. /\ call' = [call EXCEPT ![c] = after] /\ call[c].pc \in {"reply", "refuse"}
          /\ ended' = ended \cup {c} /\ UNCHANGED <<pg, inst>>
        BY <1>1 DEF CallReturns, At
    <2>2. after.pc = step /\ after.targets = call[c].targets
        BY DEF TypeOK, CallStates
    <2> HIDE DEF after
    <2>3. call'[c] = after /\ \A d \in Caller \ {c} : call'[d] = call[d]
        BY <2>1 DEF TypeOK
    <2> QED
        BY <2>1, <2>2, <2>3 DEF Hops, At
  <1>2. ASSUME NEW r \in Request, RequestArrives(r)
        PROVE  r \in Caller /\ Hops(r)
    <2>1. r \in Caller
        BY DEF Caller
    <2> DEFINE step == IF r \in Starts THEN "start" ELSE "stop"
    <2>2. Goto(r, step) /\ UNCHANGED <<pg, inst>> /\ At(r, "idle")
        BY <1>2 DEF RequestArrives
    <2>3. call[Main].pc \notin {"start", "starting", "monitor", "attach"}
        BY <1>2 DEF RequestArrives
    <2> QED
        BY <2>1, <2>2, <2>3, GotoAfter DEF Hops, At
  <1>3. ASSUME Shutdown
        PROVE  Main \in Caller /\ Hops(Main)
    <2>1. Main \in Caller
        BY DEF Caller
    <2> QED
        BY <1>3, <2>1, GotoAfter DEF Shutdown, Hops, At
  <1> QED
      BY <1>1, <1>2, <1>3

\* The loop of ProcessGroup.Start is at slot i.
Spawns(c, i) ==
    /\ At(c, "starting") /\ At(c, "starting")' /\ UNCHANGED ended
    /\ i \in call[c].todo /\ call'[c].todo = call[c].todo \ {i}
    /\ call'[c].targets = call[c].targets
    /\ \A d \in Caller \ {c} : call'[d] = call[d]
    /\ pg'.current = pg.current /\ pg'.mu = pg.mu
    /\ \A o \in Obj \ {<<c, i>>} : inst'[o] = inst[o]
    /\ LET o == <<c, i>>
       IN  /\ inst'[o].phase \in {"up", "over"}
           /\ inst'[o].monitors = inst[o].monitors
           /\ inst'[o].phase = "up" => inst'[o].running /\ inst'[o].own = (c # Main)
           /\ \/ pg'.listed = pg.listed \cup {o}
                 /\ inst'[o].phase = "up" /\ inst'[o].lost = "no"
              \/ pg'.listed = pg.listed
                 /\ inst'[o].phase = "up" /\ (c \in ended \/ inst'[o].lost = "abandoned")
              \/ /\ pg'.listed = pg.listed /\ inst'[o].phase = "over"
                 /\ inst'[o].own = inst[o].own /\ inst'[o].running = inst[o].running
                 /\ inst'[o].lost = inst[o].lost

LEMMA StartSpawns ==
    ASSUME TypeOK, NEW c \in Caller, NEW i \in Slot, StartInstance(c, i) \/ StartInstanceFails(c, i)
    PROVE  Spawns(c, i)
  <1> DEFINE o == <<c, i>>
  <1>1. o \in Obj /\ inst[o] \in InstStates
      BY DEF Obj, TypeOK
  <1>2. At(c, "starting") /\ Visit(c, i, "starting")
      BY DEF StartInstance, StartInstanceFails
  <1> HIDE DEF o
  <1>3. CASE StartInstance(c, i)
    <2>1. pg' = [pg EXCEPT !.listed = @ \cup {o}]
          /\ inst' = [inst EXCEPT ![o].phase = "up", ![o].running = TRUE,
                                  ![o].own = c # Main, ![o].lost = "no"]
        BY <1>3 DEF StartInstance, Spawned, o
    <2>2. pg'.current = pg.current /\ pg'.mu = pg.mu /\ pg'.listed = pg.listed \cup {o}
        BY <2>1 DEF TypeOK, PgStates
    <2>3. /\ inst'[o].phase = "up" /\ inst'[o].own = (c # Main)
          /\ inst'[o].running /\ inst'[o].lost = "no" /\ inst'[o].monitors = inst[o].monitors
          /\ \A b \in Obj \ {o} : inst'[b] = inst[b]
        BY <1>1, <2>1 DEF TypeOK, InstStates
    <2> QED
        BY <1>2, <2>2, <2>3, VisitAfter DEF Spawns, At, o
  <1>4. CASE StartInstanceFails(c, i)
    <2>1. /\ UNCHANGED pg
          /\ \/ inst' = [inst EXCEPT ![o].phase = "over"]
             \/ \E lost \in {"no", "abandoned"} :
                  /\ c \in ended \/ lost = "abandoned"
                  /\ inst' = [inst EXCEPT ![o].phase = "up", ![o].running = TRUE,
                                          ![o].own = c # Main, ![o].lost = lost]
        BY <1>4 DEF StartInstanceFails, Spawned, o
    <2>2. /\ inst'[o].monitors = inst[o].monitors
          /\ \A b \in Obj \ {o} : inst'[b] = inst[b]
          /\ \/ /\ inst'[o].phase = "over" /\ inst'[o].own = inst[o].own
                /\ inst'[o].running = inst[o].running /\ inst'[o].lost = inst[o].lost
             \/ /\ inst'[o].phase = "up" /\ inst'[o].running /\ inst'[o].own = (c # Main)
                /\ c \in ended \/ inst'[o].lost = "abandoned"
        BY <1>1, <2>1 DEF TypeOK, InstStates
    <2> QED
        BY <1>2, <2>1, <2>2, VisitAfter DEF Spawns, At, o
  <1> QED
      BY <1>3, <1>4

\* Monitor's loop is at slot i: it adds a watcher, and only to a listed instance.
Attaches(c, i) ==
    /\ At(c, "attach") /\ At(c, "attach")' /\ UNCHANGED <<pg, ended>>
    /\ call'[c].todo = call[c].todo \ {i} /\ call'[c].view = call[c].view
    /\ call'[c].targets = call[c].targets
    /\ \A d \in Caller \ {c} : call'[d] = call[d]
    /\ \A o \in Obj :
         /\ inst'[o].phase = inst[o].phase /\ inst'[o].closed = inst[o].closed
         /\ inst'[o].state = inst[o].state /\ inst'[o].own = inst[o].own
         /\ inst'[o].running = inst[o].running /\ inst'[o].lost = inst[o].lost
         /\ inst[o].monitors \subseteq inst'[o].monitors
         /\ o \notin pg.listed => inst'[o].monitors = inst[o].monitors
         /\ o \in pg.listed /\ o = <<call[c].view, i>> => c \in inst'[o].monitors

LEMMA MonitorAttachesTo ==
    ASSUME TypeOK, NEW c \in Caller, NEW i \in Slot, MonitorAttaches(c, i)
    PROVE  Attaches(c, i)
  <1>1. At(c, "attach") /\ Visit(c, i, "attach") /\ UNCHANGED pg
      BY DEF MonitorAttaches
  <1>2. ASSUME NEW o \in Obj
        PROVE  /\ inst'[o].phase = inst[o].phase /\ inst'[o].closed = inst[o].closed
               /\ inst'[o].state = inst[o].state /\ inst'[o].own = inst[o].own
               /\ inst'[o].running = inst[o].running /\ inst'[o].lost = inst[o].lost
               /\ inst[o].monitors \subseteq inst'[o].monitors
               /\ o \notin pg.listed => inst'[o].monitors = inst[o].monitors
               /\ o \in pg.listed /\ o = <<call[c].view, i>> => c \in inst'[o].monitors
    <2> DEFINE after == [inst[o] EXCEPT !.monitors = @ \cup {c}]
    <2>1. /\ after.phase = inst[o].phase /\ after.closed = inst[o].closed
          /\ after.state = inst[o].state /\ after.own = inst[o].own
          /\ after.running = inst[o].running /\ after.lost = inst[o].lost
          /\ after.monitors = inst[o].monitors \cup {c}
        BY DEF TypeOK, InstStates
    <2>2. inst'[o] = IF o \in {<<call[c].view, i>>} \cap pg.listed THEN after ELSE inst[o]
        BY DEF MonitorAttaches, Watch
    <2> HIDE DEF after
    <2> QED
        BY <2>1, <2>2
  <1> QED
      BY <1>1, <1>2, VisitAfter DEF Attaches, At

-----------------------------------------------------------------------------
(* The invariant.                                                          *)

\* A step of Next is one of these.
LEMMA NextCases ==
    ASSUME TypeOK, [Next]_vars
    PROVE  /\ TypeOK'
           /\ \/ \E c \in Caller : Hops(c)
              \/ \E c \in Caller : StartMakesProcesses(c) \/ StartReturns(c) \/ ContextEnds(c)
              \/ \E c \in Caller, i \in Slot : Spawns(c, i) \/ Attaches(c, i)
              \/ InstanceStep
              \/ UNCHANGED vars
  <1>1. ASSUME NEW c \in Caller, HandlerStep(c) \/ ContextEnds(c)
        PROVE  TypeOK' /\ \/ Hops(c) \/ StartMakesProcesses(c) \/ StartReturns(c) \/ ContextEnds(c)
                          \/ \E i \in Slot : Spawns(c, i) \/ Attaches(c, i)
    <2>1. CASE StartStep(c)
        BY <2>1, StartKeepsTypes, MonitorHops, StartSpawns DEF StartStep
    <2>2. CASE MonitorStep(c)
        BY <2>2, MonitorKeepsTypes, MonitorHops, MonitorAttachesTo DEF MonitorStep
    <2>3. CASE StopStep(c)
        BY <2>3, StopKeepsTypes, StopHops
    <2>4. CASE CallReturns(c) \/ ContextEnds(c)
        BY <2>4, CallersKeepTypes, CallersHop
    <2> QED
        BY <1>1, <2>1, <2>2, <2>3, <2>4 DEF HandlerStep
  <1>2. CASE Shutdown \/ \E r \in Request : RequestArrives(r)
      BY <1>2, CallersKeepTypes, CallersHop
  <1>3. CASE InstanceStep
      BY <1>3, InstanceMoves
  <1>4. CASE UNCHANGED vars
      BY <1>4 DEF vars, TypeOK
  <1> QED
      BY <1>1, <1>2, <1>3, <1>4 DEF Next, InstanceStep

\* What the lock, the names and the order of the callers' sets are worth.
LEMMA Names ==
    /\ Main \in Caller /\ Main \notin Request /\ Nobody \notin Caller
    /\ Starts \cap Stops = {} /\ Restarts \cap Stops = {}
    /\ \A c \in Caller : c = Main \/ c \in Starts \/ c \in Stops \/ c \in Restarts
    /\ \A o \in Obj : o[1] \in Caller /\ o[2] \in Slot /\ o = <<o[1], o[2]>>
    /\ \A c \in Caller, i \in Slot : <<c, i>> \in Obj /\ <<c, i>>[1] = c
  BY CallersAssumption DEF Caller, Request, Obj

\* StartMakesProcesses and StartReturns, by what they leave.
LEMMA StartFacts ==
    ASSUME TypeOK, NEW c \in Caller
    PROVE  /\ StartMakesProcesses(c) =>
                /\ At(c, "start") /\ c \notin ended /\ pg.mu = Nobody
                /\ pg'.current = c /\ pg'.mu = c /\ pg'.listed = pg.listed
                /\ At(c, "starting")' /\ call'[c].targets = call[c].targets
                /\ \A d \in Caller \ {c} : call'[d] = call[d]
                /\ UNCHANGED <<ended, inst>>
           /\ StartReturns(c) =>
                /\ At(c, "starting") /\ call[c].todo = {}
                /\ pg'.current = pg.current /\ pg'.mu = Nobody /\ pg'.listed = pg.listed
                /\ At(c, "monitor")' /\ call'[c].targets = call[c].targets
                /\ \A d \in Caller \ {c} : call'[d] = call[d]
                /\ UNCHANGED <<ended, inst>>
  <1>1. pg \in PgStates /\ call[c] \in CallStates
      BY DEF TypeOK
  <1>2. ASSUME StartMakesProcesses(c)
        PROVE  /\ At(c, "start") /\ c \notin ended /\ pg.mu = Nobody
               /\ pg'.current = c /\ pg'.mu = c /\ pg'.listed = pg.listed
               /\ At(c, "starting")' /\ call'[c].targets = call[c].targets
               /\ \A d \in Caller \ {c} : call'[d] = call[d]
               /\ UNCHANGED <<ended, inst>>
    <2> DEFINE after == [call[c] EXCEPT !.pc = "starting", !.todo = Slot]
    <2>1. CallStep(c, after) /\ UNCHANGED inst /\ pg' = [pg EXCEPT !.current = c, !.mu = c]
        BY <1>2 DEF StartMakesProcesses
    <2>2. At(c, "start") /\ c \notin ended /\ pg.mu = Nobody
        BY <1>2 DEF StartMakesProcesses, Free
    <2>3. after.pc = "starting" /\ after.targets = call[c].targets
        BY <1>1 DEF CallStates
    <2>4. pg'.current = c /\ pg'.mu = c /\ pg'.listed = pg.listed
        BY <1>1, <2>1 DEF PgStates
    <2> HIDE DEF after
    <2> QED
        BY <2>1, <2>2, <2>3, <2>4, CallAfter DEF At
  <1>3. ASSUME StartReturns(c)
        PROVE  /\ At(c, "starting") /\ call[c].todo = {}
               /\ pg'.current = pg.current /\ pg'.mu = Nobody /\ pg'.listed = pg.listed
               /\ At(c, "monitor")' /\ call'[c].targets = call[c].targets
               /\ \A d \in Caller \ {c} : call'[d] = call[d]
               /\ UNCHANGED <<ended, inst>>
    <2>1. Goto(c, "monitor") /\ UNCHANGED inst /\ pg' = [pg EXCEPT !.mu = Nobody]
        BY <1>3 DEF StartReturns
    <2>2. At(c, "starting") /\ call[c].todo = {}
        BY <1>3 DEF StartReturns
    <2>3. pg'.current = pg.current /\ pg'.mu = Nobody /\ pg'.listed = pg.listed
        BY <1>1, <2>1 DEF PgStates
    <2> QED
        BY <2>1, <2>2, <2>3, GotoAfter DEF At
  <1> QED
      BY <1>2, <1>3

LEMMA NextStartedOnce ==
    ASSUME GroupInv, [Next]_vars
    PROVE  StartedOnce'
  <1> USE DEF GroupInv
  <1>1. ASSUME NEW c \in Caller, Hops(c)
        PROVE  StartedOnce'
    <2>1. \A d \in Caller : HasStarted(d) => HasStarted(d)'
        BY <1>1, Names DEF Hops, HasStarted, At, StopSteps, Request
    <2>2. \A d \in Stops : ~At(d, "start")' /\ ~At(d, "starting")'
        BY <1>1, Names DEF Hops, StartedOnce, At, StopSteps, Caller, Request
    <2> QED
        BY <1>1, <2>1, <2>2, Names DEF Hops, StartedOnce
  <1>2. ASSUME NEW c \in Caller, StartMakesProcesses(c)
        PROVE  StartedOnce'
    <2>1. \A d \in Caller : d # c => (HasStarted(d) <=> HasStarted(d)')
        BY <1>2, StartFacts DEF HasStarted, At
    <2>2. ~HasStarted(c) /\ HasStarted(c)' /\ c \notin Stops
        BY <1>2, StartFacts DEF HasStarted, At, StopSteps, StartedOnce
    <2>3. \A d \in Stops : ~At(d, "start")' /\ ~At(d, "starting")'
        BY <1>2, <2>2, StartFacts DEF StartedOnce, At, Caller, Request
    <2> QED
        BY <1>2, <2>1, <2>2, <2>3, StartFacts, Names DEF StartedOnce
  <1>3. ASSUME NEW c \in Caller, StartReturns(c)
        PROVE  StartedOnce'
    <2>1. \A d \in Caller : HasStarted(d) => HasStarted(d)'
        BY <1>3, StartFacts DEF HasStarted, At, StopSteps
    <2>2. \A d \in Stops : ~At(d, "start")' /\ ~At(d, "starting")'
        BY <1>3, StartFacts DEF StartedOnce, At, Caller, Request
    <2> QED
        BY <1>3, <2>1, <2>2, StartFacts, Names DEF StartedOnce
  <1>4. ASSUME NEW c \in Caller, ContextEnds(c)
        PROVE  StartedOnce'
      BY <1>4 DEF ContextEnds, StartedOnce, HasStarted, At
  <1>5. ASSUME NEW c \in Caller, NEW i \in Slot, Spawns(c, i)
        PROVE  StartedOnce'
    <2>1. \A d \in Caller : HasStarted(d) => HasStarted(d)'
        BY <1>5 DEF Spawns, HasStarted, At, StopSteps
    <2>2. HasStarted(c)
        BY <1>5 DEF Spawns, HasStarted, At, StopSteps
    <2>3. \A d \in Stops : ~At(d, "start")' /\ ~At(d, "starting")'
        BY <1>5 DEF Spawns, StartedOnce, At, Caller, Request
    <2>4. <<c, i>> \in Obj /\ <<c, i>>[1] = c
        BY Names
    <2>5. \A o \in pg'.listed : o \in pg.listed \/ o = <<c, i>>
        BY <1>5 DEF Spawns
    <2>6. \A o \in pg'.listed : o \in Obj
        BY <2>4, <2>5 DEF TypeOK, PgStates
    <2>7. \A o \in Obj : o # <<c, i>> => inst'[o] = inst[o]
        BY <1>5 DEF Spawns
    <2>8. inst'[<<c, i>>].phase # "new"
        BY <1>5 DEF Spawns
    <2>9. pg'.current = pg.current
        BY <1>5 DEF Spawns
    <2> QED
        BY <2>1, <2>2, <2>3, <2>4, <2>5, <2>6, <2>7, <2>8, <2>9, Names DEF StartedOnce
  <1>6. ASSUME NEW c \in Caller, NEW i \in Slot, Attaches(c, i)
        PROVE  StartedOnce'
    <2>1. \A d \in Caller : d \in Stops \cup {d} => call'[d].pc = call[d].pc
        BY <1>6 DEF Attaches, At
    <2>2. \A o \in Obj : inst'[o].phase = inst[o].phase
        BY <1>6 DEF Attaches
    <2>3. UNCHANGED pg /\ pg.listed \subseteq Obj
        BY <1>6 DEF Attaches, TypeOK, PgStates
    <2> QED
        BY <2>1, <2>2, <2>3, Names DEF StartedOnce, HasStarted, At, Caller, Request
  <1>7. CASE InstanceStep
    <2>1. \A d \in Caller : call'[d].pc = call[d].pc
        BY <1>7, InstanceMoves
    <2>2. \A o \in Obj : inst'[o].phase = "new" <=> inst[o].phase = "new"
        BY <1>7, InstanceMoves DEF Moved
    <2>3. UNCHANGED pg /\ pg.listed \subseteq Obj
        BY <1>7, InstanceMoves DEF TypeOK, PgStates
    <2> QED
        BY <2>1, <2>2, <2>3, Names DEF StartedOnce, HasStarted, At, Caller, Request
  <1>8. CASE UNCHANGED vars
      BY <1>8 DEF vars, StartedOnce, HasStarted, At
  <1> QED
      BY <1>1, <1>2, <1>3, <1>4, <1>5, <1>6, <1>7, <1>8, NextCases

LEMMA NextStartHoldsLock ==
    ASSUME GroupInv, [Next]_vars
    PROVE  StartHoldsLock'
  <1> USE DEF GroupInv
  <1>1. ASSUME NEW c \in Caller, Hops(c)
        PROVE  StartHoldsLock'
      BY <1>1 DEF Hops, StartHoldsLock, At, StopSteps
  <1>2. ASSUME NEW c \in Caller, StartMakesProcesses(c)
        PROVE  StartHoldsLock'
    <2>1. \A d \in Caller \ {c} : ~At(d, "starting")'
        BY <1>2, StartFacts, Names DEF StartHoldsLock, At
    <2>2. \A i \in Slot : inst[<<c, i>>].phase = "new"
        BY <1>2, StartFacts, Names DEF StartedOnce, HasStarted
    <2> QED
        BY <1>2, <2>1, <2>2, StartFacts DEF StartHoldsLock
  <1>3. ASSUME NEW c \in Caller, StartReturns(c)
        PROVE  StartHoldsLock'
      BY <1>3, StartFacts DEF StartHoldsLock, At
  <1>4. ASSUME NEW c \in Caller, ContextEnds(c)
        PROVE  StartHoldsLock'
      BY <1>4 DEF ContextEnds, StartHoldsLock, At
  <1>5. ASSUME NEW c \in Caller, NEW i \in Slot, Spawns(c, i)
        PROVE  StartHoldsLock'
    <2>1. \A d \in Caller \ {c} : ~At(d, "starting")'
        BY <1>5 DEF Spawns, StartHoldsLock, At
    <2>2. \A j \in call'[c].todo \cap Slot : j # i /\ <<c, j>> # <<c, i>> /\ <<c, j>> \in Obj
        BY <1>5, Names DEF Spawns
    <2>3. \A j \in call'[c].todo \cap Slot : inst'[<<c, j>>].phase = "new"
        BY <1>5, <2>2 DEF Spawns, StartHoldsLock
    <2>4. pg'.mu = c /\ pg'.current = c
        BY <1>5 DEF Spawns, StartHoldsLock
    <2> QED
        BY <2>1, <2>3, <2>4 DEF StartHoldsLock
  <1>6. ASSUME NEW c \in Caller, NEW i \in Slot, Attaches(c, i)
        PROVE  StartHoldsLock'
    <2>1. \A d \in Caller : At(d, "starting")' => At(d, "starting") /\ d # c
        BY <1>6 DEF Attaches, At
    <2> QED
        BY <1>6, <2>1, Names DEF Attaches, StartHoldsLock
  <1>7. CASE InstanceStep
    <2>1. \A d \in Caller : call'[d].pc = call[d].pc /\ call'[d].todo = call[d].todo
        BY <1>7, InstanceMoves
    <2>2. \A o \in Obj : inst'[o].phase = "new" <=> inst[o].phase = "new"
        BY <1>7, InstanceMoves DEF Moved
    <2>3. UNCHANGED pg
        BY <1>7, InstanceMoves
    <2> QED
        BY <2>1, <2>2, <2>3, Names DEF StartHoldsLock, At
  <1>8. CASE UNCHANGED vars
      BY <1>8 DEF vars, StartHoldsLock, At
  <1> QED
      BY <1>1, <1>2, <1>3, <1>4, <1>5, <1>6, <1>7, <1>8, NextCases

LEMMA NextWatched ==
    ASSUME GroupInv, [Next]_vars
    PROVE  Watched'
  <1> USE DEF GroupInv
  <1>1. ASSUME NEW c \in Caller, Hops(c)
        PROVE  Watched'
    <2> SUFFICES ASSUME NEW d \in Caller, pg'.current = d
                 PROVE  /\ At(d, "attach")' => call'[d].view = d
                        /\ \A i \in Slot :
                             /\ <<d, i>> \in pg'.listed /\ ~inst'[<<d, i>>].closed
                             /\ inst'[<<d, i>>].phase \in {"up", "exited", "starting"}
                             /\ IF At(d, "attach")' THEN i \notin call'[d].todo
                                ELSE ~At(d, "starting")' /\ ~At(d, "monitor")'
                             => d \in inst'[<<d, i>>].monitors
        BY DEF Watched, At
    <2>1. pg.current = d /\ pg'.listed = pg.listed /\ UNCHANGED inst
        BY <1>1 DEF Hops
    <2>2. CASE c # d
        BY <1>1, <2>1, <2>2 DEF Hops, Watched, At
    <2>3. CASE c = d
      <3>1. call[d].pc \notin {"idle", "start"}
          BY <2>1 DEF StartedOnce, HasStarted, At
      <3>2. At(d, "attach")' => call'[d].view = d /\ call'[d].todo = Slot
          BY <1>1, <2>1, <2>3 DEF Hops, At, StopSteps
      <3>3. ~At(d, "attach")' => \/ At(d, "attach") /\ call[d].todo = {}
                                 \/ ~At(d, "attach") /\ ~At(d, "starting") /\ ~At(d, "monitor")
          BY <1>1, <2>3, <3>1 DEF Hops, At, StopSteps
      <3> QED
          BY <2>1, <3>2, <3>3 DEF Watched
    <2> QED
        BY <2>2, <2>3
  <1>2. ASSUME NEW c \in Caller, StartMakesProcesses(c)
        PROVE  Watched'
      BY <1>2, StartFacts DEF Watched, At
  <1>3. ASSUME NEW c \in Caller, StartReturns(c)
        PROVE  Watched'
    <2>1. \A d \in Caller : pg'.current = d => d = c
        BY <1>3, StartFacts DEF StartHoldsLock
    <2> QED
        BY <1>3, <2>1, StartFacts DEF Watched, At
  <1>4. ASSUME NEW c \in Caller, ContextEnds(c)
        PROVE  Watched'
      BY <1>4 DEF ContextEnds, Watched, At
  <1>5. ASSUME NEW c \in Caller, NEW i \in Slot, Spawns(c, i)
        PROVE  Watched'
    <2>1. \A d \in Caller : pg'.current = d => d = c
        BY <1>5 DEF Spawns, StartHoldsLock
    <2> QED
        BY <1>5, <2>1 DEF Spawns, Watched, At
  <1>6. ASSUME NEW c \in Caller, NEW i \in Slot, Attaches(c, i)
        PROVE  Watched'
    <2>1. \A d \in Caller, j \in Slot : <<d, j>> \in Obj
        BY Names
    <2> SUFFICES ASSUME NEW d \in Caller, pg'.current = d
                 PROVE  /\ At(d, "attach")' => call'[d].view = d
                        /\ \A j \in Slot :
                             /\ <<d, j>> \in pg'.listed /\ ~inst'[<<d, j>>].closed
                             /\ inst'[<<d, j>>].phase \in {"up", "exited", "starting"}
                             /\ IF At(d, "attach")' THEN j \notin call'[d].todo
                                ELSE ~At(d, "starting")' /\ ~At(d, "monitor")'
                             => d \in inst'[<<d, j>>].monitors
        BY DEF Watched, At
    <2>2. pg.current = d /\ UNCHANGED pg
        BY <1>6 DEF Attaches
    <2>3. CASE c # d
        BY <1>6, <2>1, <2>2, <2>3 DEF Attaches, Watched, At
    <2>4. CASE c = d
      <3>1. At(d, "attach") /\ At(d, "attach")' /\ call'[d].view = d /\ call[d].view = d
          BY <1>6, <2>2, <2>4 DEF Attaches, Watched
      <3>2. ASSUME NEW j \in Slot, <<d, j>> \in pg.listed, ~inst'[<<d, j>>].closed,
                   inst'[<<d, j>>].phase \in {"up", "exited", "starting"},
                   j \notin call'[d].todo
            PROVE  d \in inst'[<<d, j>>].monitors
        <4>1. CASE j = i
            BY <1>6, <2>1, <2>4, <3>1, <3>2, <4>1 DEF Attaches
        <4>2. CASE j # i
          <5>1. j \notin call[d].todo
              BY <1>6, <2>4, <3>2, <4>2 DEF Attaches
          <5>2. d \in inst[<<d, j>>].monitors
              BY <1>6, <2>1, <2>2, <3>1, <3>2, <5>1 DEF Attaches, Watched
          <5> QED
              BY <1>6, <2>1, <5>2 DEF Attaches
        <4> QED
            BY <4>1, <4>2
      <3> QED
          BY <2>2, <3>1, <3>2
    <2> QED
        BY <2>3, <2>4
  <1>7. CASE InstanceStep
    <2>1. \A d \in Caller : /\ call'[d].pc = call[d].pc /\ call'[d].todo = call[d].todo
                            /\ call'[d].view = call[d].view
        BY <1>7, InstanceMoves
    <2>2. \A o \in Obj : /\ inst[o].closed => inst'[o].closed
                         /\ inst'[o].phase \in {"up", "exited", "starting"} =>
                              inst[o].phase \in {"up", "exited", "starting"}
                         /\ inst'[o].closed \/ inst'[o].phase = "over"
                              \/ inst'[o].monitors = inst[o].monitors
        BY <1>7, InstanceMoves DEF Moved
    <2>3. UNCHANGED pg /\ \A d \in Caller, j \in Slot : <<d, j>> \in Obj
        BY <1>7, InstanceMoves, Names
    <2> QED
        BY <2>1, <2>2, <2>3 DEF Watched, At
  <1>8. CASE UNCHANGED vars
      BY <1>8 DEF vars, Watched, At
  <1> QED
      BY <1>1, <1>2, <1>3, <1>4, <1>5, <1>6, <1>7, <1>8, NextCases

\* p.running: a step keeps what it says of each child, and no listed instance is abandoned.
LEMMA NextRunningIsUp ==
    ASSUME TypeOK, StartedOnce, StartHoldsLock, RunningIsUp, [Next]_vars
    PROVE  RunningIsUp'
  <1>1. ASSUME \A o \in Obj : Kept(inst'[o]),
               \A o \in Obj : o \in pg'.listed /\ inst'[o].running => inst'[o].lost = "no"
        PROVE  RunningIsUp'
      BY <1>1 DEF RunningIsUp, Kept, Known, Running, Up
  <1>2. /\ \A o \in Obj : Kept(inst[o])
        /\ \A o \in Obj : o \in pg.listed /\ inst[o].running => inst[o].lost = "no"
      BY DEF RunningIsUp, Kept, Known, Running, Up
  <1>3. CASE pg'.listed = pg.listed /\ UNCHANGED inst
      BY <1>1, <1>2, <1>3
  <1>4. ASSUME NEW c \in Caller, NEW i \in Slot, Spawns(c, i)
        PROVE  RunningIsUp'
    <2> DEFINE b == <<c, i>>
    <2>1. b \in Obj /\ inst[b].phase = "new" /\ b \notin pg.listed
        BY <1>4, Names DEF Spawns, StartHoldsLock, StartedOnce
    <2>2. ~inst[b].running /\ inst[b].lost = "no"
        BY <1>2, <2>1 DEF Kept
    <2>3. Kept(inst'[b]) /\ (b \in pg'.listed /\ inst'[b].running => inst'[b].lost = "no")
        BY <1>4, <2>1, <2>2 DEF Spawns, Kept
    <2>4. \A o \in Obj \ {b} : inst'[o] = inst[o] /\ (o \in pg'.listed => o \in pg.listed)
        BY <1>4 DEF Spawns
    <2> HIDE DEF b
    <2> QED
        BY <1>1, <1>2, <2>3, <2>4
  <1>5. ASSUME NEW c \in Caller, NEW i \in Slot, Attaches(c, i)
        PROVE  RunningIsUp'
      BY <1>1, <1>2, <1>5 DEF Attaches, Kept
  <1>6. CASE InstanceStep
      BY <1>1, <1>2, <1>6, InstanceMoves DEF Moved
  <1>7. (\E c \in Caller : Hops(c) \/ StartMakesProcesses(c) \/ StartReturns(c) \/ ContextEnds(c))
           => UNCHANGED inst /\ pg'.listed = pg.listed
      BY StartFacts DEF Hops, ContextEnds
  <1> QED
      BY <1>3, <1>4, <1>5, <1>6, <1>7, NextCases DEF vars

-----------------------------------------------------------------------------
(* The invariant of the quiet group.                                       *)

LEMMA NextMainIsSteady ==
    ASSUME Quiet, GroupInv, MainIsSteady, [Next]_vars
    PROVE  MainIsSteady'
  <1> USE DEF GroupInv
  <1> DEFINE Late == StopSteps \cup {"reply", "refuse", "ok", "error"}
  <1>1. Main \in ended' => call'[Main].pc \in Late
    <2>1. ASSUME NEW c \in Caller, Hops(c)
          PROVE  Main \in ended' => call'[Main].pc \in Late
      <3>1. CASE c = Main
          BY <2>1, <3>1, Names DEF Hops, MainIsSteady, At, StopSteps, Request
      <3>2. CASE c # Main
          BY <2>1, <3>2, Names DEF Hops, MainIsSteady
      <3> QED
          BY <3>1, <3>2
    <2>2. ASSUME NEW c \in Caller, StartMakesProcesses(c) \/ StartReturns(c) \/ ContextEnds(c)
          PROVE  Main \in ended' => call'[Main].pc \in Late
      <3>1. CASE ContextEnds(c)
          BY <3>1 DEF ContextEnds, MainIsSteady
      <3>2. CASE StartMakesProcesses(c) \/ StartReturns(c)
          BY <3>2, StartFacts, Names DEF MainIsSteady, At, StopSteps
      <3> QED
          BY <2>2, <3>1, <3>2
    <2>3. ASSUME NEW c \in Caller, NEW i \in Slot, Spawns(c, i) \/ Attaches(c, i)
          PROVE  Main \in ended' => call'[Main].pc \in Late
        BY <2>3, Names DEF Spawns, Attaches, MainIsSteady, At, StopSteps
    <2>4. CASE InstanceStep \/ UNCHANGED vars
        BY <2>4, InstanceMoves, Names DEF MainIsSteady, vars
    <2> QED
        BY <2>1, <2>2, <2>3, <2>4, NextCases
  <1>2. ASSUME NEW r \in Request, ~At(r, "idle")'
        PROVE  call'[Main].pc \notin MainEarlier
    <2>1. r \in Caller /\ r # Main
        BY Names DEF Caller
    <2>2. ASSUME NEW c \in Caller, Hops(c)
          PROVE  call'[Main].pc \notin MainEarlier
      <3>1. CASE c = Main
          BY <1>2, <2>1, <2>2, <3>1, Names
          DEF Hops, MainIsSteady, MainEarlier, At, StopSteps, Request
      <3>2. CASE c # Main
        <4>1. call'[Main] = call[Main]
            BY <2>2, <3>2, Names DEF Hops
        <4>2. ~At(r, "idle") \/ (c = r /\ At(c, "idle"))
            BY <1>2, <2>1, <2>2 DEF Hops, At
        <4>3. At(c, "idle") => call[Main].pc \notin MainEarlier
            BY <2>2 DEF Hops, At, StopSteps, MainEarlier
        <4> QED
            BY <4>1, <4>2, <4>3 DEF MainIsSteady
      <3> QED
          BY <3>1, <3>2
    <2>3. ASSUME NEW c \in Caller, StartMakesProcesses(c) \/ StartReturns(c) \/ ContextEnds(c)
          PROVE  call'[Main].pc \notin MainEarlier
      <3>1. CASE ContextEnds(c)
          BY <1>2, <2>1, <3>1 DEF ContextEnds, MainIsSteady, At
      <3>2. CASE StartMakesProcesses(c) \/ StartReturns(c)
        <4>1. ~At(r, "idle") /\ call[c].pc \in MainEarlier
            BY <1>2, <2>1, <3>2, StartFacts DEF At, MainEarlier
        <4>2. c # Main
            BY <4>1 DEF MainIsSteady
        <4> QED
            BY <3>2, <4>1, <4>2, StartFacts, Names DEF MainIsSteady
      <3> QED
          BY <2>3, <3>1, <3>2
    <2>4. ASSUME NEW c \in Caller, NEW i \in Slot, Spawns(c, i) \/ Attaches(c, i)
          PROVE  call'[Main].pc \notin MainEarlier
      <3>1. ~At(r, "idle") /\ call[c].pc \in MainEarlier
          BY <1>2, <2>1, <2>4 DEF Spawns, Attaches, At, MainEarlier
      <3>2. c # Main
          BY <3>1 DEF MainIsSteady
      <3> QED
          BY <2>4, <3>1, <3>2, Names DEF Spawns, Attaches, MainIsSteady
    <2>5. CASE InstanceStep \/ UNCHANGED vars
        BY <1>2, <2>1, <2>5, InstanceMoves, Names DEF MainIsSteady, At, vars
    <2> QED
        BY <2>2, <2>3, <2>4, <2>5, NextCases
  <1>3. ASSUME NEW i \in Slot
        PROVE  /\ inst'[<<Main, i>>].phase # "starting" /\ ~inst'[<<Main, i>>].own
               /\ inst'[<<Main, i>>].phase = "exited" => inst'[<<Main, i>>].state # "Running"
    <2> DEFINE o == <<Main, i>>
    <2>1. /\ inst[o].phase # "starting" /\ ~inst[o].own
          /\ inst[o].phase = "exited" => inst[o].state # "Running"
          /\ o \in Obj
        BY Names DEF MainIsSteady
    <2> HIDE DEF o
    <2>2. CASE UNCHANGED inst
        BY <2>1, <2>2 DEF o
    <2>3. ASSUME NEW c \in Caller, NEW j \in Slot, Spawns(c, j)
          PROVE  /\ inst'[o].phase # "starting" /\ ~inst'[o].own
                 /\ inst'[o].phase = "exited" => inst'[o].state # "Running"
      <3>1. CASE o = <<c, j>>
        <4>1. c = Main
            BY <3>1 DEF o
        <4> QED
            BY <2>1, <2>3, <3>1, <4>1 DEF Spawns
      <3>2. CASE o # <<c, j>>
          BY <2>1, <2>3, <3>2 DEF Spawns
      <3> QED
          BY <3>1, <3>2
    <2>4. ASSUME NEW c \in Caller, NEW j \in Slot, Attaches(c, j)
          PROVE  /\ inst'[o].phase # "starting" /\ ~inst'[o].own
                 /\ inst'[o].phase = "exited" => inst'[o].state # "Running"
        BY <2>1, <2>4 DEF Attaches
    <2>5. CASE InstanceStep
      <3>1. Moved(o)
          BY <2>1, <2>5, InstanceMoves
      <3>2. "exit" \notin Events /\ ~Doomed(o)
          BY <2>1 DEF Quiet, Doomed
      <3>3. inst'[o].own = inst[o].own
          BY <2>1, <3>1 DEF Moved
      <3>4. ~inst'[o].own
          BY <2>1, <3>3
      <3>5. inst'[o].phase # "starting"
          BY <2>1, <3>1 DEF Moved
      <3>6. inst'[o].phase = "exited" => inst'[o].state # "Running"
          BY <2>1, <3>1, <3>2 DEF Moved
      <3> QED
          BY <3>4, <3>5, <3>6 DEF o
    <2>6. (\E c \in Caller : Hops(c) \/ StartMakesProcesses(c) \/ StartReturns(c) \/ ContextEnds(c))
             => UNCHANGED inst
        BY StartFacts DEF Hops, ContextEnds
    <2> QED
        BY <2>2, <2>3, <2>4, <2>5, <2>6, NextCases DEF vars, o
  <1> QED
      BY <1>1, <1>2, <1>3 DEF MainIsSteady, At

\* Who is done stays done, so what is doomed stays doomed.
LEMMA EndedStaysEnded ==
    ASSUME TypeOK, [Next]_vars
    PROVE  ended \subseteq ended'
  BY NextCases, InstanceMoves, StartFacts DEF Hops, ContextEnds, Spawns, Attaches, vars

LEMMA NextUnlisted ==
    ASSUME GroupInv, MainIsSteady, Unlisted, [Next]_vars
    PROVE  Unlisted'
  <1> USE DEF GroupInv
  <1>1. CASE UNCHANGED inst /\ pg'.listed = pg.listed
      BY <1>1, EndedStaysEnded DEF Unlisted, Known, Doomed, Up
  <1>2. ASSUME NEW c \in Caller, NEW i \in Slot, Spawns(c, i)
        PROVE  Unlisted'
    <2> SUFFICES ASSUME NEW o \in Obj, o \notin pg'.listed
                 PROVE  /\ inst'[o].monitors = {} /\ inst'[o].phase # "starting"
                        /\ inst'[o].phase = "up" /\ inst'[o].lost = "no" => inst'[o].own /\ o[1] \in ended'
        BY DEF Unlisted, Known, Up, Doomed
    <2>1. o \notin pg.listed
        BY <1>2 DEF Spawns
    <2>2. CASE o = <<c, i>>
      <3>1. o[1] = c
          BY <2>2
      <3>2. c \in ended => c # Main
          BY <1>2 DEF Spawns, MainIsSteady, At, StopSteps
      <3> QED
          BY <1>2, <2>1, <2>2, <3>1, <3>2 DEF Spawns, Unlisted
    <2>3. CASE o # <<c, i>>
        BY <1>2, <2>1, <2>3 DEF Spawns, Unlisted, Known, Up, Doomed
    <2> QED
        BY <2>2, <2>3
  <1>3. ASSUME NEW c \in Caller, NEW i \in Slot, Attaches(c, i)
        PROVE  Unlisted'
      BY <1>3 DEF Attaches, Unlisted, Known, Up, Doomed
  <1>4. CASE InstanceStep
    <2> SUFFICES ASSUME NEW o \in Obj, o \notin pg.listed
                 PROVE  /\ inst'[o].monitors = {} /\ inst'[o].phase # "starting"
                        /\ inst'[o].phase = "up" /\ inst'[o].lost = "no" => inst'[o].own /\ o[1] \in ended
        BY <1>4, InstanceMoves DEF Unlisted, Known, Up, Doomed
    <2>1. Moved(o)
        BY <1>4, InstanceMoves
    <2>2. /\ inst[o].monitors = {} /\ inst[o].phase # "starting"
          /\ inst[o].phase = "up" /\ inst[o].lost = "no" => inst[o].own /\ o[1] \in ended
        BY DEF Unlisted, Known, Up, Doomed
    <2> QED
        BY <2>1, <2>2 DEF Moved
  <1>5. (\E c \in Caller : Hops(c) \/ StartMakesProcesses(c) \/ StartReturns(c) \/ ContextEnds(c))
           => UNCHANGED inst /\ pg'.listed = pg.listed
      BY StartFacts DEF Hops, ContextEnds
  <1> QED
      BY <1>1, <1>2, <1>3, <1>4, <1>5, NextCases DEF vars

LEMMA NextReplaced ==
    ASSUME Quiet, GroupInv, QuietInv, [Next]_vars
    PROVE  Replaced'
  <1> USE DEF GroupInv, QuietInv
  <1> DEFINE Early == {"start", "starting", "monitor", "attach"}
             Clear(d) == \/ At(d, "close") /\ ~call[d].failed
                         \/ At(d, "reply") \/ At(d, "ok")
                         \/ d # Main /\ call[d].pc \in Early
             ClearAfter(d) == \/ At(d, "close")' /\ ~call'[d].failed
                              \/ At(d, "reply")' \/ At(d, "ok")'
                              \/ d # Main /\ call'[d].pc \in Early
  <1>1. \A d \in Caller : Clear(d) => \A i \in Slot : ~Known(<<Main, i>>)
      BY DEF Replaced
  <1>2. \A o \in Obj : o \in Processes <=> o \in pg.listed /\ o[1] = pg.current
      BY DEF Processes
  <1>3. \A o \in Obj : (o \in Processes)' <=> o \in pg'.listed /\ o[1] = pg'.current
      BY DEF Processes
  <1>4. ASSUME \A o \in Obj : o[1] = Main /\ Known(o)' => o \in pg'.listed /\ o[1] = pg'.current,
               \A o \in Obj : o[1] # Main /\ inst'[o].phase # "new" => pg'.current = o[1],
               \A d \in Caller : ClearAfter(d) => \A i \in Slot : ~Known(<<Main, i>>)'
        PROVE  Replaced'
      BY <1>3, <1>4 DEF Replaced, At, Known, Up
  <1> HIDE DEF Clear, ClearAfter
  <1>5. ASSUME NEW c \in Caller, Hops(c)
        PROVE  Replaced'
    <2>1. UNCHANGED inst /\ pg'.current = pg.current /\ pg'.listed = pg.listed
        BY <1>5 DEF Hops
    <2>2. ClearAfter(c) => Clear(c) \/ \A o \in Processes : ~Running(o)
      <3>1. c \notin Starts
          BY DEF Quiet
      <3> QED
          BY <1>5, <3>1, Names DEF Hops, Clear, ClearAfter, At, StopSteps
    <2>3. (\A o \in Processes : ~Running(o)) => \A i \in Slot : ~Known(<<Main, i>>)
        BY Names DEF Replaced, RunningIsUp
    <2>4. \A d \in Caller : ClearAfter(d) => \A i \in Slot : ~Known(<<Main, i>>)
        BY <1>1, <1>5, <2>2, <2>3 DEF Hops, Clear, ClearAfter, At
    <2> QED
        BY <1>4, <2>1, <2>4, <1>2 DEF Replaced, Known, Up
  <1>6. ASSUME NEW c \in Caller, StartMakesProcesses(c)
        PROVE  Replaced'
    <2>1. /\ At(c, "start") /\ ~HasStarted(c) /\ pg'.current = c /\ pg'.listed = pg.listed
          /\ UNCHANGED inst
        BY <1>6, StartFacts DEF HasStarted
    <2>2. \A o \in Obj : inst[o].phase # "new" => o[1] \in Caller /\ HasStarted(o[1])
        BY Names DEF StartedOnce
    <2>3. \A o \in Obj : o[1] = Main => ~Known(o)
      <3>1. CASE c = Main
          BY <2>1, <2>2, <3>1 DEF Known, Up
      <3>2. CASE c # Main
        <4>1. Clear(c)
            BY <2>1, <3>2 DEF Clear, At
        <4> QED
            BY <1>1, <4>1, Names
      <3> QED
          BY <3>1, <3>2
    <2>4. ASSUME NEW o \in Obj, o[1] # Main, inst[o].phase # "new"
          PROVE  o[1] = c
      <3>1. HasStarted(o[1]) /\ o[1] \in Caller /\ pg.current = o[1]
          BY <2>2, <2>4 DEF Replaced
      <3>2. o[1] \in Restarts
          BY <2>4, <3>1, Names DEF StartedOnce, Quiet
      <3>3. c # Main
          BY <2>1, <3>1, <3>2 DEF HasStarted, MainIsSteady, MainEarlier, At, Request
      <3>4. c \in Restarts
          BY <2>1, <3>3, Names DEF StartedOnce, Quiet
      <3> QED
          BY <3>2, <3>4 DEF Quiet
    <2>5. \A d \in Caller : ClearAfter(d) => \A i \in Slot : ~Known(<<Main, i>>)
        BY <2>3, Names
    <2> QED
        BY <1>4, <2>1, <2>3, <2>4, <2>5 DEF Known, Up
  <1>7. ASSUME NEW c \in Caller, StartReturns(c)
        PROVE  Replaced'
    <2>1. UNCHANGED inst /\ pg'.current = pg.current /\ pg'.listed = pg.listed
        BY <1>7, StartFacts
    <2>2. \A d \in Caller : ClearAfter(d) => Clear(d)
        BY <1>7, StartFacts DEF Clear, ClearAfter, At
    <2> QED
        BY <1>1, <1>2, <1>4, <2>1, <2>2 DEF Replaced, Known, Up
  <1>8. ASSUME NEW c \in Caller, ContextEnds(c)
        PROVE  Replaced'
      BY <1>8 DEF ContextEnds, Replaced, Processes, Known, Up, At
  <1>9. ASSUME NEW c \in Caller, NEW i \in Slot, Spawns(c, i)
        PROVE  Replaced'
    <2> DEFINE b == <<c, i>>
    <2>1. b \in Obj /\ b[1] = c /\ pg'.current = c /\ pg.current = c
        BY <1>9, Names DEF Spawns, StartHoldsLock
    <2>2. \A o \in Obj : o # b => inst'[o] = inst[o]
        BY <1>9 DEF Spawns
    <2>3. \A o \in Obj : o[1] # c => o # b
        BY <2>1
    <2>4. pg.listed \subseteq pg'.listed
        BY <1>9 DEF Spawns
    <2>5. c = Main => b \in pg'.listed \/ inst'[b].phase = "over" \/ inst'[b].lost # "no"
      <3>1. Main \in ended => ~At(Main, "starting")
          BY DEF MainIsSteady, At, StopSteps
      <3> QED
          BY <1>9, <3>1 DEF Spawns
    <2> HIDE DEF b
    <2>6. \A o \in Obj : o[1] = Main /\ Known(o)' => o \in pg'.listed /\ o[1] = pg'.current
      <3> SUFFICES ASSUME NEW o \in Obj, o[1] = Main, inst'[o].phase = "up", inst'[o].lost = "no"
                   PROVE  o \in pg'.listed /\ o[1] = pg'.current
          BY DEF Known, Up
      <3>1. CASE o = b
          BY <2>1, <2>5, <3>1
      <3>2. CASE o # b
          BY <1>2, <2>1, <2>2, <2>4, <3>2 DEF Replaced, Known, Up
      <3> QED
          BY <3>1, <3>2
    <2>7. \A o \in Obj : o[1] # Main /\ inst'[o].phase # "new" => pg'.current = o[1]
        BY <2>1, <2>2 DEF Replaced
    <2>8. \A d \in Caller : ClearAfter(d) => Clear(d)
        BY <1>9 DEF Spawns, Clear, ClearAfter, At
    <2>9. ASSUME NEW d \in Caller, ClearAfter(d), NEW j \in Slot
          PROVE  ~Known(<<Main, j>>)'
      <3>1. c # Main
        <4>1. d = Main => ~ClearAfter(d) \/ c # Main
            BY <1>9 DEF Spawns, ClearAfter, At
        <4>2. ASSUME d # Main, c = Main
              PROVE  FALSE
          <5>1. ~At(d, "idle") /\ d \in Request /\ call[Main].pc \in MainEarlier
              BY <1>9, <2>8, <2>9, <4>2, Names DEF Spawns, Clear, At, MainEarlier, Caller
          <5> QED
              BY <5>1 DEF MainIsSteady
        <4> QED
            BY <2>9, <4>1, <4>2
      <3>2. <<Main, j>> # b /\ <<Main, j>> \in Obj
          BY <2>1, <3>1, Names
      <3> QED
          BY <1>1, <2>2, <2>8, <2>9, <3>2 DEF Known, Up
    <2> QED
        BY <1>4, <2>6, <2>7, <2>9
  <1>10. ASSUME NEW c \in Caller, NEW i \in Slot, Attaches(c, i)
         PROVE  Replaced'
    <2>1. \A d \in Caller : ClearAfter(d) => Clear(d)
        BY <1>10 DEF Attaches, Clear, ClearAfter, At
    <2>2. UNCHANGED pg /\ \A o \in Obj : inst'[o].phase = inst[o].phase /\ inst'[o].lost = inst[o].lost
        BY <1>10 DEF Attaches
    <2> QED
        BY <1>1, <1>2, <1>4, <2>1, <2>2, Names DEF Replaced, Known, Up
  <1>11. CASE InstanceStep
    <2>1. \A d \in Caller : ClearAfter(d) => Clear(d)
        BY <1>11, InstanceMoves DEF Clear, ClearAfter, At
    <2>2. UNCHANGED pg /\ \A o \in Obj : Moved(o)
        BY <1>11, InstanceMoves
    <2>3. \A o \in Obj : inst'[o].phase = "new" <=> inst[o].phase = "new"
        BY <2>2 DEF Moved
    <2>4. \A o \in Obj : o[1] = Main => inst[o].phase # "starting"
        BY Names DEF MainIsSteady
    <2>5. \A o \in Obj : o[1] = Main /\ inst'[o].phase = "up" /\ inst'[o].lost = "no"
                          => inst[o].phase = "up" /\ inst[o].lost = "no"
        BY <2>2, <2>4 DEF Moved
    <2> QED
        BY <1>1, <1>2, <1>4, <2>1, <2>2, <2>3, <2>5, Names DEF Replaced, Known, Up
  <1>12. CASE UNCHANGED vars
      BY <1>12 DEF vars, Replaced, Processes, Known, Up, At
  <1> QED
      BY <1>5, <1>6, <1>7, <1>8, <1>9, <1>10, <1>11, <1>12, NextCases

LEMMA NextTargets ==
    ASSUME Quiet, Restarts = {}, GroupInv, QuietInv, TargetsOfMain, [Next]_vars
    PROVE  TargetsOfMain'
  <1> USE DEF GroupInv
  <1>1. \A o \in Processes : o[1] = Main
    <2> SUFFICES ASSUME NEW o \in pg.listed, o[1] = pg.current
                 PROVE  o[1] = Main
        BY DEF Processes
    <2>1. o \in Obj
        BY DEF TypeOK, PgStates
    <2> QED
        BY <2>1, Names DEF Quiet, StartedOnce
  <1>2. \A c \in Caller : call'[c].targets = call[c].targets \/ call'[c].targets = Processes
    <2>1. ASSUME NEW c \in Caller, Hops(c)
          PROVE  \A d \in Caller : call'[d].targets = call[d].targets \/ call'[d].targets = Processes
        BY <2>1 DEF Hops
    <2>2. ASSUME NEW c \in Caller, StartMakesProcesses(c) \/ StartReturns(c) \/ ContextEnds(c)
          PROVE  \A d \in Caller : call'[d].targets = call[d].targets
        BY <2>2, StartFacts DEF ContextEnds
    <2>3. ASSUME NEW c \in Caller, NEW i \in Slot, Spawns(c, i) \/ Attaches(c, i)
          PROVE  \A d \in Caller : call'[d].targets = call[d].targets
        BY <2>3 DEF Spawns, Attaches
    <2>4. CASE InstanceStep \/ UNCHANGED vars
        BY <2>4, InstanceMoves DEF vars
    <2> QED
        BY <2>1, <2>2, <2>3, <2>4, NextCases
  <1> QED
      BY <1>1, <1>2 DEF TargetsOfMain

-----------------------------------------------------------------------------
(* The theorems.                                                           *)

LEMMA InitGroup ==
    ASSUME Init
    PROVE  GroupInv /\ QuietInv /\ TargetsOfMain
  <1>1. pg = [current |-> Nobody, listed |-> {}, mu |-> Nobody, done |-> FALSE]
      BY DEF Init
  <1>2. \A c \in Caller :
          call[c] = [pc |-> IF c = Main THEN "start" ELSE "idle", todo |-> {},
                     view |-> Nobody, targets |-> {}, failed |-> FALSE]
      BY DEF Init
  <1>3. \A o \in Obj :
          inst[o] = [phase |-> "new", running |-> FALSE, lost |-> "no", state |-> "Running",
                     closed |-> FALSE, own |-> FALSE, monitors |-> {}]
      BY DEF Init
  <1>4. TypeOK
    <2>1. pg \in PgStates
        BY <1>1 DEF PgStates
    <2>2. ASSUME NEW c \in Caller
          PROVE  call[c] \in CallStates
      <3>1. PICK step \in {"start", "idle"} :
              call[c] = [pc |-> step, todo |-> {}, view |-> Nobody, targets |-> {},
                         failed |-> FALSE]
          BY <1>2
      <3> QED
          BY <3>1 DEF CallStates, CallSteps
    <2>3. ASSUME NEW o \in Obj
          PROVE  inst[o] \in InstStates
      <3>1. [phase |-> "new", running |-> FALSE, lost |-> "no", state |-> "Running",
             closed |-> FALSE, own |-> FALSE, monitors |-> {}] \in InstStates
          BY DEF InstStates
      <3> QED
          BY <1>3, <3>1
    <2>4. call \in [Caller -> CallStates] /\ inst \in [Obj -> InstStates]
        BY <2>2, <2>3 DEF Init
    <2> QED
        BY <2>1, <2>4 DEF Init, TypeOK
  <1>5. /\ \A c \in Caller : call[c].pc \in {"start", "idle"} /\ call[c].targets = {}
        /\ \A c \in Stops : At(c, "idle")
    <2>1. ASSUME NEW c \in Caller
          PROVE  call[c].pc = (IF c = Main THEN "start" ELSE "idle") /\ call[c].targets = {}
      <3> DEFINE step == IF c = Main THEN "start" ELSE "idle"
      <3>1. call[c] = [pc |-> step, todo |-> {}, view |-> Nobody, targets |-> {},
                       failed |-> FALSE]
          BY <1>2
      <3> HIDE DEF step
      <3>2. call[c].pc = step /\ call[c].targets = {}
          BY <3>1
      <3> QED
          BY <3>2 DEF step
    <2> QED
        BY <2>1, Names DEF At, Caller, Request
  <1>9. StartedOnce /\ StartHoldsLock /\ Watched /\ RunningIsUp
    <2>1. StartedOnce /\ StartHoldsLock /\ Watched
        BY <1>1, <1>3, <1>5, Names DEF StartedOnce, StartHoldsLock, Watched, At
    <2>2. RunningIsUp
        BY <1>1, <1>3 DEF RunningIsUp, Known, Running, Up
    <2> QED
        BY <2>1, <2>2
  <1>6. MainIsSteady
      BY <1>2, <1>3, Names DEF Init, MainIsSteady, At, Caller
  <1>7. Unlisted /\ Replaced
      BY <1>2, <1>3, Names DEF Unlisted, Replaced, At, Known, Up
  <1>8. TargetsOfMain
      BY <1>5 DEF TargetsOfMain
  <1> QED
      BY <1>4, <1>9, <1>6, <1>7, <1>8 DEF GroupInv, QuietInv

\* GroupInv: pg.mu is the starter's, each caller makes pg.processes at most once, and those
\* it holds are watched by the call that made them, whatever the other requests do.
THEOREM GroupInvariant == Spec => []GroupInv
  <1>1. GroupInv /\ [Next]_vars => GroupInv'
      BY NextCases, NextStartedOnce, NextStartHoldsLock, NextWatched, NextRunningIsUp DEF GroupInv
  <1> QED
      BY InitGroup, <1>1, PTL DEF Spec

\* Every variable keeps its type.
THEOREM TypeCorrect == Spec => []TypeOK
  <1>1. GroupInv => TypeOK
      BY DEF GroupInv
  <1> QED
      BY GroupInvariant, <1>1, PTL

\* No instance that pg.processes holds runs without a Monitor, although Monitor reads the
\* slice without the mutex and other calls of Start replace it: for any number of requests.
THEOREM InstancesAreSupervised == Spec => []Supervised
  <1>1. GroupInv => Supervised
    <2> SUFFICES ASSUME GroupInv, NEW o \in Processes,
                        ~inst[o].closed, inst[o].phase \in {"up", "exited"},
                        call[pg.current].pc \notin {"starting", "monitor", "attach"}
                 PROVE  inst[o].monitors # {}
        BY DEF Supervised
    <2>1. o \in Obj /\ o \in pg.listed /\ o[1] = pg.current
        BY DEF Processes, GroupInv, TypeOK, PgStates
    <2>2. pg.current \in Caller /\ o[2] \in Slot /\ o = <<pg.current, o[2]>>
        BY <2>1, Names
    <2> QED
        BY <2>1, <2>2 DEF GroupInv, Watched, At
  <1> QED
      BY GroupInvariant, <1>1, PTL

\* QuietInv, which needs that no child exits by itself, that there is one restart at most and
\* that nobody sends a start.
LEMMA QuietInvariant == ASSUME Quiet PROVE Spec => [](GroupInv /\ QuietInv)
  <1>1. GroupInv /\ QuietInv /\ [Next]_vars => (GroupInv /\ QuietInv)'
      BY NextCases, NextStartedOnce, NextStartHoldsLock, NextWatched, NextRunningIsUp,
         NextMainIsSteady, NextUnlisted, NextReplaced DEF GroupInv, QuietInv
  <1> QED
      BY InitGroup, <1>1, PTL DEF Spec

\* With a restart among any number of stops every live child can be found by a Stop, or is
\* being killed with its context, or was lost in one of three ways (start_timeout, given up
\* on after SIGKILL, a refused signal taken for its exit), in whatever order their steps come
\* and whatever times out.
THEOREM NoChildIsOrphaned == ASSUME Quiet PROVE Spec => []NoOrphans
  <1>1. GroupInv /\ QuietInv => NoOrphans
    <2> SUFFICES ASSUME GroupInv, QuietInv, NEW o \in Obj, Known(o)
                 PROVE  (o \in Processes /\ Running(o)) \/ Doomed(o)
        BY DEF NoOrphans
    <2>1. Running(o)
        BY DEF GroupInv, RunningIsUp
    <2>2. CASE o[1] = Main
        BY <2>1, <2>2 DEF QuietInv, Replaced
    <2>3. CASE o[1] # Main /\ o \in pg.listed
        BY <2>1, <2>3 DEF QuietInv, Replaced, Processes, Known, Up
    <2>4. CASE o \notin pg.listed
        BY <2>4 DEF QuietInv, Unlisted
    <2> QED
        BY <2>2, <2>3, <2>4
  <1> QED
      BY QuietInvariant, <1>1, PTL

\* Any number of concurrent stops are told the truth, and so is main at shutdown: who gets no
\* error leaves no child of those it set out to stop but one that a Stop, perhaps another,
\* gave up on after SIGKILL or took for exited because it was refused a signal.
THEOREM StopTellsTheTruth == ASSUME Quiet, Restarts = {} PROVE Spec => []StopIsTruthful
  <1> DEFINE Inv == GroupInv /\ QuietInv /\ TargetsOfMain
  <1>1. Inv /\ [Next]_vars => Inv'
      BY NextCases, NextStartedOnce, NextStartHoldsLock, NextWatched, NextRunningIsUp,
         NextMainIsSteady, NextUnlisted, NextReplaced, NextTargets DEF GroupInv, QuietInv
  <1>2. Inv => StopIsTruthful
    <2> SUFFICES ASSUME Inv, NEW c \in Caller, At(c, "ok"), NEW o \in call[c].targets
                 PROVE  ~Known(o)
        BY DEF StopIsTruthful
    <2>1. o \in Obj /\ o[1] = Main
        BY DEF GroupInv, TypeOK, CallStates, TargetsOfMain
    <2>2. \A i \in Slot : ~Known(<<Main, i>>)
        BY DEF QuietInv, Replaced
    <2> QED
        BY <2>1, <2>2, Names
  <1>3. Init => Inv
      BY InitGroup
  <1> QED
      BY <1>1, <1>2, <1>3, PTL DEF Spec

\* Every step that moves an instance is one of Lifecycle's: nobody revives an instance that was
\* given up, or starts a second child, however the calls interleave.
THEOREM InstancesFollowLifecycle == Spec => InstancesImplementLifecycle
  <1>1. Init => \A o \in Obj : Instance(o)!Init
      BY DEF Init, Instance!Init
  <1>2. ASSUME GroupInv, [Next]_vars
        PROVE  [\A o \in Obj : inst'[o].phase # inst[o].phase => Instance(o)!Next]_inst
    <2> SUFFICES ASSUME NEW o \in Obj, inst'[o].phase # inst[o].phase
                 PROVE  Instance(o)!Next
        OBVIOUS
    <2>1. CASE InstanceStep
      <3>1. Moved(o)
          BY <1>2, <2>1, InstanceMoves DEF GroupInv
      <3> QED
          BY <3>1 DEF Moved, Instance!Next, Instance!Spawn, Instance!Exit, Instance!Restart,
                      Instance!GiveUp
    <2>2. ASSUME NEW c \in Caller, NEW i \in Slot, Spawns(c, i)
          PROVE  Instance(o)!Next
      <3>1. inst[<<c, i>>].phase = "new"
          BY <1>2, <2>2 DEF Spawns, GroupInv, StartHoldsLock
      <3>2. o = <<c, i>> /\ inst'[o].phase \in {"up", "over"}
          BY <2>2 DEF Spawns
      <3> QED
          BY <3>1, <3>2 DEF Instance!Next, Instance!Spawn, Instance!Exit, Instance!Restart,
                            Instance!GiveUp
    <2>3. ASSUME NEW c \in Caller, NEW i \in Slot, Attaches(c, i)
          PROVE  FALSE
        BY <2>3 DEF Attaches
    <2>4. CASE UNCHANGED inst
        BY <2>4
    <2>5. (\E c \in Caller : Hops(c) \/ StartMakesProcesses(c) \/ StartReturns(c) \/ ContextEnds(c))
             => UNCHANGED inst
        BY <1>2, StartFacts DEF Hops, ContextEnds, GroupInv
    <2> QED
        BY <1>2, <2>1, <2>2, <2>3, <2>4, <2>5, NextCases DEF vars, GroupInv
  <1> QED
      BY GroupInvariant, <1>1, <1>2, PTL DEF Spec, InstancesImplementLifecycle
=============================================================================
