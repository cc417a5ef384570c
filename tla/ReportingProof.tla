--------------------------- MODULE ReportingProof ---------------------------
(***************************************************************************)
(* Theorems about what others are told of a process instance, for any      *)
(* max_restarts, any bound on the starts and on the reporters at work, and *)
(* any environment events.  The inductive invariant is ReportingInv of     *)
(* module Reporting.                                                       *)
(***************************************************************************)
EXTENDS Reporting, TLAPS

-----------------------------------------------------------------------------
(* Type correctness.                                                       *)

\* Who reports, and that they are different.
LEMMA Reporters ==
    /\ {Waiter, Stopper, Monitor, Periodic} \subseteq Reporter
    /\ \A a \in Attempt : <<"notify", a>> \in Reporter \ {Waiter, Stopper, Monitor, Periodic}
    /\ Monitor # Periodic /\ Monitor # Waiter /\ Monitor # Stopper
    /\ Periodic # Waiter /\ Periodic # Stopper
  BY DEF Waiter, Stopper, Monitor, Periodic, Reporter, Notifier

\* What Change does to a report, and that it keeps the types.
LEMMA ChangeTypes ==
    ASSUME TypeOK, NEW q \in ProcStates, NEW reported \in [Reporter -> ReportStates],
           Change(q, reported)
    PROVE  /\ p' = q /\ report' \in [Reporter -> ReportStates] /\ dashboard' \in BOOLEAN
  <1>1. \A r \in Reporter : [reported[r] EXCEPT !.old = TRUE] \in ReportStates
      BY DEF ReportStates
  <1>2. report' \in [Reporter -> ReportStates]
      BY <1>1, Zenon DEF Change
  <1>3. dashboard' \in BOOLEAN
      BY Zenon DEF Change
  <1> QED
      BY <1>2, <1>3, Zenon DEF Change

\* A reporter that is about to write what it knows, or to call StateChanged.
LEMMA ReportTypes ==
    ASSUME TypeOK
    PROVE  /\ Idle \in ReportStates /\ Callback \in ReportStates
           /\ \A v \in 0..2 : Known(v) \in ReportStates
           /\ \A r \in Reporter, k \in ReportStates : With(r, k) \in [Reporter -> ReportStates]
           /\ Same \in [Reporter -> ReportStates]
  <1>1. Idle \in ReportStates
      BY DEF Idle, ReportStates
  <1>2. \A v \in 0..2 : Known(v) \in ReportStates
      BY <1>1 DEF Known, ReportStates
  <1>3. Callback \in ReportStates
    <2>1. p.wrapped \in BOOLEAN
        BY DEF TypeOK, ProcStates
    <2> QED
        BY <1>1, <2>1 DEF Callback, ReportStates
  <1>4. report \in [Reporter -> ReportStates]
      BY DEF TypeOK
  <1>5. \A r \in Reporter, k \in ReportStates : With(r, k) \in [Reporter -> ReportStates]
      BY <1>4, Zenon DEF With
  <1> QED
      BY <1>1, <1>2, <1>3, <1>4, <1>5 DEF Same

\* The reports of the web server's events.
LEMMA EventTypes ==
    \A c \in {"show", "send"} : [Idle EXCEPT !.pc = c] \in ReportStates
  <1>1. Idle \in ReportStates
      BY DEF Idle, ReportStates
  <1> QED
      BY <1>1 DEF ReportStates

LEMMA StartKeepsTypes ==
    ASSUME TypeOK, OneChild, CountedOnce, StartStep
    PROVE  TypeOK'
  <1>1. p \in ProcStates /\ MaxStarts \in Nat \ {0}
      BY ReportingAssumption DEF TypeOK
  <1>2. p.started \in 0..MaxStarts /\ p.failures \in 0..MaxStarts /\ p.cmd \in 0..MaxStarts
      BY <1>1 DEF ProcStates
  <1>3. CASE StartBegins
    <2> DEFINE q == [p EXCEPT !.state = "Running", !.started = @ + 1]
    <2>1. p.started + 1 \in 0..MaxStarts
        BY <1>1, <1>2, <1>3 DEF StartBegins
    <2>2. q \in ProcStates
        BY <1>1, <2>1 DEF ProcStates
    <2>3. With(Monitor, Known(0)) \in [Reporter -> ReportStates]
        BY ReportTypes, Reporters
    <2>4. Change(q, With(Monitor, Known(0)))
        BY <1>3 DEF StartBegins
    <2> HIDE DEF q
    <2>5. p' = q /\ report' \in [Reporter -> ReportStates] /\ dashboard' \in BOOLEAN
        BY <2>2, <2>3, <2>4, ChangeTypes
    <2> QED
        BY <1>3, <2>2, <2>5 DEF StartBegins, reports, TypeOK
  <1>4. CASE StartSpawns
    <2> DEFINE q == [p EXCEPT !.running = TRUE, !.cmd = p.started, !.locked = TRUE]
    <2>1. p.started \in Attempt
        BY <1>4 DEF StartSpawns, OneChild
    <2>2. q \in ProcStates
        BY <1>1, <1>2 DEF ProcStates
    <2>3. With(<<"notify", p.started>>, Callback) \in [Reporter -> ReportStates]
        BY <2>1, ReportTypes, Reporters
    <2>4. Change(q, With(<<"notify", p.started>>, Callback))
        BY <1>4 DEF StartSpawns
    <2> HIDE DEF q
    <2>5. p' = q /\ report' \in [Reporter -> ReportStates] /\ dashboard' \in BOOLEAN
        BY <2>2, <2>3, <2>4, ChangeTypes
    <2>6. waiter' \in WaiterStates
        BY <1>1, <1>2, <1>4 DEF StartSpawns, WaiterStates
    <2>7. child' \in [Attempt -> {"none", "up", "clean", "failure"}]
        BY <1>4 DEF StartSpawns, TypeOK
    <2> QED
        BY <1>4, <2>2, <2>5, <2>6, <2>7 DEF StartSpawns, reports, TypeOK
  <1>5. CASE StartFails
    <2>1. p.failures + 1 \in 0..MaxStarts
        BY <1>2, <1>5, ReportingAssumption DEF StartFails, CountedOnce
    <2>2. [p EXCEPT !.failures = @ + 1] \in ProcStates
        BY <1>1, <2>1 DEF ProcStates
    <2> QED
        BY <1>5, <2>2 DEF StartFails, reports, TypeOK
  <1>6. CASE StartReturns
    <2>1. [p EXCEPT !.locked = FALSE] \in ProcStates
        BY <1>1 DEF ProcStates
    <2> QED
        BY <1>6, <2>1 DEF StartReturns, reports, TypeOK
  <1> QED
      BY <1>3, <1>4, <1>5, <1>6 DEF StartStep

LEMMA WaiterKeepsTypes ==
    ASSUME TypeOK, OneChild, RuntimeIsRecordedOnce, WaiterStep
    PROVE  TypeOK'
  <1>1. p \in ProcStates /\ waiter \in WaiterStates /\ MaxStarts \in Nat \ {0}
      BY ReportingAssumption DEF TypeOK
  <1>2. p.started \in 0..MaxStarts /\ p.running \in BOOLEAN
      BY <1>1 DEF ProcStates
  <1>3. CASE WaiterLocks
    <2> DEFINE q == [p EXCEPT !.running = FALSE]
    <2>1. q \in ProcStates
        BY <1>1 DEF ProcStates
    <2>2. Change(q, Same)
        BY <1>3 DEF WaiterLocks
    <2> HIDE DEF q
    <2>3. p' = q /\ report' \in [Reporter -> ReportStates] /\ dashboard' \in BOOLEAN
        BY <2>1, <2>2, ChangeTypes, ReportTypes
    <2>4. waiter' \in WaiterStates
        BY <1>1, <1>2, <1>3, Zenon DEF WaiterLocks, WaiterStates
    <2> QED
        BY <1>3, <2>1, <2>3, <2>4 DEF WaiterLocks, reports, TypeOK
  <1>4. CASE WaiterRecords
    <2>1. waiter.began \in Attempt /\ runtimes[waiter.began] = 0
        BY <1>4 DEF WaiterRecords, OneChild, RuntimeIsRecordedOnce
    <2>2. runtimes' \in [Attempt -> 0..1]
        BY <1>4, <2>1 DEF WaiterRecords, TypeOK
    <2>3. [waiter EXCEPT !.pc = "notify"] \in WaiterStates
        BY <1>1 DEF WaiterStates
    <2>4. report' \in [Reporter -> ReportStates]
        BY <1>4, ReportTypes, Reporters DEF WaiterRecords
    <2> QED
        BY <1>4, <2>2, <2>3, <2>4 DEF WaiterRecords, reports, TypeOK
  <1>5. CASE WaiterSends
    <2>1. child[waiter.of] \in {"clean", "failure"}
        BY <1>5 DEF WaiterSends, OneChild, Dead
    <2>2. [p EXCEPT !.exit = child[waiter.of]] \in ProcStates
        BY <1>1, <2>1 DEF ProcStates
    <2>3. waiter' \in WaiterStates
        BY <1>1, <1>5 DEF WaiterSends, WaiterStates
    <2> QED
        BY <1>5, <2>2, <2>3 DEF WaiterSends, reports, TypeOK
  <1> QED
      BY <1>3, <1>4, <1>5 DEF WaiterStep

LEMMA MonitorKeepsTypes ==
    ASSUME TypeOK, CountedOnce, MonitorStep
    PROVE  TypeOK'
  <1>1. p \in ProcStates /\ MaxStarts \in Nat \ {0}
      BY ReportingAssumption DEF TypeOK
  <1>2. p.started \in 0..MaxStarts /\ p.failures \in 0..MaxStarts
      BY <1>1 DEF ProcStates
  <1>3. CASE MonitorReceives
    <2>1. PICK q \in ProcStates, m \in {"begin", "backoff", "over"},
               k \in {Same, With(Monitor, Known(2))} :
            Change(q, k) /\ monitor' = m
      <3> DEFINE failed == p.state = "Running" /\ p.exit = "failure"
                 last == failed /\ p.failures + 1 >= MaxRestarts
                 count == p.failures + (IF failed THEN 1 ELSE 0)
                 m == IF last \/ p.state # "Running" THEN "over"
                      ELSE IF failed THEN "backoff" ELSE "begin"
                 gone == [p EXCEPT !.exit = "none", !.failures = count, !.state = "Failed"]
                 on == [p EXCEPT !.exit = "none", !.failures = count]
      <3>1. count \in 0..MaxStarts
          BY <1>1, <1>2, <1>3 DEF MonitorReceives, CountedOnce
      <3>2. (last /\ Change(gone, With(Monitor, Known(2)))) \/ Change(on, Same)
          BY <1>3, Zenon DEF MonitorReceives
      <3>3. monitor' = m /\ m \in {"begin", "backoff", "over"}
          BY <1>3, Zenon DEF MonitorReceives
      <3> HIDE DEF count
      <3>4. gone \in ProcStates /\ on \in ProcStates
          BY <1>1, <3>1, 0 \in 0..MaxStarts DEF ProcStates
      <3> HIDE DEF failed, last, m, gone, on
      <3> QED
          BY <3>2, <3>3, <3>4
    <2>2. k \in [Reporter -> ReportStates]
      <3>1. Same \in [Reporter -> ReportStates]
          BY ReportTypes
      <3>2. With(Monitor, Known(2)) \in [Reporter -> ReportStates]
          BY ReportTypes, Reporters
      <3> QED
          BY <3>1, <3>2
    <2>3. p' = q /\ report' \in [Reporter -> ReportStates] /\ dashboard' \in BOOLEAN
        BY <2>1, <2>2, ChangeTypes
    <2>4. UNCHANGED <<child, waiter, stop, runtimes, reports>>
        BY <1>3, Zenon DEF MonitorReceives
    <2> QED
        BY <2>1, <2>3, <2>4 DEF reports, TypeOK
  <1>4. CASE BackoffEnds
      BY <1>4 DEF BackoffEnds, reports, TypeOK
  <1>5. CASE MonitorDone
      BY <1>5 DEF MonitorDone, reports, TypeOK
  <1> QED
      BY <1>3, <1>4, <1>5 DEF MonitorStep

LEMMA StopKeepsTypes ==
    ASSUME TypeOK, StopBegins \/ StopEnds \/ StopReturns
    PROVE  TypeOK'
  <1>1. p \in ProcStates /\ MaxStarts \in Nat \ {0}
      BY ReportingAssumption DEF TypeOK
  <1>2. CASE StopBegins
    <2>1. PICK q \in ProcStates, s \in {"wait", "leave"}, k \in {Same, With(Stopper, Known(1))} :
            Change(q, k) /\ stop' = s
      <3> DEFINE on == [p EXCEPT !.state = "Stopped"]
                 off == [p EXCEPT !.state = "Stopped", !.done = TRUE]
      <3>1. on \in ProcStates /\ off \in ProcStates
          BY <1>1 DEF ProcStates
      <3>2. \/ Change(on, Same) /\ stop' = "wait"
            \/ Change(off, With(Stopper, Known(1))) /\ stop' = "leave"
          BY <1>2, Zenon DEF StopBegins
      <3> HIDE DEF on, off
      <3> QED
          BY <3>1, <3>2
    <2>2. k \in [Reporter -> ReportStates]
      <3>1. Same \in [Reporter -> ReportStates]
          BY ReportTypes
      <3>2. With(Stopper, Known(1)) \in [Reporter -> ReportStates]
          BY ReportTypes, Reporters
      <3> QED
          BY <3>1, <3>2
    <2>3. p' = q /\ report' \in [Reporter -> ReportStates] /\ dashboard' \in BOOLEAN
        BY <2>1, <2>2, ChangeTypes
    <2>4. UNCHANGED <<child, waiter, monitor, runtimes, reports>>
        BY <1>2, Zenon DEF StopBegins
    <2> QED
        BY <2>1, <2>3, <2>4 DEF reports, TypeOK
  <1>3. CASE StopEnds
    <2>1. PICK exit \in {"none", p.exit}, told \in BOOLEAN :
            Change([p EXCEPT !.running = FALSE, !.cmd = 0, !.done = TRUE, !.exit = exit],
                   IF told THEN With(Stopper, Callback) ELSE Same)
        BY <1>3, Zenon DEF StopEnds
    <2> DEFINE q == [p EXCEPT !.running = FALSE, !.cmd = 0, !.done = TRUE, !.exit = exit]
               k == IF told THEN With(Stopper, Callback) ELSE Same
    <2>2. q \in ProcStates
      <3>1. exit \in {"none", "clean", "failure"}
          BY <1>1, <2>1 DEF ProcStates
      <3> QED
          BY <1>1, <3>1, 0 \in 0..MaxStarts DEF ProcStates
    <2>3. k \in [Reporter -> ReportStates]
        BY ReportTypes, Reporters
    <2>4. Change(q, k)
        BY <2>1
    <2> HIDE DEF q, k
    <2>5. p' = q /\ report' \in [Reporter -> ReportStates] /\ dashboard' \in BOOLEAN
        BY <2>2, <2>3, <2>4, ChangeTypes
    <2>6. stop' = "leave" /\ UNCHANGED <<child, waiter, monitor, runtimes, reports>>
        BY <1>3, Zenon DEF StopEnds
    <2> QED
        BY <2>2, <2>5, <2>6 DEF reports, TypeOK
  <1>4. CASE StopReturns
      BY <1>4 DEF StopReturns, reports, TypeOK
  <1> QED
      BY <1>2, <1>3, <1>4

\* What a step of one reporter does to its report.
LEMMA ReportsKeepTypes ==
    ASSUME TypeOK, NEW r \in Reporter, ReportStep(r)
    PROVE  TypeOK'
  <1>1. report \in [Reporter -> ReportStates] /\ report[r] \in ReportStates
      BY DEF TypeOK
  <1>2. \A k \in ReportStates : Report(r, k) => report' \in [Reporter -> ReportStates]
      BY <1>1 DEF Report
  <1>3. /\ Idle \in ReportStates
        /\ \A c \in {"show", "send"} : [Idle EXCEPT !.pc = c] \in ReportStates
      BY ReportTypes, EventTypes
  <1>4. CASE CallbackReads(r)
    <2> DEFINE v == IF p.running THEN 0 ELSE 1
    <2>1. v \in 0..2 /\ Report(r, [report[r] EXCEPT !.pc = "set", !.val = v])
        BY <1>4 DEF CallbackReads
    <2> HIDE DEF v
    <2>2. [report[r] EXCEPT !.pc = "set", !.val = v] \in ReportStates
        BY <1>1, <2>1 DEF ReportStates
    <2>3. report' \in [Reporter -> ReportStates]
        BY <1>2, <2>1, <2>2
    <2> QED
        BY <1>4, <2>3 DEF CallbackReads, reports, TypeOK
  <1>5. CASE SetsGauge(r)
    <2>1. report' \in [Reporter -> ReportStates]
        BY <1>2, <1>3, <1>5 DEF SetsGauge
    <2>2. gauge' \in 0..2
        BY <1>1, <1>5 DEF SetsGauge, ReportStates
    <2>3. overtaken' \in BOOLEAN
        BY <1>5, Zenon DEF SetsGauge
    <2> QED
        BY <1>5, <2>1, <2>2, <2>3 DEF SetsGauge, TypeOK
  <1>6. CASE EventReads(r)
    <2>1. report' \in [Reporter -> ReportStates]
        BY <1>2, <1>3, <1>6 DEF EventReads
    <2> QED
        BY <1>6, <2>1 DEF EventReads, reports, TypeOK
  <1>7. CASE EventIsSent(r)
    <2>1. report' \in [Reporter -> ReportStates]
        BY <1>2, <1>3, <1>7 DEF EventIsSent
    <2>2. dashboard' \in BOOLEAN
        BY <1>7, Zenon DEF EventIsSent
    <2> QED
        BY <1>7, <2>1, <2>2 DEF EventIsSent, reports, TypeOK
  <1> QED
      BY <1>4, <1>5, <1>6, <1>7 DEF ReportStep

LEMMA OthersKeepTypes ==
    ASSUME TypeOK, \/ MemoryTicks \/ PeriodicTicks \/ Wrap
                   \/ \E a \in Attempt : ChildExits(a)
    PROVE  TypeOK'
  <1>1. CASE MemoryTicks
    <2>1. p.cmd \in 0..MaxStarts
        BY DEF TypeOK, ProcStates
    <2> QED
        BY <1>1, <2>1 DEF MemoryTicks, UpdateMemoryUsage, TypeOK
  <1>2. CASE PeriodicTicks
    <2>1. [Idle EXCEPT !.pc = "send"] \in ReportStates
        BY EventTypes
    <2>2. report' \in [Reporter -> ReportStates]
        BY <1>2, <2>1, Reporters DEF PeriodicTicks, Report, TypeOK
    <2> QED
        BY <1>2, <2>2 DEF PeriodicTicks, reports, TypeOK
  <1>3. CASE Wrap
    <2>1. [p EXCEPT !.wrapped = TRUE] \in ProcStates
        BY DEF TypeOK, ProcStates
    <2> QED
        BY <1>3, <2>1 DEF Wrap, reports, TypeOK
  <1>4. ASSUME NEW a \in Attempt, ChildExits(a)
        PROVE  TypeOK'
      BY <1>4 DEF ChildExits, reports, TypeOK
  <1> QED
      BY <1>1, <1>2, <1>3, <1>4

LEMMA NextTypeOK ==
    ASSUME ReportingInv, [Next]_vars
    PROVE  TypeOK'
  <1>1. CASE UNCHANGED vars
      BY <1>1 DEF vars, ReportingInv, TypeOK
  <1>2. CASE Next
      BY <1>2, StartKeepsTypes, WaiterKeepsTypes, MonitorKeepsTypes, StopKeepsTypes,
         ReportsKeepTypes, OthersKeepTypes DEF Next, ReportingInv
  <1> QED
      BY <1>1, <1>2

-----------------------------------------------------------------------------
(* The life of the instance.                                               *)

Life == OneChild /\ CountedOnce /\ ExitIsWatched /\ RuntimeIsRecordedOnce

LEMMA ChangeSetsProcess == \A q, k : Change(q, k) => p' = q
  BY Zenon DEF Change

\* What TypeOK says of the variables the life is about.
LEMMA LifeTypes ==
    ASSUME TypeOK
    PROVE  /\ p \in ProcStates /\ waiter \in WaiterStates
           /\ child \in [Attempt -> {"none", "up", "clean", "failure"}]
           /\ runtimes \in [Attempt -> 0..1]
           /\ p.started \in 0..MaxStarts /\ p.failures \in 0..MaxStarts
           /\ p.running \in BOOLEAN /\ p.done \in BOOLEAN
           /\ MaxStarts \in Nat \ {0} /\ MaxRestarts \in Nat \ {0}
  BY ReportingAssumption DEF TypeOK, ProcStates

LEMMA LifeUndisturbed ==
    ASSUME Life, UNCHANGED <<p, child, waiter, monitor, runtimes>>
    PROVE  Life'
  BY DEF Life, OneChild, CountedOnce, ExitIsWatched, RuntimeIsRecordedOnce, Dead

LEMMA StartKeepsLife ==
    ASSUME TypeOK, Life, StartStep
    PROVE  Life'
  <1> USE DEF Life
  <1>1. CASE StartBegins
    <2>1. p' = [p EXCEPT !.state = "Running", !.started = @ + 1]
        BY <1>1, ChangeSetsProcess DEF StartBegins
    <2>2. /\ p'.started = p.started + 1 /\ p'.failures = p.failures /\ p'.exit = p.exit
          /\ p'.running = p.running /\ p'.done = p.done
        BY <2>1, LifeTypes DEF ProcStates
    <2>3. /\ monitor = "begin" /\ monitor' = "exec" /\ p.started < MaxStarts
          /\ UNCHANGED <<child, waiter, runtimes>>
        BY <1>1 DEF StartBegins
    <2>4. waiter.pc = "none" /\ p.exit = "none" /\ p.started + 1 \in Attempt
        BY <2>3, LifeTypes DEF OneChild, Attempt
    <2>5. OneChild'
        BY <2>2, <2>3, <2>4, LifeTypes DEF OneChild, Dead, Attempt
    <2>6. CountedOnce'
        BY <2>2, <2>3, <2>4, LifeTypes DEF CountedOnce
    <2>7. ExitIsWatched'
        BY <2>2, <2>3, <2>4 DEF ExitIsWatched
    <2>8. RuntimeIsRecordedOnce'
        BY <2>3 DEF RuntimeIsRecordedOnce, Dead
    <2> QED
        BY <2>5, <2>6, <2>7, <2>8
  <1>2. CASE StartSpawns
    <2>1. p' = [p EXCEPT !.running = TRUE, !.cmd = p.started, !.locked = TRUE]
        BY <1>2, ChangeSetsProcess DEF StartSpawns
    <2>2. /\ p'.started = p.started /\ p'.failures = p.failures /\ p'.exit = p.exit
          /\ p'.running = TRUE /\ p'.done = p.done
        BY <2>1, LifeTypes DEF ProcStates
    <2>3. /\ monitor = "exec" /\ monitor' = "ready"
          /\ child' = [child EXCEPT ![p.started] = "up"]
          /\ waiter'.pc = "wait" /\ waiter'.of = p.started
          /\ UNCHANGED runtimes
        BY <1>2 DEF StartSpawns
    <2>4. /\ waiter.pc = "none" /\ waiter.of = 0 /\ p.exit = "none"
          /\ p.started \in Attempt /\ child[p.started] = "none"
        BY <2>3 DEF OneChild
    <2>5. OneChild'
        BY <2>2, <2>3, <2>4, LifeTypes DEF OneChild, Dead, Attempt
    <2>6. CountedOnce'
        BY <2>2, <2>3, <2>4, LifeTypes DEF CountedOnce
    <2>7. ExitIsWatched'
        BY <2>2, <2>3, <2>4 DEF ExitIsWatched
    <2>8. RuntimeIsRecordedOnce'
        BY <2>3, <2>4, LifeTypes DEF RuntimeIsRecordedOnce, Dead, Attempt
    <2> QED
        BY <2>5, <2>6, <2>7, <2>8
  <1>3. CASE StartFails
    <2>1. /\ monitor = "exec"
          /\ \/ monitor' = "unlisted" /\ UNCHANGED p
             \/ monitor' = "wait" /\ p' = [p EXCEPT !.failures = @ + 1]
          /\ UNCHANGED <<child, waiter, runtimes>>
        BY <1>3 DEF StartFails
    <2>2. /\ p'.started = p.started /\ p'.exit = p.exit /\ p'.running = p.running
          /\ p'.done = p.done
          /\ p'.failures = p.failures \/ p'.failures = p.failures + 1
        BY <2>1, LifeTypes DEF ProcStates
    <2>3. /\ waiter.pc = "none" /\ p.exit = "none" /\ child[p.started] = "none"
          /\ p.failures < p.started
        BY <2>1 DEF OneChild, CountedOnce
    <2>4. OneChild'
        BY <2>1, <2>2, <2>3 DEF OneChild, Dead
    <2>5. CountedOnce'
        BY <2>1, <2>2, <2>3, LifeTypes DEF CountedOnce
    <2>6. ExitIsWatched'
        BY <2>1, <2>2, <2>3 DEF ExitIsWatched
    <2>7. RuntimeIsRecordedOnce'
        BY <2>1 DEF RuntimeIsRecordedOnce, Dead
    <2> QED
        BY <2>4, <2>5, <2>6, <2>7
  <1>4. CASE StartReturns
    <2>1. /\ monitor = "ready" /\ monitor' = "wait" /\ p' = [p EXCEPT !.locked = FALSE]
          /\ UNCHANGED <<child, waiter, runtimes>>
        BY <1>4 DEF StartReturns
    <2>2. /\ p'.started = p.started /\ p'.exit = p.exit /\ p'.running = p.running
          /\ p'.done = p.done /\ p'.failures = p.failures
        BY <2>1, LifeTypes DEF ProcStates
    <2> QED
        BY <2>1, <2>2 DEF OneChild, CountedOnce, ExitIsWatched, RuntimeIsRecordedOnce, Dead
  <1> QED
      BY <1>1, <1>2, <1>3, <1>4 DEF StartStep

LEMMA WaiterKeepsLife ==
    ASSUME TypeOK, Life, WaiterStep
    PROVE  Life'
  <1> USE DEF Life
  <1>1. CASE WaiterLocks
    <2>1. p' = [p EXCEPT !.running = FALSE]
        BY <1>1, ChangeSetsProcess DEF WaiterLocks
    <2>2. /\ p'.started = p.started /\ p'.failures = p.failures /\ p'.exit = p.exit
          /\ p'.running = FALSE /\ p'.done = p.done /\ p'.state = p.state
        BY <2>1, LifeTypes DEF ProcStates
    <2>3. /\ waiter.pc = "wait" /\ Dead(waiter.of)
          /\ waiter'.pc = "record" /\ waiter'.of = waiter.of /\ waiter'.began = p.started
          /\ UNCHANGED <<child, monitor, runtimes>>
        BY <1>1, LifeTypes DEF WaiterLocks, WaiterStates
    <2>4. waiter.of \in Attempt /\ waiter.of = p.started /\ p.exit = "none"
        BY <2>3 DEF OneChild
    <2>5. OneChild'
        BY <2>2, <2>3, <2>4 DEF OneChild, Dead
    <2>6. CountedOnce'
        BY <2>2, <2>3, <2>4 DEF CountedOnce
    <2>7. ExitIsWatched'
        BY <2>2, <2>3, <2>4 DEF ExitIsWatched
    <2>8. RuntimeIsRecordedOnce'
        BY <2>3, <2>4 DEF RuntimeIsRecordedOnce, Dead
    <2> QED
        BY <2>5, <2>6, <2>7, <2>8
  <1>2. CASE WaiterRecords
    <2>1. /\ waiter.pc = "record" /\ waiter' = [waiter EXCEPT !.pc = "notify"]
          /\ runtimes' = [runtimes EXCEPT ![waiter.began] = @ + 1]
          /\ UNCHANGED <<p, child, monitor>>
        BY <1>2 DEF WaiterRecords
    <2>2. waiter'.pc = "notify" /\ waiter'.of = waiter.of /\ waiter'.began = waiter.began
        BY <2>1, LifeTypes DEF WaiterStates
    <2>3. waiter.of \in Attempt /\ waiter.began = waiter.of /\ Dead(waiter.of)
        BY <2>1 DEF OneChild
    <2>4. OneChild' /\ CountedOnce' /\ ExitIsWatched'
        BY <2>1, <2>2, <2>3 DEF OneChild, CountedOnce, ExitIsWatched, Dead
    <2>5. RuntimeIsRecordedOnce'
        BY <2>1, <2>2, <2>3, LifeTypes DEF RuntimeIsRecordedOnce, Dead
    <2> QED
        BY <2>4, <2>5
  <1>3. CASE WaiterSends
    <2>1. /\ waiter.pc = "notify" /\ p.exit = "none" /\ p' = [p EXCEPT !.exit = child[waiter.of]]
          /\ waiter'.pc = "none" /\ waiter'.of = 0
          /\ UNCHANGED <<child, monitor, runtimes>>
        BY <1>3 DEF WaiterSends
    <2>2. /\ p'.started = p.started /\ p'.failures = p.failures /\ p'.exit = child[waiter.of]
          /\ p'.running = p.running /\ p'.done = p.done /\ p'.state = p.state
        BY <2>1, LifeTypes DEF ProcStates
    <2>3. /\ waiter.of \in Attempt /\ Dead(waiter.of) /\ ~p.running /\ waiter.of = p.started
          /\ p'.exit # "none"
        BY <2>1, <2>2 DEF OneChild, Dead
    <2>4. OneChild'
        BY <2>1, <2>2, <2>3 DEF OneChild, Dead
    <2>5. CountedOnce'
        BY <2>1, <2>2 DEF CountedOnce
    <2>6. ExitIsWatched'
        BY <2>1, <2>2, <2>3 DEF ExitIsWatched
    <2>7. RuntimeIsRecordedOnce'
        BY <2>1, <2>3, LifeTypes DEF RuntimeIsRecordedOnce, Dead, Attempt
    <2> QED
        BY <2>4, <2>5, <2>6, <2>7
  <1> QED
      BY <1>1, <1>2, <1>3 DEF WaiterStep

\* What the receive leaves of the instance.
LEMMA WhatIsReceived ==
    ASSUME TypeOK, MonitorReceives
    PROVE  /\ p'.started = p.started /\ p'.exit = "none" /\ p'.running = p.running
           /\ p'.done = p.done
           /\ p'.failures = p.failures \/ p'.failures = p.failures + 1
           /\ monitor' \in {"begin", "backoff", "over"}
           /\ monitor' = "over" => p'.state # "Running"
           /\ p'.state \in {p.state, "Failed"}
  <1> DEFINE failed == p.state = "Running" /\ p.exit = "failure"
             last == failed /\ p.failures + 1 >= MaxRestarts
             count == p.failures + (IF failed THEN 1 ELSE 0)
             m == IF last \/ p.state # "Running" THEN "over"
                  ELSE IF failed THEN "backoff" ELSE "begin"
             gone == [p EXCEPT !.exit = "none", !.failures = count, !.state = "Failed"]
             on == [p EXCEPT !.exit = "none", !.failures = count]
  <1>1. (last /\ Change(gone, With(Monitor, Known(2)))) \/ (~last /\ Change(on, Same))
      BY Zenon DEF MonitorReceives
  <1>2. (last /\ p' = gone) \/ (~last /\ p' = on)
      BY <1>1, ChangeSetsProcess
  <1>3. monitor' = m /\ m \in {"begin", "backoff", "over"}
      BY Zenon DEF MonitorReceives
  <1>4. count = p.failures \/ count = p.failures + 1
      BY LifeTypes
  <1>5. m = "over" => last \/ p.state # "Running"
      BY Zenon
  <1> HIDE DEF count, last, m
  <1>6. /\ p'.started = p.started /\ p'.exit = "none" /\ p'.running = p.running
        /\ p'.done = p.done /\ p'.failures = count
        /\ p'.state = IF last THEN "Failed" ELSE p.state
      BY <1>2, LifeTypes DEF ProcStates
  <1> QED
      BY <1>3, <1>4, <1>5, <1>6

LEMMA MonitorKeepsLife ==
    ASSUME TypeOK, Life, MonitorStep
    PROVE  Life'
  <1> USE DEF Life
  <1>1. CASE MonitorReceives
    <2>1. /\ monitor = "wait" /\ p.exit # "none"
          /\ UNCHANGED <<child, waiter, runtimes>>
        BY <1>1, Zenon DEF MonitorReceives
    <2>2. waiter.pc = "none" /\ ~p.running /\ p.failures < p.started
        BY <2>1 DEF OneChild, CountedOnce
    <2>3. OneChild'
        BY <1>1, <2>1, <2>2, WhatIsReceived DEF OneChild, Dead
    <2>4. CountedOnce'
        BY <1>1, <2>1, <2>2, WhatIsReceived, LifeTypes DEF CountedOnce
    <2>5. ExitIsWatched'
        BY <1>1, <2>1, <2>2, WhatIsReceived DEF ExitIsWatched
    <2>6. RuntimeIsRecordedOnce'
        BY <2>1 DEF RuntimeIsRecordedOnce, Dead
    <2> QED
        BY <2>3, <2>4, <2>5, <2>6
  <1>2. CASE BackoffEnds
    <2>1. /\ monitor = "backoff" /\ monitor' \in {"begin", "over"}
          /\ monitor' = "over" => p.done
          /\ UNCHANGED <<p, child, waiter, runtimes>>
        BY <1>2 DEF BackoffEnds
    <2> QED
        BY <2>1 DEF OneChild, CountedOnce, ExitIsWatched, RuntimeIsRecordedOnce, Dead
  <1>3. CASE MonitorDone
      BY <1>3 DEF MonitorDone, OneChild, CountedOnce, ExitIsWatched, RuntimeIsRecordedOnce, Dead
  <1> QED
      BY <1>1, <1>2, <1>3 DEF MonitorStep

\* What a step of Stop leaves of the instance.
LEMMA WhatStopLeaves ==
    ASSUME TypeOK, StopBegins \/ StopEnds
    PROVE  /\ p'.started = p.started /\ p'.failures = p.failures
           /\ p'.exit \in {"none", p.exit}
           /\ \/ /\ p'.running = p.running /\ p'.state = "Stopped" /\ p'.exit = p.exit
                 /\ p'.done = p.done \/ p'.done
              \/ ~p'.running /\ p'.state = p.state /\ p'.done
  <1>1. CASE StopBegins
    <2>1. \/ p' = [p EXCEPT !.state = "Stopped"]
          \/ p' = [p EXCEPT !.state = "Stopped", !.done = TRUE]
        BY <1>1, ChangeSetsProcess, Zenon DEF StopBegins
    <2> QED
        BY <2>1, LifeTypes DEF ProcStates
  <1>2. CASE StopEnds
    <2>1. PICK exit \in {"none", p.exit} :
            p' = [p EXCEPT !.running = FALSE, !.cmd = 0, !.done = TRUE, !.exit = exit]
        BY <1>2, ChangeSetsProcess, Zenon DEF StopEnds
    <2> QED
        BY <2>1, LifeTypes DEF ProcStates
  <1> QED
      BY <1>1, <1>2

LEMMA StopKeepsLife ==
    ASSUME TypeOK, Life, StopBegins \/ StopEnds
    PROVE  Life'
  <1> USE DEF Life
  <1>1. UNCHANGED <<child, waiter, monitor, runtimes>>
      BY Zenon DEF StopBegins, StopEnds
  <1>2. OneChild'
      BY <1>1, WhatStopLeaves DEF OneChild, Dead
  <1>3. CountedOnce'
      BY <1>1, WhatStopLeaves DEF CountedOnce
  <1>4. ExitIsWatched'
      BY <1>1, WhatStopLeaves DEF ExitIsWatched
  <1>5. RuntimeIsRecordedOnce'
      BY <1>1 DEF RuntimeIsRecordedOnce, Dead
  <1> QED
      BY <1>2, <1>3, <1>4, <1>5

LEMMA OthersKeepLife ==
    ASSUME TypeOK, Life, Wrap \/ \E a \in Attempt : ChildExits(a)
    PROVE  Life'
  <1> USE DEF Life
  <1>1. CASE Wrap
    <2>1. p' = [p EXCEPT !.wrapped = TRUE] /\ UNCHANGED <<child, waiter, monitor, runtimes>>
        BY <1>1 DEF Wrap
    <2>2. /\ p'.started = p.started /\ p'.exit = p.exit /\ p'.running = p.running
          /\ p'.done = p.done /\ p'.failures = p.failures /\ p'.state = p.state
        BY <2>1, LifeTypes DEF ProcStates
    <2> QED
        BY <2>1, <2>2 DEF OneChild, CountedOnce, ExitIsWatched, RuntimeIsRecordedOnce, Dead
  <1>2. ASSUME NEW a \in Attempt, ChildExits(a)
        PROVE  Life'
    <2>1. PICK how \in {"clean", "failure"} : child' = [child EXCEPT ![a] = how]
        BY <1>2 DEF ChildExits
    <2>2. child[a] = "up" /\ UNCHANGED <<p, waiter, monitor, runtimes>>
        BY <1>2 DEF ChildExits
    <2>3. waiter.pc = "wait" /\ waiter.of = a /\ p.started = a
        BY <2>2 DEF OneChild
    <2>4. \A b \in Attempt : child'[b] = IF b = a THEN how ELSE child[b]
        BY <2>1, LifeTypes
    <2>5. OneChild'
        BY <2>2, <2>3, <2>4, LifeTypes DEF OneChild, Dead, Attempt
    <2>6. CountedOnce' /\ ExitIsWatched'
        BY <2>2, <2>3, <2>4 DEF CountedOnce, ExitIsWatched
    <2>7. RuntimeIsRecordedOnce'
        BY <2>2, <2>3, <2>4 DEF RuntimeIsRecordedOnce, Dead
    <2> QED
        BY <2>5, <2>6, <2>7
  <1> QED
      BY <1>1, <1>2

LEMMA NextLife ==
    ASSUME ReportingInv, [Next]_vars
    PROVE  Life'
  <1> USE DEF ReportingInv
  <1>1. Life
      BY DEF Life
  <1>2. CASE UNCHANGED <<p, child, waiter, monitor, runtimes>>
      BY <1>1, <1>2, LifeUndisturbed
  <1>3. CASE ~UNCHANGED <<p, child, waiter, monitor, runtimes>>
    <2>1. \/ StartStep \/ WaiterStep \/ MonitorStep \/ StopBegins \/ StopEnds
          \/ Wrap \/ \E a \in Attempt : ChildExits(a)
        BY <1>3 DEF Next, vars, MemoryTicks, UpdateMemoryUsage, StopReturns, PeriodicTicks,
           ReportStep, CallbackReads, SetsGauge, EventReads, EventIsSent
    <2> QED
        BY <1>1, <2>1, StartKeepsLife, WaiterKeepsLife, MonitorKeepsLife, StopKeepsLife,
           OthersKeepLife
  <1> QED
      BY <1>2, <1>3

-----------------------------------------------------------------------------
(* The reports.                                                            *)

\* A status that is right, as far as a reporter can tell.
Right(v, q) ==
    \/ v = 0 /\ (q.running \/ q.state = "Running")
    \/ v = 1 /\ ~q.running
    \/ v = 2 /\ ~q.running /\ q.state = "Failed"

LEMMA ReportsUndisturbed ==
    ASSUME ReportsAreDue, p'.running = p.running, p'.state = p.state,
           UNCHANGED <<report, gauge, overtaken>>,
           waiter.pc = "record" => waiter'.pc = "record" /\ waiter'.was = waiter.was
    PROVE  ReportsAreDue'
  BY DEF ReportsAreDue, Pending, Status

\* What Change leaves of a report that somebody has made: it is old when the status changed
\* after it was made up.
LEMMA ChangeAgesReports ==
    ASSUME TypeOK, NEW q \in ProcStates, NEW k \in [Reporter -> ReportStates], Change(q, k)
    PROVE  \A r \in Reporter :
             /\ report'[r].pc = k[r].pc /\ report'[r].val = k[r].val
             /\ ~report'[r].old => /\ ~k[r].old
                                   /\ \/ q.running = p.running /\ q.state = p.state
                                      \/ report[r].pc \notin {"set", "send"}
  <1> SUFFICES ASSUME NEW r \in Reporter
               PROVE  /\ report'[r].pc = k[r].pc /\ report'[r].val = k[r].val
                      /\ ~report'[r].old => /\ ~k[r].old
                                            /\ \/ q.running = p.running /\ q.state = p.state
                                               \/ report[r].pc \notin {"set", "send"}
      OBVIOUS
  <1> DEFINE stale == /\ <<q.running, q.state>> # <<p.running, p.state>>
                      /\ report[r].pc \in {"set", "send"}
  <1>1. report'[r] = IF stale THEN [k[r] EXCEPT !.old = TRUE] ELSE k[r]
      BY Zenon DEF Change
  <1>2. [k[r] EXCEPT !.old = TRUE].pc = k[r].pc /\ [k[r] EXCEPT !.old = TRUE].val = k[r].val
        /\ [k[r] EXCEPT !.old = TRUE].old
      BY DEF ReportStates
  <1>3. ~stale => \/ q.running = p.running /\ q.state = p.state
                  \/ report[r].pc \notin {"set", "send"}
      OBVIOUS
  <1> HIDE DEF stale
  <1> QED
      BY <1>1, <1>2, <1>3

\* A change is reported: by the reporter w, whose report k adds, by the wait goroutine, or
\* not at all when the status is what it was.
LEMMA ChangeIsReported ==
    ASSUME TypeOK, ReportsAreDue, NEW q \in ProcStates, NEW k \in [Reporter -> ReportStates],
           NEW w \in Reporter \ {Periodic}, Change(q, k), UNCHANGED <<gauge, overtaken>>,
           \A r \in Reporter \ {w} : k[r] = report[r],
           \/ k[w] = report[w]
           \/ k[w].pc = "read" /\ w # Monitor
           \/ k[w].pc = "set" /\ Right(k[w].val, q) /\ (w = Monitor => k[w].val # 1),
           waiter.pc = "record" => waiter'.pc = "record" /\ waiter'.was = waiter.was,
           \/ p.running /\ q.running
           \/ ~p.running /\ ~q.running /\ q.state = p.state
           \/ k[w].pc \in {"read", "set"}
           \/ waiter'.pc = "record" /\ waiter'.was
    PROVE  ReportsAreDue'
  <1>1. p' = q
      BY ChangeSetsProcess
  <1>2. \A r \in Reporter :
          /\ report'[r].pc = k[r].pc /\ report'[r].val = k[r].val
          /\ ~report'[r].old => /\ ~k[r].old
                                /\ \/ q.running = p.running /\ q.state = p.state
                                   \/ report[r].pc \notin {"set", "send"}
      BY ChangeAgesReports
  <1>3. report'[Periodic].pc \in {"idle", "send"}
      BY <1>2, Reporters DEF ReportsAreDue
  <1>4. report'[Monitor].pc # "read" /\ report'[Monitor].val # 1
      BY <1>2, Reporters DEF ReportsAreDue
  <1>5. ASSUME NEW r \in Reporter, report'[r].pc = "set", ~report'[r].old
        PROVE  Right(report'[r].val, q)
    <2>1. CASE k[r] = report[r]
        BY <1>2, <1>5, <2>1 DEF ReportsAreDue, Right
    <2>2. CASE k[r] # report[r]
        BY <1>2, <1>5, <2>2
    <2> QED
        BY <2>1, <2>2
  <1>6. overtaken' \/ gauge' = Status' \/ Pending'
    <2>1. CASE overtaken
        BY <2>1
    <2>2. CASE Pending
      <3>1. \/ \E r \in Reporter : k[r].pc \in {"read", "set"}
            \/ waiter'.pc = "record" /\ waiter'.was
          BY <2>2 DEF Pending
      <3> QED
          BY <1>2, <3>1 DEF Pending
    <2>3. CASE k[w].pc \in {"read", "set"}
        BY <1>2, <2>3 DEF Pending
    <2>4. CASE waiter'.pc = "record" /\ waiter'.was
        BY <2>4 DEF Pending
    <2>5. CASE /\ gauge = Status
               /\ \/ p.running /\ q.running
                  \/ ~p.running /\ ~q.running /\ q.state = p.state
        BY <1>1, <2>5 DEF Status
    <2> QED
        BY <2>1, <2>2, <2>3, <2>4, <2>5 DEF ReportsAreDue
  <1> QED
      BY <1>1, <1>3, <1>4, <1>5, <1>6 DEF ReportsAreDue, Right

\* The reports somebody may add.
LEMMA Additions ==
    ASSUME TypeOK
    PROVE  /\ \A r \in Reporter, c \in ReportStates :
                 /\ With(r, c)[r] = c
                 /\ \A s \in Reporter \ {r} : With(r, c)[s] = report[s]
           /\ \A r \in Reporter : Same[r] = report[r]
           /\ Callback.pc = "read"
           /\ \A v \in 0..2 : Known(v).pc = "set" /\ Known(v).val = v
  <1>1. report \in [Reporter -> ReportStates]
      BY DEF TypeOK
  <1>2. \A r \in Reporter, c \in ReportStates :
                 /\ With(r, c)[r] = c
                 /\ \A s \in Reporter \ {r} : With(r, c)[s] = report[s]
      BY <1>1 DEF With
  <1>3. Callback.pc = "read"
      BY DEF Callback, Idle
  <1>4. \A v \in 0..2 : Known(v).pc = "set" /\ Known(v).val = v
      BY DEF Known, Idle
  <1> QED
      BY <1>2, <1>3, <1>4 DEF Same

LEMMA StartIsReported ==
    ASSUME TypeOK, OneChild, ReportsAreDue, StartStep
    PROVE  ReportsAreDue'
  <1>1. CASE StartBegins
    <2> DEFINE q == [p EXCEPT !.state = "Running", !.started = @ + 1]
               k == With(Monitor, Known(0))
    <2>1. Change(q, k) /\ UNCHANGED <<gauge, overtaken, waiter>>
        BY <1>1 DEF StartBegins, reports
    <2>2. q \in ProcStates /\ q.state = "Running"
      <3>1. p.started + 1 \in 0..MaxStarts
          BY <1>1, LifeTypes DEF StartBegins
      <3> QED
          BY <3>1, LifeTypes DEF ProcStates
    <2>3. Known(0) \in ReportStates /\ k \in [Reporter -> ReportStates]
        BY ReportTypes, Reporters
    <2>4. k[Monitor] = Known(0) /\ \A r \in Reporter \ {Monitor} : k[r] = report[r]
        BY <2>3, Additions, Reporters
    <2>5. Known(0).pc = "set" /\ Known(0).val = 0
        BY Additions
    <2> HIDE DEF q, k
    <2>6. Right(k[Monitor].val, q)
        BY <2>2, <2>4, <2>5 DEF Right
    <2> QED
        BY <2>1, <2>2, <2>3, <2>4, <2>5, <2>6, Reporters, ChangeIsReported
  <1>2. CASE StartSpawns
    <2> DEFINE q == [p EXCEPT !.running = TRUE, !.cmd = p.started, !.locked = TRUE]
               w == <<"notify", p.started>>
               k == With(w, Callback)
    <2>1. Change(q, k) /\ UNCHANGED <<gauge, overtaken>>
        BY <1>2 DEF StartSpawns, reports
    <2>2. q \in ProcStates
        BY LifeTypes DEF ProcStates
    <2>3. w \in Reporter \ {Periodic} /\ w # Monitor /\ waiter.pc = "none"
      <3>1. p.started \in Attempt /\ waiter.pc = "none"
          BY <1>2 DEF StartSpawns, OneChild
      <3> QED
          BY <3>1, Reporters
    <2>4. Callback \in ReportStates /\ k \in [Reporter -> ReportStates]
        BY <2>3, ReportTypes
    <2>5. k[w] = Callback /\ \A r \in Reporter \ {w} : k[r] = report[r]
        BY <2>3, <2>4, Additions
    <2>6. Callback.pc = "read"
        BY Additions
    <2> HIDE DEF q, k, w
    <2> QED
        BY <2>1, <2>2, <2>3, <2>4, <2>5, <2>6, ChangeIsReported
  <1>3. CASE StartFails \/ StartReturns
    <2>1. \/ p' = p \/ p' = [p EXCEPT !.failures = @ + 1] \/ p' = [p EXCEPT !.locked = FALSE]
        BY <1>3 DEF StartFails, StartReturns
    <2>2. p'.running = p.running /\ p'.state = p.state
        BY <2>1, LifeTypes DEF ProcStates
    <2>3. UNCHANGED <<report, gauge, overtaken, waiter>>
        BY <1>3 DEF StartFails, StartReturns, reports
    <2> QED
        BY <2>2, <2>3, ReportsUndisturbed
  <1> QED
      BY <1>1, <1>2, <1>3 DEF StartStep

LEMMA WaiterIsReported ==
    ASSUME TypeOK, ReportsAreDue, WaiterStep
    PROVE  ReportsAreDue'
  <1>1. CASE WaiterLocks
    <2> DEFINE q == [p EXCEPT !.running = FALSE]
    <2>1. Change(q, Same) /\ UNCHANGED <<gauge, overtaken>>
        BY <1>1 DEF WaiterLocks, reports
    <2>2. q \in ProcStates /\ ~q.running /\ q.state = p.state
        BY LifeTypes DEF ProcStates
    <2>3. Same \in [Reporter -> ReportStates] /\ \A r \in Reporter : Same[r] = report[r]
        BY ReportTypes, Additions
    <2>4. waiter.pc = "wait" /\ waiter'.pc = "record" /\ waiter'.was = p.running
        BY <1>1, LifeTypes DEF WaiterLocks, WaiterStates
    <2> HIDE DEF q
    <2>5. Monitor \in Reporter \ {Periodic}
        BY Reporters
    <2> QED
        BY <2>1, <2>2, <2>3, <2>4, <2>5, ChangeIsReported
  <1>2. CASE WaiterRecords
    <2>1. /\ waiter.pc = "record" /\ UNCHANGED <<p, gauge, overtaken>>
          /\ waiter.was => report' = With(Waiter, Callback)
          /\ ~waiter.was => report' = report
        BY <1>2 DEF WaiterRecords, reports, Same
    <2>2. CASE waiter.was
      <3>1. Callback \in ReportStates /\ Waiter \in Reporter
          BY ReportTypes, Reporters
      <3>2. report'[Waiter] = Callback /\ \A r \in Reporter \ {Waiter} : report'[r] = report[r]
          BY <2>1, <2>2, <3>1, Additions
      <3>3. Callback.pc = "read"
          BY Additions
      <3> QED
          BY <2>1, <3>1, <3>2, <3>3, Reporters DEF ReportsAreDue, Pending
    <2>3. CASE ~waiter.was
        BY <2>1, <2>3 DEF ReportsAreDue, Pending, Status
    <2> QED
        BY <2>2, <2>3
  <1>3. CASE WaiterSends
    <2>1. p' = [p EXCEPT !.exit = child[waiter.of]] /\ waiter.pc = "notify"
          /\ UNCHANGED <<report, gauge, overtaken>>
        BY <1>3 DEF WaiterSends, reports
    <2>2. p'.running = p.running /\ p'.state = p.state
        BY <2>1, LifeTypes DEF ProcStates
    <2> QED
        BY <2>1, <2>2, ReportsUndisturbed
  <1> QED
      BY <1>1, <1>2, <1>3 DEF WaiterStep

LEMMA MonitorIsReported ==
    ASSUME TypeOK, OneChild, CountedOnce, ReportsAreDue, MonitorStep
    PROVE  ReportsAreDue'
  <1>1. CASE MonitorReceives
    <2> DEFINE failed == p.state = "Running" /\ p.exit = "failure"
               last == failed /\ p.failures + 1 >= MaxRestarts
               count == p.failures + (IF failed THEN 1 ELSE 0)
               gone == [p EXCEPT !.exit = "none", !.failures = count, !.state = "Failed"]
               on == [p EXCEPT !.exit = "none", !.failures = count]
    <2>1. Change(gone, With(Monitor, Known(2))) \/ Change(on, Same)
        BY <1>1, Zenon DEF MonitorReceives
    <2>2. p.exit # "none" /\ ~p.running /\ p.failures < p.started
        BY <1>1, Zenon DEF MonitorReceives, OneChild, CountedOnce
    <2>3. count \in 0..MaxStarts
        BY <2>2, LifeTypes
    <2>4. UNCHANGED <<gauge, overtaken, waiter>>
        BY <1>1, Zenon DEF MonitorReceives, reports
    <2>5. Monitor \in Reporter \ {Periodic}
        BY Reporters
    <2> HIDE DEF count
    <2>6. /\ gone \in ProcStates /\ ~gone.running /\ gone.state = "Failed"
          /\ on \in ProcStates /\ ~on.running /\ on.state = p.state
        BY <2>2, <2>3, LifeTypes DEF ProcStates
    <2> HIDE DEF gone, on
    <2>7. CASE Change(gone, With(Monitor, Known(2)))
      <3> DEFINE k == With(Monitor, Known(2))
      <3>1. Known(2) \in ReportStates /\ k \in [Reporter -> ReportStates]
          BY ReportTypes, Reporters
      <3>2. k[Monitor] = Known(2) /\ \A r \in Reporter \ {Monitor} : k[r] = report[r]
          BY <3>1, Additions, Reporters
      <3>3. Known(2).pc = "set" /\ Known(2).val = 2
          BY Additions
      <3>4. Change(gone, k)
          BY <2>7
      <3> HIDE DEF k
      <3>5. Right(k[Monitor].val, gone)
          BY <2>6, <3>2, <3>3 DEF Right
      <3> QED
          BY <2>4, <2>5, <2>6, <3>1, <3>2, <3>3, <3>4, <3>5, ChangeIsReported
    <2>8. CASE Change(on, Same)
      <3>1. Same \in [Reporter -> ReportStates] /\ \A r \in Reporter : Same[r] = report[r]
          BY ReportTypes, Additions
      <3> QED
          BY <2>2, <2>4, <2>5, <2>6, <2>8, <3>1, ChangeIsReported
    <2> QED
        BY <2>1, <2>7, <2>8
  <1>2. CASE BackoffEnds \/ MonitorDone
      BY <1>2, ReportsUndisturbed DEF BackoffEnds, MonitorDone, reports
  <1> QED
      BY <1>1, <1>2 DEF MonitorStep

LEMMA StopIsReported ==
    ASSUME TypeOK, ReportsAreDue, StopBegins \/ StopEnds
    PROVE  ReportsAreDue'
  <1>1. UNCHANGED <<gauge, overtaken, waiter>>
      BY Zenon DEF StopBegins, StopEnds, reports
  <1>2. Stopper \in Reporter \ {Periodic} /\ Stopper # Monitor
      BY Reporters
  <1>3. Same \in [Reporter -> ReportStates] /\ \A r \in Reporter : Same[r] = report[r]
      BY ReportTypes, Additions
  <1>4. CASE StopBegins
    <2> DEFINE on == [p EXCEPT !.state = "Stopped"]
               off == [p EXCEPT !.state = "Stopped", !.done = TRUE]
               k == With(Stopper, Known(1))
    <2>1. \/ p.running /\ Change(on, Same)
          \/ ~p.running /\ Change(off, k)
        BY <1>4, Zenon DEF StopBegins
    <2>2. /\ on \in ProcStates /\ on.running = p.running
          /\ off \in ProcStates /\ off.running = p.running
        BY LifeTypes DEF ProcStates
    <2>3. Known(1) \in ReportStates /\ k \in [Reporter -> ReportStates]
        BY ReportTypes, Reporters
    <2>4. k[Stopper] = Known(1) /\ \A r \in Reporter \ {Stopper} : k[r] = report[r]
        BY <2>3, Additions, Reporters
    <2>5. Known(1).pc = "set" /\ Known(1).val = 1
        BY Additions
    <2> HIDE DEF on, off, k
    <2>6. CASE p.running /\ Change(on, Same)
        BY <1>1, <1>2, <1>3, <2>2, <2>6, ChangeIsReported
    <2>7. CASE ~p.running /\ Change(off, k)
      <3>1. Right(k[Stopper].val, off)
          BY <2>2, <2>4, <2>5, <2>7 DEF Right
      <3> QED
          BY <1>1, <1>2, <2>2, <2>3, <2>4, <2>5, <2>7, <3>1, ChangeIsReported
    <2> QED
        BY <2>1, <2>6, <2>7
  <1>5. CASE StopEnds
    <2>1. PICK exit \in {"none", p.exit}, told \in BOOLEAN :
            /\ p.running => told
            /\ Change([p EXCEPT !.running = FALSE, !.cmd = 0, !.done = TRUE, !.exit = exit],
                      IF told THEN With(Stopper, Callback) ELSE Same)
        BY <1>5, Zenon DEF StopEnds
    <2> DEFINE q == [p EXCEPT !.running = FALSE, !.cmd = 0, !.done = TRUE, !.exit = exit]
               k == IF told THEN With(Stopper, Callback) ELSE Same
    <2>2. Change(q, k)
        BY <2>1
    <2>3. q \in ProcStates /\ ~q.running /\ q.state = p.state
      <3>1. exit \in {"none", "clean", "failure"}
          BY <2>1, LifeTypes DEF ProcStates
      <3> QED
          BY <3>1, LifeTypes, 0 \in 0..MaxStarts DEF ProcStates
    <2>4. Callback \in ReportStates /\ With(Stopper, Callback) \in [Reporter -> ReportStates]
        BY ReportTypes, Reporters
    <2>5. /\ With(Stopper, Callback)[Stopper] = Callback
          /\ \A r \in Reporter \ {Stopper} : With(Stopper, Callback)[r] = report[r]
          /\ Callback.pc = "read"
        BY <2>4, Additions, Reporters
    <2>6. /\ k \in [Reporter -> ReportStates]
          /\ \A r \in Reporter \ {Stopper} : k[r] = report[r]
          /\ told => k[Stopper].pc = "read"
          /\ ~told => k[Stopper] = report[Stopper]
        BY <1>2, <1>3, <2>4, <2>5
    <2>7. ~told => ~p.running
        BY <2>1
    <2>8. p.running \in BOOLEAN
        BY LifeTypes
    <2> HIDE DEF q, k
    <2> QED
        BY <1>1, <1>2, <2>2, <2>3, <2>6, <2>7, <2>8, ChangeIsReported
  <1> QED
      BY <1>4, <1>5

LEMMA ReportsAreReported ==
    ASSUME TypeOK, ReportsAreDue, NEW r \in Reporter, ReportStep(r)
    PROVE  ReportsAreDue'
  <1>1. report \in [Reporter -> ReportStates] /\ report[r] \in ReportStates
      BY DEF TypeOK
  <1>2. UNCHANGED <<p, waiter>>
      BY DEF ReportStep, CallbackReads, SetsGauge, EventReads, EventIsSent
  <1>3. ASSUME NEW k, Report(r, k)
        PROVE  report'[r] = k /\ \A s \in Reporter \ {r} : report'[s] = report[s]
      BY <1>1, <1>3 DEF Report
  <1>4. CASE CallbackReads(r)
    <2> DEFINE v == IF p.running THEN 0 ELSE 1
               k == [report[r] EXCEPT !.pc = "set", !.val = v]
    <2>1. report[r].pc = "read" /\ Report(r, k) /\ UNCHANGED <<gauge, overtaken>>
        BY <1>4 DEF CallbackReads, reports
    <2>2. k.pc = "set" /\ k.val = v
        BY <1>1 DEF ReportStates
    <2>3. Right(v, p)
        BY DEF Right
    <2> HIDE DEF v, k
    <2>4. report'[r].pc = "set" /\ report'[r].val = v
          /\ \A s \in Reporter \ {r} : report'[s] = report[s]
        BY <1>3, <2>1, <2>2
    <2>5. r # Monitor /\ r # Periodic
        BY <2>1 DEF ReportsAreDue
    <2> QED
        BY <1>2, <2>1, <2>3, <2>4, <2>5, Reporters DEF ReportsAreDue, Pending, Right
  <1>5. CASE SetsGauge(r)
    <2> DEFINE k == IF report[r].show THEN [Idle EXCEPT !.pc = "show"] ELSE Idle
    <2>1. /\ report[r].pc = "set" /\ gauge' = report[r].val
          /\ overtaken' = (report[r].old \/ (p.state = "Failed" /\ r # Monitor))
          /\ Report(r, k)
        BY <1>5 DEF SetsGauge
    <2>2. k.pc \in {"idle", "show"} /\ k.val = 0
        BY DEF Idle
    <2> HIDE DEF k
    <2>3. report'[r].pc \in {"idle", "show"} /\ report'[r].val = 0
          /\ \A s \in Reporter \ {r} : report'[s] = report[s]
        BY <1>3, <2>1, <2>2
    <2>4. r # Periodic
        BY <2>1 DEF ReportsAreDue
    <2>5. overtaken' \/ gauge' = Status'
      <3>1. CASE report[r].old \/ (p.state = "Failed" /\ r # Monitor)
          BY <2>1, <3>1
      <3>2. CASE ~report[r].old /\ (p.state # "Failed" \/ r = Monitor)
        <4>1. Right(report[r].val, p) /\ (r = Monitor => report[r].val # 1)
            BY <2>1, <3>2 DEF ReportsAreDue, Right
        <4>2. p.state \in {"Running", "Stopped", "Failed"}
            BY LifeTypes DEF ProcStates
        <4> QED
            BY <1>2, <2>1, <3>2, <4>1, <4>2 DEF Right, Status
      <3> QED
          BY <3>1, <3>2
    <2> QED
        BY <1>2, <2>3, <2>4, <2>5, Reporters DEF ReportsAreDue
  <1>6. CASE EventReads(r) \/ EventIsSent(r)
    <2>1. PICK k \in {Idle, [Idle EXCEPT !.pc = "send"]} : Report(r, k)
        BY <1>6 DEF EventReads, EventIsSent
    <2>2. k.pc \in {"idle", "send"} /\ k.val = 0
        BY DEF Idle
    <2>3. report[r].pc \in {"show", "send"} /\ UNCHANGED <<gauge, overtaken>>
        BY <1>6 DEF EventReads, EventIsSent, reports
    <2>4. report'[r].pc \in {"idle", "send"} /\ report'[r].val = 0
          /\ \A s \in Reporter \ {r} : report'[s] = report[s]
        BY <1>3, <2>1, <2>2
    <2>5. Status' = Status
        BY <1>2, <2>3 DEF Status
    <2>6. Pending => Pending'
        BY <1>2, <2>3, <2>4 DEF Pending
    <2> QED
        BY <1>2, <2>3, <2>4, <2>5, <2>6, Reporters DEF ReportsAreDue
  <1> QED
      BY <1>4, <1>5, <1>6 DEF ReportStep

LEMMA PeriodicIsReported ==
    ASSUME TypeOK, ReportsAreDue, PeriodicTicks
    PROVE  ReportsAreDue'
  <1>1. report' = [report EXCEPT ![Periodic] = [Idle EXCEPT !.pc = "send"]]
        /\ UNCHANGED <<p, waiter, gauge, overtaken>>
      BY DEF PeriodicTicks, Report, reports
  <1>2. [Idle EXCEPT !.pc = "send"].pc = "send"
      BY DEF Idle
  <1>3. report'[Periodic].pc = "send" /\ \A s \in Reporter \ {Periodic} : report'[s] = report[s]
      BY <1>1, <1>2, Reporters DEF TypeOK
  <1>4. Status' = Status
      BY <1>1 DEF Status
  <1>5. Pending => Pending'
      BY <1>1, <1>3 DEF Pending, ReportsAreDue
  <1> QED
      BY <1>1, <1>3, <1>4, <1>5, Reporters DEF ReportsAreDue

LEMMA NextReports ==
    ASSUME ReportingInv, [Next]_vars
    PROVE  ReportsAreDue'
  <1> USE DEF ReportingInv
  <1>1. CASE Wrap
    <2>1. p' = [p EXCEPT !.wrapped = TRUE] /\ UNCHANGED <<report, gauge, overtaken, waiter>>
        BY <1>1 DEF Wrap, reports
    <2>2. p'.running = p.running /\ p'.state = p.state
        BY <2>1, LifeTypes DEF ProcStates
    <2> QED
        BY <2>1, <2>2, ReportsUndisturbed
  <1>2. CASE UNCHANGED <<p, waiter, report, gauge, overtaken>>
      BY <1>2, ReportsUndisturbed
  <1>3. CASE Next /\ ~Wrap /\ ~UNCHANGED <<p, waiter, report, gauge, overtaken>>
    <2>1. \/ StartStep \/ WaiterStep \/ MonitorStep \/ StopBegins \/ StopEnds
          \/ PeriodicTicks \/ \E r \in Reporter : ReportStep(r)
        BY <1>3 DEF Next, MemoryTicks, UpdateMemoryUsage, StopReturns, ChildExits, reports
    <2> QED
        BY <2>1, StartIsReported, WaiterIsReported, MonitorIsReported, StopIsReported,
           ReportsAreReported, PeriodicIsReported
  <1> QED
      BY <1>1, <1>2, <1>3 DEF vars

-----------------------------------------------------------------------------
(* The theorems.                                                           *)

LEMMA InitReportingInv == Init => ReportingInv
  <1> SUFFICES ASSUME Init PROVE ReportingInv
      OBVIOUS
  <1>1. Idle \in ReportStates /\ Idle.pc = "idle" /\ Idle.val = 0
      BY DEF Idle, ReportStates
  <1>2. TypeOK
    <2>1. 0 \in 0..MaxStarts
        BY ReportingAssumption
    <2>2. p \in ProcStates
        BY <2>1 DEF Init, ProcStates
    <2>3. waiter \in WaiterStates
        BY <2>1 DEF Init, WaiterStates
    <2>4. report \in [Reporter -> ReportStates]
        BY <1>1 DEF Init
    <2>5. /\ child \in [Attempt -> {"none", "up", "clean", "failure"}]
          /\ runtimes \in [Attempt -> 0..1]
        BY DEF Init
    <2>6. gauge \in 0..2 /\ memory \in 0..MaxStarts
        BY <2>1 DEF Init
    <2>7. overtaken \in BOOLEAN /\ dashboard \in BOOLEAN
        BY DEF Init
    <2>8. /\ monitor \in {"begin", "exec", "ready", "unlisted", "wait", "backoff", "over"}
          /\ stop \in {"idle", "wait", "leave", "done"}
        BY DEF Init
    <2> QED
        BY <2>2, <2>3, <2>4, <2>5, <2>6, <2>7, <2>8 DEF TypeOK
  <1>3. OneChild /\ CountedOnce /\ ExitIsWatched /\ RuntimeIsRecordedOnce
      BY ReportingAssumption
      DEF Init, OneChild, CountedOnce, ExitIsWatched, RuntimeIsRecordedOnce, Dead, Attempt
  <1>4. ReportsAreDue
      BY <1>1, Reporters DEF Init, ReportsAreDue, Status
  <1> QED
      BY <1>2, <1>3, <1>4 DEF ReportingInv

\* ReportingInv, the type invariant with what it needs to be inductive, holds throughout.
THEOREM ReportingInvariant == Spec => []ReportingInv
  <1>1. ReportingInv /\ [Next]_vars => ReportingInv'
      BY NextTypeOK, NextLife, NextReports DEF ReportingInv, Life
  <1> QED
      BY InitReportingInv, <1>1, PTL DEF Spec

\* Every variable keeps its type; in particular no runtime is recorded twice.
THEOREM TypeCorrect == Spec => []TypeOK
  <1>1. ReportingInv => TypeOK
      BY DEF ReportingInv
  <1> QED
      BY ReportingInvariant, <1>1, PTL

\* The runtime of every child is recorded once, after its exit and from its own start, however
\* the wait goroutine, Stop and the next Start interleave.
THEOREM RuntimesAreCounted == Spec => []RuntimeIsRecordedOnce
  <1>1. ReportingInv => RuntimeIsRecordedOnce
      BY DEF ReportingInv
  <1> QED
      BY ReportingInvariant, <1>1, PTL

\* When nobody is at work the gauge shows the status, or its last write was overtaken by a
\* change: no change of the status goes by without a write that follows it.
THEOREM StatusIsWritten == Spec => []StatusIsReported
  <1>1. ReportingInv => StatusIsReported
    <2> SUFFICES ASSUME ReportingInv, AtRest
                 PROVE  gauge = Status \/ overtaken
        BY DEF StatusIsReported
    <2>1. ~Pending
        BY DEF ReportingInv, ReportsAreDue, AtRest, Silent, Pending
    <2> QED
        BY <2>1 DEF ReportingInv, ReportsAreDue
  <1> QED
      BY ReportingInvariant, <1>1, PTL

\* An instance that is left calling itself Running has a child, but for the two ways out that
\* RunningIsTrue names: a restart that exec refused and a Stop that a restart overtook.
THEOREM RunningHasChild == Spec => []RunningIsTrue
  <1>1. ReportingInv => RunningIsTrue
    <2> SUFFICES ASSUME ReportingInv, AtRest, p.state = "Running", ~p.running,
                        child[p.started] # "none"
                 PROVE  p.done
        BY DEF RunningIsTrue
    <2> QED
        BY DEF ReportingInv, AtRest, ExitIsWatched, OneChild
  <1> QED
      BY ReportingInvariant, <1>1, PTL
=============================================================================
