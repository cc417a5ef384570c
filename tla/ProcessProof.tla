---------------------------- MODULE ProcessProof ----------------------------
(***************************************************************************)
(* Theorems about one process instance, for any number of monitors, stop   *)
(* callers and exec.Cmd objects, any max_restarts and any set of           *)
(* environment events.  The inductive invariant is IInv of module Process. *)
(***************************************************************************)
EXTENDS Process, TLAPS

-----------------------------------------------------------------------------
(* Type correctness.                                                       *)

LEMMA InitTypeOK == Init => TypeOK
  <1> SUFFICES ASSUME Init PROVE TypeOK
      OBVIOUS
  <1>1. pc \in [Actor -> Steps] /\ \A a \in Actor : pc[a] \in PCs(a)
      BY ActorsAssumption
      DEF Init, Actor, PCs, Steps, StartSteps, StopSteps, MonitorSteps
  <1>2. /\ running \in BOOLEAN
        /\ done \in BOOLEAN
      BY Zenon DEF Init
  <1> QED
      BY <1>1, <1>2, MaxRestartsAssumption DEF Init, TypeOK, ChildStates

\* Every step keeps the types; the Boolean variables come first, on their own.
LEMMA NextTypeOK == TypeOK /\ [Next]_vars => TypeOK'
  <1> SUFFICES ASSUME TypeOK, [Next]_vars PROVE TypeOK'
      OBVIOUS
  <1>1. running \in BOOLEAN /\ done \in BOOLEAN
      BY DEF TypeOK
  <1>2. ASSUME NEW c \in Cmd, WaiterLocks(c) PROVE running' \in BOOLEAN
      BY <1>2, Zenon DEF WaiterLocks
  <1>3. ASSUME NEW m \in Monitors, MonitorCountsFailure(m) PROVE running' \in BOOLEAN
      <2>1. running' = FALSE \/ running' = running
          BY <1>3, Zenon DEF MonitorCountsFailure
      <2> QED
          BY <1>1, <2>1, Zenon
  <1>4. ASSUME NEW s \in StopCaller, StopBegins(s)
        PROVE running' \in BOOLEAN /\ done' \in BOOLEAN
      <2>1. /\ running' = FALSE \/ running' = running
            /\ done' = TRUE \/ done' = done
          BY <1>4, Zenon DEF StopBegins
      <2> QED
          BY <1>1, <2>1, Zenon
  <1>5. ASSUME NEW s \in StopCaller, StopReturns(s)
        PROVE running' \in BOOLEAN /\ done' \in BOOLEAN
      <2>1. /\ running' = FALSE \/ running' = running
            /\ done' = TRUE
          BY <1>5, Zenon DEF StopReturns
      <2> QED
          BY <1>1, <2>1, Zenon
  <1> USE ActorsAssumption
      DEF TypeOK, Actor, StopCaller, Steps, StartSteps, StopSteps, MonitorSteps, PCs,
          Goto, procVars, childVars, actorVars
  <1>6. ASSUME NEW c \in Cmd, ChildExits(c) PROVE TypeOK'
      BY <1>6 DEF ChildExits, Die, ChildStates
  <1>7. ASSUME NEW c \in Cmd, ChildKilled(c) PROVE TypeOK'
      BY <1>7 DEF ChildKilled, Die, ChildStates
  <1>8. ASSUME NEW c \in Cmd, CtxKills(c) PROVE TypeOK'
      BY <1>8 DEF CtxKills, Die, ChildStates
  <1>9. ASSUME NEW c \in Cmd, WaiterReaps(c) PROVE TypeOK'
      BY <1>9 DEF WaiterReaps, ChildStates
  <1>10. ASSUME NEW c \in Cmd, WaiterLocks(c) PROVE TypeOK'
      BY <1>10, <1>2 DEF WaiterLocks, ChildStates
  <1>11. ASSUME NEW c \in Cmd, WaiterSends(c) PROVE TypeOK'
      BY <1>11 DEF WaiterSends, ChildStates
  <1>12. ASSUME NEW a \in {Starter} \cup Monitors, StartBegins(a) PROVE TypeOK'
      BY <1>12 DEF StartBegins
  <1>13. ASSUME NEW a \in {Starter} \cup Monitors, StartFails(a) PROVE TypeOK'
      BY <1>13 DEF StartFails, StartError
  <1>14. ASSUME NEW a \in {Starter} \cup Monitors, StartSpawns(a) PROVE TypeOK'
      BY <1>14, StarterCtxAssumption DEF StartSpawns, CtxOf, ChildStates
  <1>15. ASSUME NEW a \in {Starter} \cup Monitors, StartReady(a) PROVE TypeOK'
      BY <1>15 DEF StartReady
  <1>16. ASSUME NEW a \in {Starter} \cup Monitors, StartAbandoned(a) PROVE TypeOK'
      BY <1>16 DEF StartAbandoned, StartError
  <1>17. ASSUME NEW a \in {Starter} \cup Monitors, LateReady(a) PROVE TypeOK'
      BY <1>17 DEF LateReady
  <1>18. ASSUME NEW m \in Monitors, MonitorCalled(m) PROVE TypeOK'
      BY <1>18 DEF MonitorCalled
  <1>19. ASSUME NEW m \in Monitors, MonitorCancelled(m) PROVE TypeOK'
      BY <1>19 DEF MonitorCancelled
  <1>20. ASSUME NEW m \in Monitors, MonitorDone(m) PROVE TypeOK'
      BY <1>20 DEF MonitorDone
  <1>21. ASSUME NEW m \in Monitors, MonitorReceives(m) PROVE TypeOK'
      BY <1>21 DEF MonitorReceives
  <1>22. ASSUME NEW m \in Monitors, MonitorReadsState(m) PROVE TypeOK'
      BY <1>22 DEF MonitorReadsState
  <1>23. ASSUME NEW m \in Monitors, BackoffElapses(m) PROVE TypeOK'
      BY <1>23 DEF BackoffElapses
  <1>24. ASSUME NEW m \in Monitors, BackoffInterrupted(m) PROVE TypeOK'
      BY <1>24 DEF BackoffInterrupted
  <1>25. ASSUME NEW m \in Monitors, MonitorCountsFailure(m) PROVE TypeOK'
      <2>1. state' \in {"Running", "Stopped", "Failed"}
          BY <1>25 DEF MonitorCountsFailure
      <2>2. pc' \in [Actor -> Steps] /\ \A a \in Actor : pc'[a] \in PCs(a)
          BY <1>25 DEF MonitorCountsFailure
      <2>3. failureRestarts' \in 0..MaxRestarts
          BY <1>25, MaxRestartsAssumption DEF MonitorCountsFailure, Inc
      <2> QED
          BY <1>25, <1>3, <2>1, <2>2, <2>3 DEF MonitorCountsFailure
  <1>26. ASSUME NEW m \in Monitors, MonitorCleanExit(m) PROVE TypeOK'
      BY <1>26, MaxRestartsAssumption DEF MonitorCleanExit
  <1>27. ASSUME NEW m \in Monitors, MonitorCountsStartError(m) PROVE TypeOK'
      BY <1>27, MaxRestartsAssumption DEF MonitorCountsStartError, Inc
  <1>28. ASSUME NEW m \in Monitors, MonitorRestarted(m) PROVE TypeOK'
      BY <1>28, MaxRestartsAssumption DEF MonitorRestarted
  <1>29. ASSUME NEW s \in Stoppers, StopCalled(s) PROVE TypeOK'
      BY <1>29 DEF StopCalled
  <1>30. ASSUME NEW s \in StopCaller, StopBegins(s) PROVE TypeOK'
      <2>1. cmd' \in Cmd \cup {NoCmd} /\ exitChan' \in {"none", "zero", "nonzero"}
          BY <1>30 DEF StopBegins
      <2>2. pc' \in [Actor -> Steps] /\ \A a \in Actor : pc'[a] \in PCs(a)
          BY <1>30 DEF StopBegins, Succeed, Return
      <2>3. handle' \in [StopCaller -> Cmd \cup {NoCmd}]
          BY <1>30 DEF StopBegins, Succeed
      <2> QED
          BY <1>30, <1>4, <2>1, <2>2, <2>3 DEF StopBegins
  <1>31. ASSUME NEW s \in StopCaller, StopFindsNoPid(s) PROVE TypeOK'
      BY <1>31 DEF StopFindsNoPid, Delivered, Refused
  <1>32. ASSUME NEW s \in StopCaller, StopFindsPid(s) PROVE TypeOK'
      BY <1>32 DEF StopFindsPid, StopMoves
  <1>33. ASSUME NEW s \in StopCaller, StopEarlyElapses(s) PROVE TypeOK'
      BY <1>33 DEF StopEarlyElapses, StopMoves
  <1>34. ASSUME NEW s \in StopCaller, StopTicks(s) PROVE TypeOK'
      BY <1>34 DEF StopTicks, StopMoves
  <1>35. ASSUME NEW s \in StopCaller, StopGivesUp(s) PROVE TypeOK'
      BY <1>35 DEF StopGivesUp, StopMoves
  <1>36. ASSUME NEW s \in StopCaller, StopReceives(s) PROVE TypeOK'
      BY <1>36 DEF StopReceives
  <1>37. ASSUME NEW s \in StopCaller, StopTimesOut(s) PROVE TypeOK'
      BY <1>37 DEF StopTimesOut
  <1>38. ASSUME NEW s \in StopCaller, StopCtxDone(s) PROVE TypeOK'
      BY <1>38 DEF StopCtxDone, Return
  <1>39. ASSUME NEW s \in StopCaller, StopTerminates(s) PROVE TypeOK'
      BY <1>39 DEF StopTerminates, StopSignals, Delivered, Refused
  <1>40. ASSUME NEW s \in StopCaller, StopKills(s) PROVE TypeOK'
      BY <1>40 DEF StopKills, StopSignals, Delivered, Refused
  <1>41. ASSUME NEW s \in StopCaller, StopReturns(s) PROVE TypeOK'
      BY <1>41, <1>5 DEF StopReturns, Return
  <1>42. CASE ResetRestartCounters
      BY <1>42, MaxRestartsAssumption DEF ResetRestartCounters
  <1>44. CASE RequestEnds
      BY <1>44 DEF RequestEnds, Cancel
  <1>45. CASE AppCancelled
      BY <1>45 DEF AppCancelled, Cancel
  <1>43. CASE UNCHANGED vars
      BY <1>43 DEF vars
  <1> QED
      BY <1>6, <1>7, <1>8, <1>9, <1>10, <1>11, <1>12, <1>13, <1>14, <1>15, <1>16,
         <1>17, <1>18, <1>19, <1>20, <1>21, <1>22, <1>23, <1>24, <1>25, <1>26, <1>27,
         <1>28, <1>29, <1>30, <1>31, <1>32, <1>33, <1>34, <1>35, <1>36, <1>37, <1>38,
         <1>39, <1>40, <1>41, <1>42, <1>43, <1>44, <1>45
      DEF Next, ChildStep, StartStep, MonitorStep, StopStep

\* Every reachable state is well typed.
THEOREM TypeCorrect == Spec => []TypeOK
  BY InitTypeOK, NextTypeOK, PTL DEF Spec

-----------------------------------------------------------------------------
(* The inductive invariant.  OneIncarnation says where the entitlement to   *)
(* run a child is; with StopPins it shows that a Stop which found the       *)
(* instance running deals with the only child there is, and no other.       *)

LEMMA InitIInv == Init => IInv
  <1> SUFFICES ASSUME Init PROVE IInv
      OBVIOUS
  <1>1. TypeOK
      BY InitTypeOK
  <1>2. /\ ~running
        /\ state = "Running"
        /\ exitChan = "none"
        /\ \A c \in Cmd : child[c] = "gone"
      BY DEF Init
  <1>3. \A a \in Actor : pc[a] = IF a = Starter THEN "start"
                                 ELSE IF a \in Monitors THEN "off" ELSE "idle"
      BY DEF Init
  <1> QED
      BY <1>1, <1>2, <1>3, ActorsAssumption
      DEF IInv, OneIncarnation, RunningTracksChild, NothingEscapes, StopHolds,
          StopSucceeds, FailedIsQuiet, StopPins, Pending, Handling, Restarting, Stopping,
          StopSteps, Actor, StopCaller

\* A child's death, and its waiter's three steps.
LEMMA ChildKeepsIInv ==
    ASSUME IInv, TypeOK', NEW c \in Cmd, ChildStep(c) PROVE IInv'
  <1> USE ActorsAssumption, CmdAssumption
      DEF IInv, TypeOK, OneIncarnation, RunningTracksChild, NothingEscapes, StopHolds,
          StopSucceeds, FailedIsQuiet, StopPins, Pending, Handling, Restarting, Stopping,
          StopSteps, Actor, StopCaller, Goto, procVars, childVars, actorVars
  <1>1. CASE ChildExits(c)
      BY <1>1 DEF ChildExits, Die
  <1>2. CASE ChildKilled(c)
      BY <1>2 DEF ChildKilled, Die
  <1>3. CASE CtxKills(c)
      BY <1>3 DEF CtxKills, Die
  <1>4. CASE WaiterReaps(c)
      BY <1>4 DEF WaiterReaps
  <1>5. CASE WaiterLocks(c)
      BY <1>5 DEF WaiterLocks
  <1>6. CASE WaiterSends(c)
      BY <1>6 DEF WaiterSends
  <1> QED
      BY <1>1, <1>2, <1>3, <1>4, <1>5, <1>6 DEF ChildStep

\* Start: only StartSpawns hands the entitlement on, to the new child.
LEMMA StartKeepsIInv ==
    ASSUME IInv, TypeOK', NEW a \in {Starter} \cup Monitors, StartStep(a) PROVE IInv'
  <1> USE ActorsAssumption, CmdAssumption
      DEF IInv, TypeOK, OneIncarnation, RunningTracksChild, NothingEscapes, StopHolds,
          StopSucceeds, FailedIsQuiet, StopPins, Pending, Handling, Restarting, Stopping,
          StopSteps, Actor, StopCaller, Goto, procVars, childVars, actorVars
  <1>1. CASE StartBegins(a)
      BY <1>1 DEF StartBegins
  <1>2. CASE StartFails(a)
      BY <1>2 DEF StartFails, StartError
  <1>3. CASE StartSpawns(a)
      BY <1>3 DEF StartSpawns, CtxOf
  <1>4. CASE StartReady(a)
      BY <1>4 DEF StartReady
  <1>5. CASE StartAbandoned(a)
      BY <1>5 DEF StartAbandoned, StartError
  <1>6. CASE LateReady(a)
      BY <1>6 DEF LateReady
  <1> QED
      BY <1>1, <1>2, <1>3, <1>4, <1>5, <1>6 DEF StartStep

\* Monitor: it holds the entitlement from MonitorReceives on.
LEMMA MonitorKeepsIInv ==
    ASSUME IInv, TypeOK', NEW m \in Monitors, MonitorStep(m) PROVE IInv'
  <1> USE ActorsAssumption, CmdAssumption
      DEF IInv, TypeOK, OneIncarnation, RunningTracksChild, NothingEscapes, StopHolds,
          StopSucceeds, FailedIsQuiet, StopPins, Pending, Handling, Restarting, Stopping,
          StopSteps, Actor, StopCaller, Goto, procVars, childVars, actorVars
  <1>1. CASE MonitorCalled(m)
      BY <1>1 DEF MonitorCalled
  <1>2. CASE MonitorCancelled(m)
      BY <1>2 DEF MonitorCancelled
  <1>3. CASE MonitorDone(m)
      BY <1>3 DEF MonitorDone
  <1>4. CASE MonitorReceives(m)
      BY <1>4 DEF MonitorReceives
  <1>5. CASE MonitorReadsState(m)
      BY <1>5 DEF MonitorReadsState
  <1>6. CASE MonitorCountsFailure(m)
      BY <1>6 DEF MonitorCountsFailure
  <1>7. CASE BackoffElapses(m)
      BY <1>7 DEF BackoffElapses
  <1>8. CASE BackoffInterrupted(m)
      BY <1>8 DEF BackoffInterrupted
  <1>9. CASE MonitorCleanExit(m)
      BY <1>9 DEF MonitorCleanExit
  <1>10. CASE MonitorCountsStartError(m)
      BY <1>10 DEF MonitorCountsStartError
  <1>11. CASE MonitorRestarted(m)
      BY <1>11 DEF MonitorRestarted
  <1> QED
      BY <1>1, <1>2, <1>3, <1>4, <1>5, <1>6, <1>7, <1>8, <1>9, <1>10, <1>11 DEF
         MonitorStep

\* A SIGKILL and a refusal are remembered, whatever is sent after them.
LEMMA SignalsStay ==
    ASSUME sig \in [Cmd -> SUBSET {"term", "kill", "refused"}], NEW d \in Cmd,
           NEW signal \in {"term", "kill", "refused"}, Delivered(d, signal)
    PROVE  /\ \A c \in Cmd :
                sig[c] \cap {"kill", "refused"} # {} => sig'[c] \cap {"kill", "refused"} # {}
           /\ signal # "term" => sig'[d] \cap {"kill", "refused"} # {}
  <1>1. sig'[d] = IF "kill" \in sig[d] \cup {signal} THEN {"kill"} ELSE sig[d] \cup {signal}
      BY DEF Delivered
  <1>2. \A c \in Cmd : c # d => sig'[c] = sig[c]
      BY DEF Delivered
  <1>3. sig[d] \cap {"kill", "refused"} # {} \/ signal # "term"
          => sig'[d] \cap {"kill", "refused"} # {}
      BY <1>1
  <1> QED
      BY <1>2, <1>3

\* Stop: what each of its ways out clears is no longer needed to find a child.
LEMMA StopKeepsIInv ==
    ASSUME IInv, TypeOK', NEW s \in StopCaller, StopStep(s) PROVE IInv'
  <1> USE ActorsAssumption, CmdAssumption
      DEF IInv, TypeOK, OneIncarnation, RunningTracksChild, NothingEscapes, StopHolds,
          StopSucceeds, FailedIsQuiet, StopPins, Pending, Handling, Restarting, Stopping,
          StopSteps, Actor, StopCaller, Goto, procVars, childVars, actorVars
  <1>1. CASE StopBegins(s)
      BY <1>1 DEF StopBegins, Succeed, Return
  <1>2. CASE StopFindsNoPid(s)
    <2>1. handle[s] \in Cmd
        BY <1>2 DEF StopFindsNoPid
    <2>2. /\ \A c \in Cmd :
               sig[c] \cap {"kill", "refused"} # {} => sig'[c] \cap {"kill", "refused"} # {}
          /\ Reaped(handle[s]) \/ sig'[handle[s]] \cap {"kill", "refused"} # {}
        BY <1>2, <2>1, SignalsStay DEF StopFindsNoPid, Refused
    <2> QED
        BY <1>2, <2>1, <2>2 DEF StopFindsNoPid, Reaped
  <1>3. CASE StopFindsPid(s)
      BY <1>3 DEF StopFindsPid, StopMoves
  <1>4. CASE StopTerminates(s)
    <2>1. \A c \in Cmd :
            sig[c] \cap {"kill", "refused"} # {} => sig'[c] \cap {"kill", "refused"} # {}
      <3>1. handle[s] \in Cmd
          BY <1>4 DEF StopTerminates, StopSignals
      <3> QED
          BY <1>4, <3>1, SignalsStay DEF StopTerminates, StopSignals, Refused
    <2>2. /\ handle[s] \in Cmd
          /\ \A c \in Cmd : child[c] = "alive" => c = handle[s]
        BY <1>4 DEF StopTerminates, StopSignals
    <2>3. \/ Goto(s, "finish") /\ child[handle[s]] # "alive"
          \/ Goto(s, "early")
        BY <1>4, <2>2 DEF StopTerminates, StopSignals, Reaped
    <2>4. UNCHANGED <<procVars, failureRestarts, child, code, ctx, cancelled, handle>>
        BY <1>4 DEF StopTerminates, StopSignals
    <2>5. StopPins' /\ StopSucceeds' /\ NothingEscapes'
        BY <1>4, <2>1, <2>2, <2>3, <2>4 DEF StopTerminates, StopSignals
    <2> QED
        BY <1>4, <2>3, <2>4, <2>5 DEF StopTerminates, StopSignals
  <1>5. CASE StopReceives(s)
      BY <1>5 DEF StopReceives
  <1>6. CASE StopEarlyElapses(s)
      BY <1>6 DEF StopEarlyElapses, StopMoves
  <1>7. CASE StopTicks(s)
      BY <1>7 DEF StopTicks, StopMoves
  <1>8. CASE StopTimesOut(s)
      BY <1>8 DEF StopTimesOut
  <1>9. CASE StopKills(s)
    <2>1. \A c \in Cmd :
            sig[c] \cap {"kill", "refused"} # {} => sig'[c] \cap {"kill", "refused"} # {}
      <3>1. handle[s] \in Cmd
          BY <1>9 DEF StopKills, StopSignals
      <3> QED
          BY <1>9, <3>1, SignalsStay DEF StopKills, StopSignals, Refused
    <2>2. /\ handle[s] \in Cmd
          /\ \A c \in Cmd : child[c] = "alive" => c = handle[s]
        BY <1>9 DEF StopKills, StopSignals
    <2>3. \/ Goto(s, "finish") /\ child[handle[s]] # "alive"
          \/ Goto(s, "killWait") /\ sig'[handle[s]] \cap {"kill", "refused"} # {}
        BY <1>9, <2>2, SignalsStay DEF StopKills, StopSignals, Refused, Reaped
    <2>4. UNCHANGED <<procVars, failureRestarts, child, code, ctx, cancelled, handle>>
        BY <1>9 DEF StopKills, StopSignals
    <2>5. StopPins' /\ StopSucceeds' /\ NothingEscapes'
        BY <1>9, <2>1, <2>2, <2>3, <2>4 DEF StopKills, StopSignals
    <2> QED
        BY <1>9, <2>3, <2>4, <2>5 DEF StopKills, StopSignals
  <1>10. CASE StopGivesUp(s)
      BY <1>10 DEF StopGivesUp, StopMoves
  <1>11. CASE StopReturns(s)
      <2>1. OneIncarnation' /\ RunningTracksChild'
          <3>1. running' => running
              BY <1>11, Zenon DEF StopReturns
          <3>2. running' => pc[s] = "tick"
              BY <1>11, Zenon DEF StopReturns
          <3> QED
              BY <1>11, <3>1, <3>2 DEF StopReturns, Return
      <2>2. NothingEscapes'
          BY <1>11 DEF StopReturns, Return
      <2>3. StopHolds' /\ StopSucceeds'
          BY <1>11 DEF StopReturns, Return
      <2>4. FailedIsQuiet'
          BY <1>11 DEF StopReturns, Return
      <2>5. StopPins'
          BY <1>11 DEF StopReturns, Return
      <2> QED
          BY <2>1, <2>2, <2>3, <2>4, <2>5
  <1> QED
      BY <1>1, <1>2, <1>3, <1>4, <1>5, <1>6, <1>7, <1>8, <1>9, <1>10, <1>11 DEF
         StopStep

LEMMA NextIInv == IInv /\ [Next]_vars => IInv'
  <1> SUFFICES ASSUME IInv, [Next]_vars PROVE IInv'
      OBVIOUS
  <1>1. TypeOK'
      BY NextTypeOK DEF IInv
  <1>2. ASSUME NEW s \in StopCaller, StopCtxDone(s) PROVE IInv'
      BY <1>1, <1>2, ActorsAssumption
      DEF StopCtxDone, Return, Goto, IInv, TypeOK, OneIncarnation, RunningTracksChild,
          NothingEscapes, StopHolds, StopSucceeds, FailedIsQuiet, StopPins, Pending,
          Handling, Restarting, Stopping, StopSteps, Actor, StopCaller, procVars,
          childVars
  <1>3. ASSUME NEW s \in Stoppers, StopCalled(s) PROVE IInv'
      BY <1>1, <1>3, ActorsAssumption
      DEF StopCalled, Goto, IInv, TypeOK, OneIncarnation, RunningTracksChild,
          NothingEscapes, StopHolds, StopSucceeds, FailedIsQuiet, StopPins, Pending,
          Handling, Restarting, Stopping, StopSteps, Actor, StopCaller, procVars,
          childVars
  <1>4. CASE UNCHANGED <<procVars, childVars, actorVars>>
      BY <1>1, <1>4
      DEF IInv, OneIncarnation, RunningTracksChild, NothingEscapes, StopHolds,
          StopSucceeds, FailedIsQuiet, StopPins, Pending, Handling, Restarting, Stopping,
          procVars, childVars, actorVars
  <1>5. CASE ResetRestartCounters \/ RequestEnds \/ AppCancelled \/ UNCHANGED vars
      BY <1>4, <1>5 DEF ResetRestartCounters, RequestEnds, AppCancelled, Cancel, vars
  <1> QED
      BY <1>1, <1>2, <1>3, <1>5, ChildKeepsIInv, StartKeepsIInv, MonitorKeepsIInv,
         StopKeepsIInv
      DEF Next

LEMMA Inductive == Spec => []IInv
  BY InitIInv, NextIInv, PTL DEF Spec

\* An instance never has two children, and no waiter finds the exit channel full: the
\* entitlement to run a child is in one place at any time.
THEOREM ChildrenNeverOverlap == Spec => []OneIncarnation
  <1>1. IInv => OneIncarnation
      BY DEF IInv
  <1> QED
      BY <1>1, Inductive, PTL

\* p.running never outlives the child it speaks of.
THEOREM RunningIsNeverStale == Spec => []RunningTracksChild
  <1>1. IInv => RunningTracksChild
      BY DEF IInv
  <1> QED
      BY <1>1, Inductive, PTL

\* A live child can be found through p.cmd with p.running set, or has SIGKILL on its way,
\* or was refused a signal by the kernel.
THEOREM NoChildEscapes == Spec => []NothingEscapes
  <1>1. IInv => NothingEscapes
      BY DEF IInv
  <1> QED
      BY <1>1, Inductive, PTL

\* Once Stop found the instance running, nothing restarts it before Stop returns.
THEOREM StopIsEffective == Spec => []StopHolds
  <1>1. IInv => StopHolds
      BY DEF IInv
  <1> QED
      BY <1>1, Inductive, PTL

\* Where a Stop that found the instance running returns nil, the child it took from p.cmd
\* has exited, has SIGKILL on its way, or was refused a signal by the kernel.
THEOREM StopSuccessIsReal == Spec => []StopSucceeds
  <1>1. IInv => StopSucceeds
      BY DEF IInv
  <1> QED
      BY <1>1, Inductive, PTL

\* A failed instance has no child, no exit event and nobody restarting it.
THEOREM FailedInstanceIsQuiet == Spec => []FailedIsQuiet
  <1>1. IInv => FailedIsQuiet
      BY DEF IInv
  <1> QED
      BY <1>1, Inductive, PTL

\* A failed instance can only be stopped: only a Start sets Running, and whoever calls
\* Start holds the entitlement, which nobody does once the instance has failed.
THEOREM FailedStaysFailed == Spec => FailedIsFinal
  <1>1. IInv /\ [Next]_vars => [state = "Failed" => state' \in {"Failed", "Stopped"}]_vars
    <2> SUFFICES ASSUME IInv, Next, state = "Failed"
                 PROVE  state' \in {"Failed", "Stopped"}
        BY DEF vars
    <2>1. \A a \in Actor : ~Handling(a)
        BY DEF IInv, FailedIsQuiet
    <2>2. ASSUME NEW c \in Cmd, ChildStep(c) PROVE state' = state
        BY <2>2 DEF ChildStep, ChildExits, ChildKilled, CtxKills, Die, WaiterReaps,
                    WaiterLocks, WaiterSends, procVars
    <2>3. ASSUME NEW a \in {Starter} \cup Monitors, StartStep(a) PROVE state' = state
        BY <2>1, <2>3 DEF StartStep, StartBegins, StartFails, StartSpawns, StartReady,
                          StartAbandoned, LateReady, Handling, Actor, procVars
    <2>4. ASSUME NEW m \in Monitors, MonitorStep(m) PROVE state' = state
        BY <2>1, <2>4 DEF MonitorStep, MonitorCalled, MonitorCancelled, MonitorDone,
                          MonitorReceives, MonitorReadsState, MonitorCountsFailure,
                          BackoffElapses, BackoffInterrupted, MonitorCleanExit,
                          MonitorCountsStartError, MonitorRestarted, Handling, Actor,
                          procVars
    <2>5. ASSUME NEW s \in StopCaller, StopStep(s) \/ StopCtxDone(s)
          PROVE state' = state \/ state' = "Stopped"
        BY <2>5 DEF StopStep, StopBegins, StopFindsNoPid, Refused, Delivered, StopFindsPid,
                    StopMoves,
                    StopTerminates, StopKills, StopSignals, StopReceives,
                    StopEarlyElapses, StopTicks, StopTimesOut, StopGivesUp, StopReturns,
                    StopCtxDone, procVars
    <2>6. ASSUME NEW s \in Stoppers, StopCalled(s) PROVE state' = state
        BY <2>6 DEF StopCalled, procVars
    <2>7. CASE ResetRestartCounters \/ RequestEnds \/ AppCancelled
        BY <2>7 DEF ResetRestartCounters, RequestEnds, AppCancelled, Cancel, procVars
    <2> QED
        BY <2>2, <2>3, <2>4, <2>5, <2>6, <2>7 DEF Next
  <1> QED
      BY <1>1, Inductive, PTL DEF Spec, FailedIsFinal

\* Only a monitor that reads the state Running goes on to restart, and only a Start, which
\* that monitor or the starter calls, sets the state to Running again.
LEMMA StoppedStep ==
    ASSUME IInv, StoppedInTime, [Next]_vars
    PROVE  StoppedInTime' /\ \A c \in Cmd : ~Spawned(c)
  <1>1. /\ state = "Stopped"
        /\ \A a \in Actor : pc[a] \notin {"failure", "clean", "backoff", "start", "exec"}
        /\ pc \in [Actor -> Steps] /\ child \in [Cmd -> ChildStates]
      BY DEF StoppedInTime, Restarting, IInv, TypeOK
  <1> USE <1>1 DEF StoppedInTime, Restarting, Spawned, Goto, procVars, childVars, actorVars
  <1>2. ASSUME NEW c \in Cmd, ChildStep(c) PROVE StoppedInTime' /\ \A d \in Cmd : ~Spawned(d)
      BY <1>2 DEF ChildStep, ChildExits, ChildKilled, CtxKills, Die, WaiterReaps,
                  WaiterLocks, WaiterSends
  <1>3. ASSUME NEW a \in {Starter} \cup Monitors, StartStep(a)
        PROVE  StoppedInTime' /\ \A d \in Cmd : ~Spawned(d)
    <2>1. a \in Actor
        BY DEF Actor
    <2>2. StartReady(a) \/ StartAbandoned(a) \/ LateReady(a)
        BY <1>3, <2>1 DEF StartStep, StartBegins, StartFails, StartSpawns
    <2> QED
        BY <2>2 DEF StartReady, StartAbandoned, StartError, LateReady
  <1>4. ASSUME NEW m \in Monitors, MonitorStep(m)
        PROVE  StoppedInTime' /\ \A d \in Cmd : ~Spawned(d)
    <2>1. m \in Actor
        BY DEF Actor
    <2>2. UNCHANGED <<state, child>>
        BY <1>4, <2>1 DEF MonitorStep, MonitorCalled, MonitorCancelled, MonitorDone,
                          MonitorReceives, MonitorReadsState, MonitorCountsFailure,
                          BackoffElapses, BackoffInterrupted, MonitorCleanExit,
                          MonitorCountsStartError, MonitorRestarted
    <2>3. \E step \in {"select", "stop", "returned", "exited"} : Goto(m, step)
        BY <1>4, <2>1 DEF MonitorStep, MonitorCalled, MonitorCancelled, MonitorDone,
                          MonitorReceives, MonitorReadsState, MonitorCountsFailure,
                          BackoffElapses, BackoffInterrupted, MonitorCleanExit,
                          MonitorCountsStartError, MonitorRestarted
    <2> QED
        BY <2>2, <2>3
  <1>5. ASSUME NEW s \in StopCaller, StopStep(s) \/ StopCtxDone(s)
        PROVE  StoppedInTime' /\ \A d \in Cmd : ~Spawned(d)
    <2>1. child' = child /\ state' = "Stopped"
        BY <1>5 DEF StopStep, StopBegins, StopFindsNoPid, Refused, Delivered, StopFindsPid,
                    StopMoves,
                    StopTerminates, StopKills, StopSignals, StopReceives,
                    StopEarlyElapses, StopTicks, StopTimesOut, StopGivesUp, StopReturns,
                    StopCtxDone
    <2>2. \E step \in StopSteps \cup {"returned", "stopped", "error"} : Goto(s, step)
        BY <1>5 DEF StopStep, StopBegins, StopFindsNoPid, Refused, Delivered, StopFindsPid,
                    StopMoves,
                    StopTerminates, StopKills, StopSignals, StopReceives,
                    StopEarlyElapses, StopTicks, StopTimesOut, StopGivesUp, StopReturns,
                    StopCtxDone, Succeed, Return, StopSteps
    <2> QED
        BY <2>1, <2>2 DEF StopSteps
  <1>6. ASSUME NEW s \in Stoppers, StopCalled(s)
        PROVE  StoppedInTime' /\ \A d \in Cmd : ~Spawned(d)
      BY <1>6 DEF StopCalled
  <1>7. CASE ResetRestartCounters \/ RequestEnds \/ AppCancelled
      BY <1>7 DEF ResetRestartCounters, RequestEnds, AppCancelled, Cancel
  <1>8. CASE UNCHANGED vars
      BY <1>8 DEF vars
  <1> QED
      BY <1>2, <1>3, <1>4, <1>5, <1>6, <1>7, <1>8 DEF Next

\* A stop that comes before anybody has read the state Running, or begun a Start, is final,
\* whatever exit events and stale decisions are still about.
THEOREM StoppedInTimeIsFinal == Spec => StopIsForGood
  <1>1. IInv /\ [Next]_vars =>
            [StoppedInTime => StoppedInTime' /\ \A c \in Cmd : ~Spawned(c)]_vars
      BY StoppedStep
  <1> QED
      BY <1>1, Inductive, PTL DEF Spec, StopIsForGood

\* A Stop that finds the instance running is final, whatever it returns: from its first
\* critical section on no child is started any more.
THEOREM WaitingStopIsFinal ==
    Spec => []((\E s \in StopCaller : Stopping(s)) => [][\A c \in Cmd : ~Spawned(c)]_vars)
  <1>1. IInv /\ (\E s \in StopCaller : Stopping(s)) => StoppedInTime
      BY DEF IInv, StopHolds, StoppedInTime
  <1>2. IInv /\ StoppedInTime /\ [Next]_vars => StoppedInTime'
      BY StoppedStep
  <1>3. IInv /\ StoppedInTime /\ [Next]_vars => [\A c \in Cmd : ~Spawned(c)]_vars
      BY StoppedStep
  <1> QED
      BY <1>1, <1>2, <1>3, Inductive, PTL DEF Spec

-----------------------------------------------------------------------------
(* The goroutines implement Lifecycle.                                     *)

LEMMA InitPhase == Init => L!Init
  BY ActorsAssumption DEF Init, L!Init, phase, Pending, Handling, Actor

\* A step that leaves the places of the entitlement alone leaves the phase alone.
LEMMA PhaseUnchanged ==
    ASSUME UNCHANGED exitChan,
           \A c \in Cmd : Pending(c)' = Pending(c),
           \A a \in Actor : Handling(a)' = Handling(a)
    PROVE  phase' = phase
  <1>1. (\E c \in Cmd : Pending(c))' <=> \E c \in Cmd : Pending(c)
      OBVIOUS
  <1>2. (\E a \in Actor : Handling(a))' <=> \E a \in Actor : Handling(a)
      OBVIOUS
  <1> QED
      BY <1>1, <1>2 DEF phase

LEMMA NextPhase == IInv /\ IInv' /\ [Next]_vars => [L!Next]_phase
  <1> SUFFICES ASSUME IInv, IInv', [Next]_vars PROVE [L!Next]_phase
      OBVIOUS
  <1> USE ActorsAssumption
      DEF IInv, TypeOK, Pending, Handling, Actor, StopCaller, Goto,
          procVars, childVars, actorVars
  <1>1. ASSUME NEW c \in Cmd, ChildStep(c) PROVE [L!Next]_phase
    <2>1. CASE WaiterSends(c)
      <3>1. phase = "up"
          BY <2>1 DEF WaiterSends, phase
      <3>2. phase' = "exited"
          BY <2>1 DEF WaiterSends, phase, OneIncarnation
      <3> QED
          BY <3>1, <3>2 DEF L!Next, L!Exit
    <2>2. CASE ~WaiterSends(c)
      <3>1. /\ UNCHANGED <<exitChan, pc>>
            /\ \A d \in Cmd : Pending(d)' = Pending(d)
          BY <1>1, <2>2 DEF ChildStep, ChildExits, ChildKilled, CtxKills, Die,
                            WaiterReaps, WaiterLocks
      <3> QED
          BY <3>1, PhaseUnchanged
    <2> QED
        BY <2>1, <2>2
  <1>2. ASSUME NEW a \in {Starter} \cup Monitors, StartStep(a) PROVE [L!Next]_phase
    <2>1. CASE StartSpawns(a)
      <3>1. phase = "starting"
          BY <2>1 DEF StartSpawns, phase, OneIncarnation
      <3>2. phase' = "up"
          BY <2>1 DEF StartSpawns, phase
      <3> QED
          BY <3>1, <3>2 DEF L!Next, L!Spawn
    <2>2. CASE StartFails(a)
      <3>1. phase = "starting"
          BY <2>2 DEF StartFails, phase, OneIncarnation
      <3>2. phase' = "over"
          BY <2>2 DEF StartFails, StartError, phase, OneIncarnation
      <3> QED
          BY <3>1, <3>2 DEF L!Next, L!GiveUp
    <2>3. CASE StartBegins(a) \/ StartReady(a) \/ StartAbandoned(a) \/ LateReady(a)
      <3>1. /\ UNCHANGED <<exitChan, child>>
            /\ \A b \in Actor : Handling(b)' = Handling(b)
          BY <2>3 DEF StartBegins, StartReady, StartAbandoned, LateReady, StartError
      <3> QED
          BY <3>1, PhaseUnchanged
    <2> QED
        BY <1>2, <2>1, <2>2, <2>3 DEF StartStep
  <1>3. ASSUME NEW m \in Monitors, MonitorStep(m) PROVE [L!Next]_phase
    <2>1. CASE MonitorReceives(m)
      <3>1. phase = "exited"
          BY <2>1 DEF MonitorReceives, phase, OneIncarnation
      <3>2. phase' = "starting"
          BY <2>1 DEF MonitorReceives, phase, OneIncarnation
      <3> QED
          BY <3>1, <3>2 DEF L!Next, L!Restart
    <2>2. CASE MonitorReadsState(m) \/ MonitorCountsFailure(m) \/ BackoffInterrupted(m)
      <3>1. phase = "starting"
          BY <2>2 DEF MonitorReadsState, MonitorCountsFailure, BackoffInterrupted, phase,
                      OneIncarnation
      <3>2. phase' = IF Handling(m)' THEN "starting" ELSE "over"
          BY <2>2 DEF MonitorReadsState, MonitorCountsFailure, BackoffInterrupted, phase,
                      OneIncarnation
      <3> QED
          BY <3>1, <3>2 DEF L!Next, L!GiveUp
    <2>3. CASE \/ MonitorCalled(m) \/ MonitorCancelled(m) \/ MonitorDone(m)
               \/ BackoffElapses(m) \/ MonitorCleanExit(m)
               \/ MonitorCountsStartError(m) \/ MonitorRestarted(m)
      <3>1. /\ UNCHANGED <<exitChan, child>>
            /\ \A b \in Actor : Handling(b)' = Handling(b)
          BY <2>3 DEF MonitorCalled, MonitorCancelled, MonitorDone, BackoffElapses,
                      MonitorCleanExit, MonitorCountsStartError, MonitorRestarted
      <3> QED
          BY <3>1, PhaseUnchanged
    <2> QED
        BY <1>3, <2>1, <2>2, <2>3 DEF MonitorStep
  <1>4. ASSUME NEW s \in StopCaller, StopReceives(s) PROVE [L!Next]_phase
    <2>1. phase = "exited"
        BY <1>4 DEF StopReceives, phase, OneIncarnation
    <2>2. phase' = "over"
        BY <1>4 DEF StopReceives, phase, OneIncarnation
    <2> QED
        BY <2>1, <2>2 DEF L!Next, L!GiveUp
  <1>5. ASSUME NEW s \in StopCaller, StopBegins(s) PROVE [L!Next]_phase
    <2>1. running => exitChan = "none"
        BY DEF RunningTracksChild, OneIncarnation
    <2>2. UNCHANGED <<exitChan, child>>
        BY <1>5, <2>1 DEF StopBegins
    <2>3. \A b \in Actor : Handling(b)' = Handling(b)
        BY <1>5 DEF StopBegins, Succeed, Return
    <2> QED
        BY <2>2, <2>3, PhaseUnchanged
  <1>6. ASSUME NEW s \in StopCaller,
               \/ StopFindsNoPid(s) \/ StopFindsPid(s) \/ StopTerminates(s)
               \/ StopEarlyElapses(s) \/ StopTicks(s) \/ StopTimesOut(s)
               \/ StopKills(s) \/ StopGivesUp(s) \/ StopReturns(s) \/ StopCtxDone(s)
        PROVE [L!Next]_phase
    <2>1. UNCHANGED <<exitChan, child>>
        BY <1>6 DEF StopFindsNoPid, Refused, Delivered, StopFindsPid, StopMoves, StopTerminates,
                    StopKills,
                    StopSignals, StopEarlyElapses, StopTicks, StopTimesOut, StopGivesUp,
                    StopReturns, StopCtxDone
    <2>2. /\ pc[s] \in StopSteps
          /\ \E step \in StopSteps \cup {"returned", "stopped", "error"} : Goto(s, step)
        BY <1>6 DEF StopFindsNoPid, Refused, Delivered, StopFindsPid, StopMoves, StopTerminates,
                    StopKills,
                    StopSignals, StopEarlyElapses, StopTicks, StopTimesOut, StopGivesUp,
                    StopReturns, StopCtxDone, Return, StopSteps
    <2>3. \A b \in Actor : Handling(b)' = Handling(b)
        BY <2>2 DEF StopSteps
    <2> QED
        BY <2>1, <2>3, PhaseUnchanged
  <1>7. ASSUME NEW s \in Stoppers, StopCalled(s) PROVE [L!Next]_phase
    <2>1. UNCHANGED <<exitChan, child>> /\ \A b \in Actor : Handling(b)' = Handling(b)
        BY <1>7 DEF StopCalled
    <2> QED
        BY <2>1, PhaseUnchanged
  <1>8. CASE ResetRestartCounters \/ RequestEnds \/ AppCancelled \/ UNCHANGED vars
    <2>1. UNCHANGED <<exitChan, child, pc>>
        BY <1>8 DEF ResetRestartCounters, RequestEnds, AppCancelled, Cancel, vars
    <2> QED
        BY <2>1, PhaseUnchanged
  <1> QED
      BY <1>1, <1>2, <1>3, <1>4, <1>5, <1>6, <1>7, <1>8 DEF Next, StopStep

\* The goroutines of an instance implement the abstract lifecycle of its children: they
\* never overlap, each exit is consumed once, and none starts after the entitlement was
\* given up.
THEOREM ImplementsLifecycle == Spec => LifecycleSpec
  BY InitPhase, NextPhase, Inductive, PTL DEF Spec, LifecycleSpec, L!Spec
=============================================================================
