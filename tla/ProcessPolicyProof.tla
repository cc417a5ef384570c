------------------------- MODULE ProcessPolicyProof -------------------------
(***************************************************************************)
(* The restart policy of one instance: what is counted as a failure and    *)
(* how many failures are allowed.  Both theorems assume that restarts work *)
(* (exec does not fail, Start is not abandoned) and that the child runs    *)
(* under the application's context: without these the code keeps neither   *)
(* promise; run ProcessWebStart shows it for the context.                  *)
(***************************************************************************)
EXTENDS ProcessProof

Reliable ==
    /\ StarterCtx = "app"
    /\ Events \cap {"execFails", "slowStart", "appCancel"} = {}

Healthy == Reliable /\ "exit" \notin Events

-----------------------------------------------------------------------------
(* max_restarts.                                                           *)

\* When the budget is spent the entitlement to run a child has been given up.
BudgetInv ==
    /\ cancelled = {}
    /\ \A m \in Monitors : pc[m] # "startErr"
    /\ failureRestarts >= MaxRestarts =>
         /\ exitChan = "none"
         /\ \A c \in Cmd : ~Pending(c)
         /\ \A a \in Actor : ~Handling(a)

LEMMA NextBudget == Reliable /\ IInv /\ BudgetInv /\ [Next]_vars => BudgetInv'
  <1> SUFFICES ASSUME Reliable, IInv, BudgetInv, [Next]_vars PROVE BudgetInv'
      OBVIOUS
  <1> USE ActorsAssumption, MaxRestartsAssumption
      DEF Reliable, IInv, TypeOK, BudgetInv, Pending, Handling, Actor, StopCaller, Goto,
          procVars, childVars, actorVars
  <1>1. ASSUME NEW c \in Cmd, ChildStep(c) PROVE BudgetInv'
      BY <1>1 DEF ChildStep, ChildExits, ChildKilled, CtxKills, Die, WaiterReaps,
                  WaiterLocks, WaiterSends
  <1>2. ASSUME NEW a \in {Starter} \cup Monitors, StartStep(a) PROVE BudgetInv'
    <2>1. /\ ~StartAbandoned(a)
          /\ ~StartFails(a)
        BY DEF StartAbandoned, StartFails, CtxOf
    <2>2. CASE StartBegins(a)
        BY <2>2 DEF StartBegins
    <2>3. CASE StartSpawns(a)
        BY <2>3 DEF StartSpawns
    <2>4. CASE StartReady(a) \/ LateReady(a)
        BY <2>4 DEF StartReady, LateReady
    <2> QED
        BY <1>2, <2>1, <2>2, <2>3, <2>4 DEF StartStep
  <1>3. ASSUME NEW m \in Monitors, MonitorCountsFailure(m) PROVE BudgetInv'
    <2>1. exitChan' = "none" /\ \A c \in Cmd : ~Pending(c)'
        BY <1>3 DEF MonitorCountsFailure, OneIncarnation
    <2>2. failureRestarts' >= MaxRestarts => \A a \in Actor : ~Handling(a)'
        BY <1>3 DEF MonitorCountsFailure, OneIncarnation
    <2> QED
        BY <1>3, <2>1, <2>2 DEF MonitorCountsFailure
  <1>4. ASSUME NEW m \in Monitors, MonitorStep(m), ~MonitorCountsFailure(m)
        PROVE BudgetInv'
      BY <1>4 DEF MonitorStep, MonitorCalled, MonitorCancelled, MonitorDone,
                  MonitorReceives, MonitorReadsState, BackoffElapses,
                  BackoffInterrupted, MonitorCleanExit, MonitorCountsStartError,
                  MonitorRestarted
  <1>5. ASSUME NEW s \in StopCaller, StopStep(s) \/ StopCtxDone(s) PROVE BudgetInv'
    <2>1. UNCHANGED <<child, failureRestarts, cancelled>>
        BY <1>5 DEF StopStep, StopBegins, StopFindsNoPid, Refused, Delivered, StopFindsPid, StopMoves,
                    StopTerminates, StopKills, StopSignals, StopReceives,
                    StopEarlyElapses, StopTicks, StopTimesOut, StopGivesUp, StopReturns,
                    StopCtxDone
    <2>2. exitChan' \in {exitChan, "none"}
        BY <1>5 DEF StopStep, StopBegins, StopFindsNoPid, Refused, Delivered, StopFindsPid, StopMoves,
                    StopTerminates, StopKills, StopSignals, StopReceives,
                    StopEarlyElapses, StopTicks, StopTimesOut, StopGivesUp, StopReturns,
                    StopCtxDone
    <2>3. \E step \in StopSteps \cup {"returned", "stopped", "error"} : Goto(s, step)
        BY <1>5 DEF StopStep, StopBegins, StopFindsNoPid, Refused, Delivered, StopFindsPid, StopMoves,
                    StopTerminates, StopKills, StopSignals, StopReceives,
                    StopEarlyElapses, StopTicks, StopTimesOut, StopGivesUp, StopReturns,
                    StopCtxDone, Succeed, Return, StopSteps
    <2> QED
        BY <2>1, <2>2, <2>3 DEF StopSteps
  <1>6. ASSUME NEW s \in Stoppers, StopCalled(s) PROVE BudgetInv'
      BY <1>6 DEF StopCalled
  <1>7. CASE ResetRestartCounters
      BY <1>7 DEF ResetRestartCounters
  <1>8. ~RequestEnds /\ ~AppCancelled
      BY DEF RequestEnds, AppCancelled
  <1>9. CASE UNCHANGED vars
      BY <1>9 DEF vars
  <1> QED
      BY <1>1, <1>2, <1>3, <1>4, <1>5, <1>6, <1>7, <1>8, <1>9 DEF Next

\* No restart begins once max_restarts failures were counted, for any number of monitors
\* and stop callers.
THEOREM BudgetIsRespected == ASSUME Reliable PROVE Spec => []RestartsWithinBudget
  <1>1. Init => BudgetInv
      BY ActorsAssumption, MaxRestartsAssumption DEF Init, BudgetInv, Actor
  <1>2. IInv /\ BudgetInv /\ [Next]_vars => BudgetInv'
      BY NextBudget, Reliable
  <1>3. IInv /\ BudgetInv => RestartsWithinBudget
      BY MaxRestartsAssumption
      DEF IInv, TypeOK, BudgetInv, RestartsWithinBudget, Handling, Actor
  <1> QED
      BY <1>1, <1>2, <1>3, Inductive, PTL DEF Spec

-----------------------------------------------------------------------------
(* What Stop kills is not a failure.                                       *)

\* A healthy child only dies of a signal, and by then the state is Stopped for good.
HealthyInv ==
    /\ failureRestarts = 0
    /\ cancelled = {}
    /\ \A m \in Monitors :
         pc[m] \notin {"startErr", "failure", "clean", "backoff", "restarted"} \cup StartSteps
    /\ \A m \in Monitors : pc[m] # "off" => pc[Starter] = "started"
    /\ \A s \in Stoppers : pc[s] # "idle" => pc[Starter] = "started"
    /\ state # "Stopped" =>
         /\ exitChan = "none"
         /\ \A c \in Cmd : sig[c] = {} /\ child[c] \in {"gone", "alive"}
         /\ \A m \in Monitors : pc[m] # "exited"
    /\ pc[Starter] \in StartSteps => state # "Stopped"

LEMMA NextHealthy == Healthy /\ IInv /\ HealthyInv /\ [Next]_vars => HealthyInv'
  <1> SUFFICES ASSUME Healthy, IInv, HealthyInv, [Next]_vars PROVE HealthyInv'
      OBVIOUS
  <1> USE ActorsAssumption
      DEF Healthy, Reliable, IInv, TypeOK, HealthyInv, Actor, StopCaller, StartSteps, Goto,
          procVars, childVars, actorVars
  <1>1. ASSUME NEW c \in Cmd, ChildStep(c) PROVE HealthyInv'
      BY <1>1 DEF ChildStep, ChildExits, ChildKilled, CtxKills, Die, WaiterReaps,
                  WaiterLocks, WaiterSends
  <1>2. ASSUME NEW a \in {Starter} \cup Monitors, StartStep(a) PROVE HealthyInv'
    <2>1. /\ ~StartAbandoned(a)
          /\ ~StartFails(a)
        BY DEF StartAbandoned, StartFails, CtxOf
    <2>2. CASE LateReady(a)
        BY <2>2 DEF LateReady
    <2>3. CASE StartBegins(a)
        BY <2>3 DEF StartBegins
    <2>4. CASE StartSpawns(a)
        BY <2>4 DEF StartSpawns
    <2>5. CASE StartReady(a)
        BY <2>5 DEF StartReady
    <2> QED
        BY <1>2, <2>1, <2>2, <2>3, <2>4, <2>5 DEF StartStep
  <1>3. ASSUME NEW m \in Monitors, MonitorStep(m) PROVE HealthyInv'
      BY <1>3 DEF MonitorStep, MonitorCalled, MonitorCancelled, MonitorDone,
                  MonitorReceives, MonitorReadsState, MonitorCountsFailure,
                  BackoffElapses, BackoffInterrupted, MonitorCleanExit,
                  MonitorCountsStartError, MonitorRestarted
  <1>4. ASSUME NEW s \in StopCaller, StopStep(s) \/ StopCtxDone(s) PROVE HealthyInv'
    <2>1. pc[s] \in StopSteps
        BY <1>4 DEF StopStep, StopBegins, StopFindsNoPid, Refused, Delivered, StopFindsPid, StopMoves,
                    StopTerminates, StopKills, StopSignals, StopReceives,
                    StopEarlyElapses, StopTicks, StopTimesOut, StopGivesUp, StopReturns,
                    StopCtxDone, StopSteps
    <2>2. state' = "Stopped"
        BY <1>4 DEF StopHolds, Stopping, StopSteps, StopStep, StopBegins,
                    StopFindsNoPid, Refused, Delivered, StopFindsPid, StopMoves, StopTerminates, StopKills,
                    StopSignals, StopReceives, StopEarlyElapses, StopTicks, StopTimesOut,
                    StopGivesUp, StopReturns, StopCtxDone
    <2>3. UNCHANGED <<failureRestarts, cancelled>>
        BY <1>4 DEF StopStep, StopBegins, StopFindsNoPid, Refused, Delivered, StopFindsPid, StopMoves,
                    StopTerminates, StopKills, StopSignals, StopReceives,
                    StopEarlyElapses, StopTicks, StopTimesOut, StopGivesUp, StopReturns,
                    StopCtxDone
    <2>4. \E step \in StopSteps \cup {"returned", "stopped", "error"} : Goto(s, step)
        BY <1>4 DEF StopStep, StopBegins, StopFindsNoPid, Refused, Delivered, StopFindsPid, StopMoves,
                    StopTerminates, StopKills, StopSignals, StopReceives,
                    StopEarlyElapses, StopTicks, StopTimesOut, StopGivesUp, StopReturns,
                    StopCtxDone, Succeed, Return, StopSteps
    <2>5. pc[Starter] = "started" /\ s # Starter
        BY <2>1 DEF StopSteps
    <2> QED
        BY <2>1, <2>2, <2>3, <2>4, <2>5 DEF StopSteps
  <1>5. ASSUME NEW s \in Stoppers, StopCalled(s) PROVE HealthyInv'
      BY <1>5 DEF StopCalled
  <1>6. CASE ResetRestartCounters
      BY <1>6 DEF ResetRestartCounters
  <1>7. ~RequestEnds /\ ~AppCancelled
      BY DEF RequestEnds, AppCancelled
  <1>8. CASE UNCHANGED vars
      BY <1>8 DEF vars
  <1> QED
      BY <1>1, <1>2, <1>3, <1>4, <1>5, <1>6, <1>7, <1>8 DEF Next

\* A child that does not fail by itself is never counted as failed, however many Stops
\* signal it and whenever its monitor learns of its exit.
THEOREM HealthyIsNeverCounted == ASSUME Healthy PROVE Spec => []HealthyNeverCounted
  <1>1. Init => HealthyInv
      BY ActorsAssumption DEF Init, HealthyInv, Actor, StartSteps
  <1>2. IInv /\ HealthyInv /\ [Next]_vars => HealthyInv'
      BY NextHealthy, Healthy
  <1>3. HealthyInv => HealthyNeverCounted
      BY DEF HealthyInv, HealthyNeverCounted
  <1> QED
      BY <1>1, <1>2, <1>3, Inductive, PTL DEF Spec
=============================================================================
