---------------------------- MODULE ProgramProof ----------------------------
(***************************************************************************)
(* Theorems about the program from LoadConfig to its exit, for any names   *)
(* of groups, any number of entries and requests and any environment       *)
(* events.  The inductive invariant is ProgramInv of module Program.       *)
(***************************************************************************)
EXTENDS Program, SequenceTheorems, TLAPS

-----------------------------------------------------------------------------
(* Type correctness.                                                       *)

\* LoadConfig changes entries in place, and the loop over them drops the first.
LEMMA ConfigTypes ==
    ASSUME config \in BoundedSeq(Entry, MaxEntries)
    PROVE  /\ [i \in DOMAIN config |->
                 [config[i] EXCEPT !.numProcs = IF @ = 0 THEN 1 ELSE @]]
                \in BoundedSeq(Entry, MaxEntries)
           /\ config # <<>> => /\ Head(config) \in Entry
                               /\ Tail(config) \in BoundedSeq(Entry, MaxEntries)
  <1>1. PICK m \in 0..MaxEntries : config \in [1..m -> Entry]
      BY DEF BoundedSeq, SeqOf
  <1>2. \A f \in [1..m -> Entry] : f \in BoundedSeq(Entry, MaxEntries)
      BY <1>1 DEF BoundedSeq, SeqOf
  <1>3. \A i \in 1..m : [config[i] EXCEPT !.numProcs = IF @ = 0 THEN 1 ELSE @] \in Entry
      BY <1>1 DEF Entry
  <1>4. config # <<>> => m # 0
      BY <1>1
  <1>5. ASSUME config # <<>>
        PROVE  Head(config) \in Entry /\ Tail(config) \in BoundedSeq(Entry, MaxEntries)
    <2>1. config \in Seq(Entry) /\ Len(config) = m /\ m \in Nat \ {0}
        BY <1>1, <1>4, <1>5, ProgramAssumption
    <2>2. /\ Head(config) \in Entry
          /\ Tail(config) \in Seq(Entry) /\ Len(Tail(config)) = m - 1
        BY <1>5, <2>1, HeadTailProperties
    <2>3. Tail(config) \in [1..(m - 1) -> Entry]
        BY <2>2, LenProperties
    <2>4. m - 1 \in 0..MaxEntries
        BY <1>1, <2>1, ProgramAssumption
    <2> QED
        BY <2>2, <2>3, <2>4 DEF BoundedSeq, SeqOf
  <1> QED
      BY <1>1, <1>2, <1>3, <1>5

\* A call of ProcessGroup.Start, of StopCopies, of a forced stop and of StopEnds keeps
\* the types of what it changes.
LEMMA StartTypes ==
    ASSUME TypeOK, NEW c \in Caller, NEW g \in Name, Start(c, g)
    PROVE  /\ table' \in [Name -> Caller \cup {Absent, Nobody}]
           /\ unit' \in [Unit -> Phases] /\ late' \subseteq Unit
           /\ UNCHANGED <<config, telling, server, hub, signalled, expired, cancelled>>
  <1>1. <<c, g>> \in Unit
      BY DEF Unit
  <1>2. Late(<<c, g>>) \subseteq Unit
      BY <1>1 DEF Late
  <1>3. PICK after \in {"up", "gone", "lost"} : unit' = [unit EXCEPT ![<<c, g>>] = after]
      BY Zenon DEF Start, LostIf
  <1> QED
      BY <1>1, <1>2, <1>3 DEF Start, TypeOK, Phases

LEMMA StopCopiesTypes ==
    ASSUME TypeOK, NEW c \in Caller, NEW g \in Name, table[g] \in Caller, StopCopies(c, g)
    PROVE  /\ call' \in [Caller -> CallStates] /\ telling' \subseteq Caller \X Unit
           /\ UNCHANGED <<config, table, unit, late, server, hub,
                          signalled, expired, cancelled>>
  <1>1. Current(g) \in Unit
      BY DEF Current, Unit
  <1>2. [pc |-> "wait", name |-> g, target |-> Current(g), failed |-> FALSE] \in CallStates
      BY <1>1 DEF CallStates
  <1> QED
      BY <1>1, <1>2 DEF StopCopies, TypeOK

LEMMA ForcedStopTypes ==
    ASSUME TypeOK, NEW u, ForcedStop(u)
    PROVE  /\ unit' \in [Unit -> Phases]
           /\ \A v \in Unit \ {u} : unit'[v] = unit[v]
           /\ u \in Unit => IF Running(u) THEN unit'[u] \in {"told", "lost", "gone"}
                                         ELSE unit'[u] = unit[u]
  <1>1. PICK after :
          /\ IF Running(u) THEN after \in {"told", "lost", "gone"} ELSE after = unit[u]
          /\ unit' = [unit EXCEPT ![u] = after]
      BY Zenon DEF ForcedStop, Signalled, LostIf
  <1> QED
      BY <1>1 DEF TypeOK, Phases

LEMMA StopForcesTypes ==
    ASSUME TypeOK, NEW c \in Caller, StopForces(c) \/ ForcedStopHangs(c)
    PROVE  /\ unit' \in [Unit -> Phases] /\ call' \in [Caller -> CallStates]
           /\ \A d \in Caller \ {c} : call'[d] = call[d]
           /\ UNCHANGED <<config, table, late, telling, server, hub,
                          signalled, expired, cancelled>>
  <1>1. CASE StopForces(c)
    <2>1. PICK failed \in BOOLEAN :
            call' = [call EXCEPT ![c].pc = "force", ![c].failed = failed]
        BY <1>1 DEF StopForces
    <2>2. [call[c] EXCEPT !.pc = "force", !.failed = failed] \in CallStates
        BY DEF TypeOK, CallStates
    <2>3. call' \in [Caller -> CallStates] /\ \A d \in Caller \ {c} : call'[d] = call[d]
        BY <2>1, <2>2 DEF TypeOK
    <2> QED
        BY <1>1, <2>3 DEF StopForces, TypeOK
  <1>2. CASE ForcedStopHangs(c)
      BY <1>2, ForcedStopTypes DEF ForcedStopHangs, TypeOK, CallStates
  <1> QED
      BY <1>1, <1>2

LEMMA StopEndsTypes ==
    ASSUME TypeOK, NEW c \in Caller, NEW ok \in BOOLEAN, StopEnds(c, ok)
    PROVE  /\ unit' \in [Unit -> Phases] /\ call[c].pc \in {"wait", "force"}
           /\ UNCHANGED <<config, table, late, telling, server, hub,
                          signalled, expired, cancelled>>
  BY ForcedStopTypes DEF StopEnds, TypeOK

\* Every step keeps the types; that the requests' groups are started ones is needed for the
\* units that their Stops copy.
LEMMA NextTypeOK ==
    ASSUME TypeOK, GroupsAreStarted, CallOfMain, [Next]_vars
    PROVE  TypeOK'
  <1>1. /\ main \in MainStates /\ call \in [Caller -> CallStates]
        /\ Main \in Caller /\ Request \subseteq Caller
      BY DEF TypeOK, Caller
  <1>2. Idle \in CallStates /\ [Idle EXCEPT !.pc = "done"] \in CallStates
      BY DEF CallStates, Idle
  <1>3. \A g \in Groups : g \in Name /\ (table[g] # Nobody => table[g] \in Caller)
      BY DEF Groups, TypeOK
  <1>4. CASE LoadConfig
    <2>1. server' = server \/ server' = [server EXCEPT !["metrics"] = "listening"]
        BY <1>4 DEF LoadConfig
    <2>2. config' \in BoundedSeq(Entry, MaxEntries)
        BY <1>4, ConfigTypes DEF LoadConfig, TypeOK
    <2>3. main' \in MainStates
        BY <1>1, <1>4 DEF LoadConfig, Goto, MainStates
    <2> QED
        BY <1>4, <2>1, <2>2, <2>3 DEF LoadConfig, TypeOK
  <1>5. CASE AddProcessGroup
    <2>1. /\ config' \in BoundedSeq(Entry, MaxEntries)
          /\ table' \in [Name -> Caller \cup {Absent, Nobody}]
      <3>1. Head(config).name \in Name
          BY <1>5, ConfigTypes DEF AddProcessGroup, TypeOK, Entry
      <3> QED
          BY <1>5, <3>1, ConfigTypes DEF AddProcessGroup, TypeOK
    <2>2. main' \in MainStates
        BY <1>1, <1>5 DEF AddProcessGroup, Crash, MainStates
    <2> QED
        BY <1>5, <2>1, <2>2 DEF AddProcessGroup, TypeOK
  <1>6. CASE StartNext
    <2>1. PICK g \in main.todo : Start(Main, g) /\ main' = [main EXCEPT !.todo = @ \ {g}]
        BY <1>6 DEF StartNext
    <2>2. g \in Name /\ main' \in MainStates
        BY <1>1, <2>1 DEF MainStates
    <2> QED
        BY <1>1, <1>6, <2>1, <2>2, StartTypes DEF StartNext, TypeOK
  <1>7. CASE StopNext
    <2>1. PICK g \in main.todo : StopCopies(Main, g) /\ main' = [main EXCEPT !.todo = @ \ {g}]
        BY <1>7 DEF StopNext
    <2>2. main' \in MainStates
        BY <1>1, <2>1 DEF MainStates
    <2>3. g \in Name /\ table[g] \in Caller
        BY <1>3, <1>7, <2>1 DEF StopNext, GroupsAreStarted
    <2> QED
        BY <1>1, <2>1, <2>2, <2>3, StopCopiesTypes DEF TypeOK
  <1>8. CASE StopReturns
    <2>1. PICK ok \in BOOLEAN :
            /\ StopEnds(Main, ok)
            /\ main' = IF ok THEN main ELSE [main EXCEPT !.errors = @ \cup {call[Main].name}]
        BY <1>8 DEF StopReturns
    <2>2. call[Main].name \in Name
        BY <1>3, <2>1 DEF StopEnds, CallOfMain
    <2>3. main' \in MainStates
        BY <1>1, <2>1, <2>2 DEF MainStates
    <2>4. call' \in [Caller -> CallStates]
        BY <1>1, <1>2, <1>8 DEF StopReturns
    <2> QED
        BY <1>1, <2>1, <2>3, <2>4, StopEndsTypes DEF TypeOK
  <1>9. ASSUME NEW r \in Request, NEW g \in Name, RequestArrives(r, g) PROVE TypeOK'
    <2>1. PICK step \in {"start", "stop"} :
            call' = [call EXCEPT ![r].pc = step, ![r].name = g]
        BY <1>9 DEF RequestArrives
    <2>2. call' \in [Caller -> CallStates]
        BY <1>1, <2>1 DEF CallStates
    <2> QED
        BY <1>9, <2>2 DEF RequestArrives, TypeOK
  <1>10. ASSUME NEW r \in Request, RequestStarts(r) PROVE TypeOK'
    <2>1. call' \in [Caller -> CallStates]
        BY <1>1, <1>2, <1>10 DEF RequestStarts
    <2>2. call[r].name \in Name /\ r \in Caller
        BY <1>1, <1>3, <1>10 DEF RequestStarts, GroupsAreStarted
    <2>3. CASE Start(r, call[r].name)
        BY <1>10, <2>1, <2>2, <2>3, StartTypes DEF RequestStarts, TypeOK
    <2>4. CASE UNCHANGED <<config, table, unit, late, telling, server, hub,
                           signalled, expired, cancelled>>
        BY <1>10, <2>1, <2>4 DEF RequestStarts, TypeOK
    <2> QED
        BY <1>10, <2>3, <2>4 DEF RequestStarts
  <1>11. ASSUME NEW r \in Request, RequestStops(r) PROVE TypeOK'
    <2>1. call[r].name \in Groups /\ table[call[r].name] \in Caller
        BY <1>3, <1>11 DEF RequestStops, GroupsAreStarted
    <2>2. /\ call' \in [Caller -> CallStates] /\ telling' \subseteq Caller \X Unit
          /\ UNCHANGED <<config, table, unit, late, server, hub, signalled, expired, cancelled>>
        BY <1>1, <1>3, <1>11, <2>1, StopCopiesTypes DEF RequestStops
    <2> QED
        BY <1>11, <2>2 DEF RequestStops, TypeOK
  <1>12. ASSUME NEW r \in Request, RequestStopped(r) PROVE TypeOK'
    <2>1. PICK ok \in BOOLEAN :
            /\ StopEnds(r, ok)
            /\ call' = [call EXCEPT ![r].pc = IF ok /\ r \in Restarts THEN "start" ELSE "done",
                                    ![r].target = Nobody, ![r].failed = FALSE]
        BY <1>12 DEF RequestStopped
    <2>2. PICK step \in {"start", "done"} :
            call' = [call EXCEPT ![r].pc = step, ![r].target = Nobody, ![r].failed = FALSE]
        BY <2>1
    <2>3. call' \in [Caller -> CallStates]
        BY <1>1, <2>2 DEF CallStates
    <2> QED
        BY <1>1, <1>12, <2>1, <2>3, StopEndsTypes DEF RequestStopped, TypeOK
  <1>13. ASSUME NEW u \in Unit, UnitMoves(u) PROVE TypeOK'
    <2>1. PICK after \in Phases :
            /\ unit' = [unit EXCEPT ![u] = after]
            /\ late' = IF unit[u] = "racing" /\ after = "up" THEN late \cup Late(u) ELSE late
        BY <1>13, Zenon DEF UnitMoves, Phases, LostIf
    <2>2. late' \subseteq Unit
        BY <2>1 DEF Late, TypeOK
    <2> QED
        BY <1>13, <2>1, <2>2 DEF UnitMoves, TypeOK
  <1> USE ProgramAssumption
      DEF TypeOK, Goto, Crash, StopsHub, CloseListener, Drained, MainStates, HubStates, Phases
  <1>14. CASE StartAll
      BY <1>14 DEF StartAll, Groups
  <1>15. CASE MonitorAll
      BY <1>15 DEF MonitorAll
  <1>16. CASE Serve
      BY <1>16 DEF Serve
  <1>17. CASE AwaitSignal
      BY <1>17 DEF AwaitSignal, Groups
  <1>18. CASE StopAllReturns
      BY <1>18 DEF StopAllReturns
  <1>19. CASE StopHub
      BY <1>19 DEF StopHub
  <1>20. CASE StopWeb
      BY <1>20 DEF StopWeb
  <1>21. CASE StopMetrics
      BY <1>21 DEF StopMetrics
  <1>22. CASE Return
      BY <1>22 DEF Return
  <1>23. CASE HubCancelled
      BY <1>23 DEF HubCancelled
  <1>24. CASE Listen
      BY <1>24 DEF Listen
  <1>25. ASSUME NEW c \in Caller, NEW u \in Unit, Tell(c, u) PROVE TypeOK'
      BY <1>25 DEF Tell, Signalled, LostIf
  <1>31. ASSUME NEW c \in Caller, StopForces(c) \/ ForcedStopHangs(c), UNCHANGED main
         PROVE  TypeOK'
      BY <1>31, StopForcesTypes
  <1>32. CASE StopAllForces \/ \E r \in Request : RequestForces(r)
      BY <1>1, <1>31, <1>32 DEF StopAllForces, RequestForces
  <1>26. CASE Signal
      BY <1>26 DEF Signal
  <1>27. CASE Deadline
      BY <1>27 DEF Deadline
  <1>28. CASE ScrapeEnds
      BY <1>28 DEF ScrapeEnds
  <1>29. CASE PeerStalls \/ HubGetsStuck
      BY <1>29 DEF PeerStalls, HubGetsStuck
  <1>30. CASE UNCHANGED vars
      BY <1>30 DEF vars
  <1> QED
      BY <1>4, <1>5, <1>6, <1>7, <1>8, <1>9, <1>10, <1>11, <1>12, <1>13, <1>14,
         <1>15, <1>16, <1>17, <1>18, <1>19, <1>20, <1>21, <1>22, <1>23, <1>24, <1>25,
         <1>26, <1>27, <1>28, <1>29, <1>30, <1>32
      DEF Next, MainStep

\* Groups are added, then started, and only then served: no step gives a request a group that
\* StartAll has not been through.
LEMMA GroupsAreStartedKept ==
    ASSUME ProgramInv, TypeOK', [Next]_vars
    PROVE  GroupsAreStarted'
  <1>1. /\ main \in MainStates /\ call \in [Caller -> CallStates]
        /\ main' \in MainStates /\ call' \in [Caller -> CallStates]
        /\ Main \in Caller /\ Request \subseteq Caller
      BY DEF ProgramInv, TypeOK, Caller
  <1> USE ProgramAssumption
      DEF ProgramInv, TypeOK, MainStates, CallStates, HubStates, GroupsAreStarted, Groups
  <1>2. CASE LoadConfig \/ AddProcessGroup
      BY <1>1, <1>2 DEF LoadConfig, AddProcessGroup, Goto, Crash
  <1>3. CASE StartAll
      BY <1>1, <1>3 DEF StartAll
  <1>4. CASE AwaitSignal
      BY <1>1, <1>4 DEF AwaitSignal
  <1>5. CASE MonitorAll \/ Serve \/ StopAllReturns
      BY <1>1, <1>5 DEF MonitorAll, Serve, StopAllReturns, Goto
  <1>6. CASE StartNext
      BY <1>1, <1>6 DEF StartNext, Start
  <1>7. CASE StopNext
      BY <1>1, <1>7 DEF StopNext, StopCopies
  <1>8. CASE StopReturns
      BY <1>1, <1>8 DEF StopReturns, StopEnds
  <1>9. CASE StopHub \/ HubCancelled
      BY <1>1, <1>9 DEF StopHub, HubCancelled, StopsHub, Crash, Goto
  <1>10. CASE StopWeb \/ StopMetrics \/ Return
      BY <1>1, <1>10 DEF StopWeb, StopMetrics, Return, CloseListener, Drained, Goto
  <1>11. CASE Listen \/ Signal \/ Deadline \/ ScrapeEnds \/ PeerStalls \/ HubGetsStuck
      BY <1>1, <1>11 DEF Listen, Signal, Deadline, ScrapeEnds, PeerStalls, HubGetsStuck, Goto
  <1>12. ASSUME NEW r \in Request, NEW g \in Name, RequestArrives(r, g) PROVE GroupsAreStarted'
      BY <1>1, <1>12 DEF RequestArrives
  <1>13. ASSUME NEW r \in Request, RequestStarts(r) PROVE GroupsAreStarted'
      BY <1>1, <1>13 DEF RequestStarts, Start
  <1>14. ASSUME NEW r \in Request, RequestStops(r) PROVE GroupsAreStarted'
      BY <1>1, <1>14 DEF RequestStops, StopCopies
  <1>15. ASSUME NEW r \in Request, RequestStopped(r) PROVE GroupsAreStarted'
      BY <1>1, <1>15 DEF RequestStopped, StopEnds
  <1>19. ASSUME NEW c \in Caller, StopForces(c) \/ ForcedStopHangs(c), UNCHANGED main
         PROVE  GroupsAreStarted'
    <2>1. /\ UNCHANGED <<table, server>> /\ \A d \in Caller \ {c} : call'[d] = call[d]
          /\ call[c].pc \in {"wait", "force"}
        BY <1>19, StopForcesTypes DEF StopForces, ForcedStopHangs
    <2>2. call'[c].name = call[c].name
      <3>1. call' = [call EXCEPT ![c].pc = "held"] => call'[c].name = call[c].name
          BY <1>1
      <3>2. ASSUME NEW failed \in BOOLEAN,
                   call' = [call EXCEPT ![c].pc = "force", ![c].failed = failed]
            PROVE  call'[c].name = call[c].name
          BY <1>1, <3>2
      <3> QED
          BY <1>19, <3>1, <3>2 DEF StopForces, ForcedStopHangs
    <2>3. main.pc \notin {"load", "add"}
        BY <1>1, <2>1 DEF CallOfMain, Caller
    <2> QED
        BY <1>1, <1>19, <2>1, <2>2, <2>3 DEF CallOfMain, Caller
  <1>20. CASE StopAllForces \/ \E r \in Request : RequestForces(r)
      BY <1>1, <1>19, <1>20 DEF StopAllForces, RequestForces
  <1>16. ASSUME NEW u \in Unit, UnitMoves(u) PROVE GroupsAreStarted'
      BY <1>1, <1>16 DEF UnitMoves
  <1>17. ASSUME NEW c \in Caller, NEW u \in Unit, Tell(c, u) PROVE GroupsAreStarted'
    <2>1. PICK after : /\ unit[u] = "none" => after = unit[u]
                       /\ unit' = [unit EXCEPT ![u] = after]
        BY <1>17, Zenon DEF Tell, Running
    <2> QED
        BY <1>1, <1>17, <2>1 DEF Tell
  <1>18. CASE UNCHANGED vars
      BY <1>1, <1>18 DEF vars
  <1> QED
      BY <1>2, <1>3, <1>4, <1>5, <1>6, <1>7, <1>8, <1>9, <1>10, <1>11, <1>12, <1>13, <1>14,
         <1>15, <1>16, <1>17, <1>18, <1>20
      DEF Next, MainStep

\* main's own Stop is under way only in StopAll, and for a group off its list.
LEMMA CallOfMainKept ==
    ASSUME ProgramInv, TypeOK', [Next]_vars
    PROVE  CallOfMain'
  <1>1. /\ main \in MainStates /\ call \in [Caller -> CallStates]
        /\ main' \in MainStates /\ call' \in [Caller -> CallStates]
        /\ Main \in Caller /\ Request \subseteq Caller
      BY DEF ProgramInv, TypeOK, Caller
  <1> USE ProgramAssumption
      DEF ProgramInv, TypeOK, MainStates, CallStates, HubStates, CallOfMain, Groups
  <1>2. CASE LoadConfig \/ AddProcessGroup
      BY <1>1, <1>2 DEF LoadConfig, AddProcessGroup, Goto, Crash
  <1>3. CASE StartAll
      BY <1>1, <1>3 DEF StartAll
  <1>4. CASE AwaitSignal
      BY <1>1, <1>4 DEF AwaitSignal
  <1>5. CASE MonitorAll \/ Serve \/ StopAllReturns
      BY <1>1, <1>5 DEF MonitorAll, Serve, StopAllReturns, Goto
  <1>6. CASE StartNext
      BY <1>1, <1>6 DEF StartNext, Start
  <1>7. CASE StopNext
    <2>1. PICK g \in main.todo : StopCopies(Main, g) /\ main' = [main EXCEPT !.todo = @ \ {g}]
        BY <1>7 DEF StopNext, StopCopies
    <2>2. call'[Main].pc = "wait" /\ call'[Main].name = g /\ main.pc = "stopAll"
        BY <1>1, <1>7, <2>1 DEF StopNext, StopCopies
    <2>3. g \in Groups' /\ g \notin main'.todo /\ main'.pc = "stopAll"
        BY <1>1, <1>7, <2>1 DEF StopNext, StopCopies, GroupsAreStarted
    <2> QED
        BY <2>2, <2>3
  <1>8. CASE StopReturns
      BY <1>1, <1>8 DEF StopReturns, Idle
  <1>9. CASE StopHub \/ HubCancelled
      BY <1>1, <1>9 DEF StopHub, HubCancelled, StopsHub, Crash, Goto, ShutdownProceeds, Ended
  <1>10. CASE StopWeb \/ StopMetrics \/ Return
      BY <1>1, <1>10 DEF StopWeb, StopMetrics, Return, CloseListener, Drained, Goto
  <1>11. CASE Listen \/ Signal \/ Deadline \/ ScrapeEnds \/ PeerStalls \/ HubGetsStuck
      BY <1>1, <1>11 DEF Listen, Signal, Deadline, ScrapeEnds, PeerStalls, HubGetsStuck, Goto
  <1>12. ASSUME NEW r \in Request, NEW g \in Name, RequestArrives(r, g) PROVE CallOfMain'
      BY <1>1, <1>12 DEF RequestArrives
  <1>13. ASSUME NEW r \in Request, RequestStarts(r) PROVE CallOfMain'
      BY <1>1, <1>13 DEF RequestStarts, Start
  <1>14. ASSUME NEW r \in Request, RequestStops(r) PROVE CallOfMain'
      BY <1>1, <1>14 DEF RequestStops, StopCopies
  <1>15. ASSUME NEW r \in Request, RequestStopped(r) PROVE CallOfMain'
      BY <1>1, <1>15 DEF RequestStopped, StopEnds
  <1>19. ASSUME NEW c \in Caller, StopForces(c) \/ ForcedStopHangs(c), UNCHANGED main
         PROVE  CallOfMain'
      BY <1>1, <1>19 DEF StopForces, ForcedStopHangs
  <1>20. CASE StopAllForces \/ \E r \in Request : RequestForces(r)
      BY <1>1, <1>19, <1>20 DEF StopAllForces, RequestForces
  <1>16. ASSUME NEW u \in Unit, UnitMoves(u) PROVE CallOfMain'
      BY <1>1, <1>16 DEF UnitMoves
  <1>17. ASSUME NEW c \in Caller, NEW u \in Unit, Tell(c, u) PROVE CallOfMain'
      BY <1>1, <1>17 DEF Tell
  <1>18. CASE UNCHANGED vars
      BY <1>1, <1>18 DEF vars
  <1> QED
      BY <1>2, <1>3, <1>4, <1>5, <1>6, <1>7, <1>8, <1>9, <1>10, <1>11, <1>12, <1>13, <1>14,
         <1>15, <1>16, <1>17, <1>18, <1>20
      DEF Next, MainStep

\* The parts of the shutdown follow one another; a request that is served keeps the web
\* server from closing.
LEMMA ShutdownProceedsKept ==
    ASSUME ProgramInv, TypeOK', [Next]_vars
    PROVE  ShutdownProceeds'
  <1>1. /\ main \in MainStates /\ call \in [Caller -> CallStates]
        /\ main' \in MainStates /\ call' \in [Caller -> CallStates]
        /\ Main \in Caller /\ Request \subseteq Caller
      BY DEF ProgramInv, TypeOK, Caller
  <1> USE ProgramAssumption
      DEF ProgramInv, TypeOK, MainStates, CallStates, HubStates, ShutdownProceeds, Serving,
          Stopped
  <1>2. CASE LoadConfig \/ AddProcessGroup
      BY <1>1, <1>2 DEF LoadConfig, AddProcessGroup, Goto, Crash
  <1>3. CASE StartAll
      BY <1>1, <1>3 DEF StartAll
  <1>4. CASE AwaitSignal
      BY <1>1, <1>4 DEF AwaitSignal
  <1>5. CASE MonitorAll \/ Serve \/ StopAllReturns
      BY <1>1, <1>5 DEF MonitorAll, Serve, StopAllReturns, Goto
  <1>6. CASE StartNext
      BY <1>1, <1>6 DEF StartNext, Start
  <1>7. CASE StopNext
      BY <1>1, <1>7 DEF StopNext, StopCopies
  <1>8. CASE StopReturns
      BY <1>1, <1>8 DEF StopReturns, StopEnds
  <1>9. CASE StopHub \/ HubCancelled
      BY <1>1, <1>9 DEF StopHub, HubCancelled, StopsHub, Crash, Goto
  <1>10. CASE StopWeb \/ StopMetrics \/ Return
      BY <1>1, <1>10 DEF StopWeb, StopMetrics, Return, CloseListener, Drained, Goto
  <1>11. CASE Listen \/ Signal \/ Deadline \/ ScrapeEnds \/ PeerStalls \/ HubGetsStuck
      BY <1>1, <1>11 DEF Listen, Signal, Deadline, ScrapeEnds, PeerStalls, HubGetsStuck, Goto
  <1>12. ASSUME NEW r \in Request, NEW g \in Name, RequestArrives(r, g) PROVE ShutdownProceeds'
      BY <1>1, <1>12 DEF RequestArrives
  <1>13. ASSUME NEW r \in Request, RequestStarts(r) PROVE ShutdownProceeds'
      BY <1>1, <1>13 DEF RequestStarts, Start
  <1>14. ASSUME NEW r \in Request, RequestStops(r) PROVE ShutdownProceeds'
      BY <1>1, <1>14 DEF RequestStops, StopCopies
  <1>15. ASSUME NEW r \in Request, RequestStopped(r) PROVE ShutdownProceeds'
      BY <1>1, <1>15 DEF RequestStopped, StopEnds
  <1>19. ASSUME NEW c \in Caller, StopForces(c) \/ ForcedStopHangs(c), UNCHANGED main
         PROVE  ShutdownProceeds'
      BY <1>1, <1>19 DEF StopForces, ForcedStopHangs
  <1>20. CASE StopAllForces \/ \E r \in Request : RequestForces(r)
      BY <1>1, <1>19, <1>20 DEF StopAllForces, RequestForces
  <1>16. ASSUME NEW u \in Unit, UnitMoves(u) PROVE ShutdownProceeds'
      BY <1>1, <1>16 DEF UnitMoves
  <1>17. ASSUME NEW c \in Caller, NEW u \in Unit, Tell(c, u) PROVE ShutdownProceeds'
      BY <1>1, <1>17 DEF Tell
  <1>18. CASE UNCHANGED vars
      BY <1>1, <1>18 DEF vars
  <1> QED
      BY <1>2, <1>3, <1>4, <1>5, <1>6, <1>7, <1>8, <1>9, <1>10, <1>11, <1>12, <1>13, <1>14,
         <1>15, <1>16, <1>17, <1>18, <1>20
      DEF Next, MainStep

\* A step that leaves the stops alone: of a group that main's Stop has not reached, or
\* reached before, it changes nothing the accounting looks at.
LEMMA StopsLeftAlone ==
    ASSUME NEW g \in Name,
           StopIsAccountedFor(g),
           UNCHANGED <<table, unit, late, telling>>,
           call'[Main] = call[Main], main'.errors = main.errors,
           StoppedByMain(g)' \/ (main.pc = "crashed" /\ cancelled)' =>
             StoppedByMain(g) \/ (main.pc = "crashed" /\ cancelled)
    PROVE  StopIsAccountedFor(g)'
  BY DEF StopIsAccountedFor, Current

\* Once there can be requests, every group the manager knows has a current unit.
LEMMA CurrentIsUnit ==
    ASSUME ProgramInv, NEW g \in Groups, server["web"] # "off"
    PROVE  Current(g) \in Unit
  BY DEF ProgramInv, GroupsAreStarted, TypeOK, Groups, Current, Unit

\* Every step keeps the account of every group.
LEMMA StopsAreAccountedFor ==
    ASSUME ProgramInv, TypeOK', [Next]_vars, NEW g \in Groups'
    PROVE  StopIsAccountedFor(g)'
  <1>1. /\ main \in MainStates /\ call \in [Caller -> CallStates]
        /\ Main \in Caller /\ Request \subseteq Caller /\ Main \notin Request
      BY ProgramAssumption DEF ProgramInv, TypeOK, Caller
  <1>0. CallOfMain
      BY DEF ProgramInv
  <1>2. g \in Name
      BY DEF Groups
  <1>3. g \in Groups => StopIsAccountedFor(g)
      BY DEF ProgramInv
  <1>4. UNCHANGED table => g \in Groups
      BY DEF Groups
  <1>5. /\ cancelled => main.pc \in {"return", "exited", "crashed"}
        /\ main.pc = "load" => Groups = {}
      BY DEF ProgramInv, ShutdownProceeds, GroupsAreStarted
  <1>6. CASE LoadConfig \/ Signal
    <2>1. main.pc # "load" => main' = main /\ UNCHANGED cancelled
        BY <1>6 DEF LoadConfig, Signal
    <2>2. UNCHANGED <<table, unit, late, telling, call>> /\ main.pc # "load"
        BY <1>4, <1>5, <1>6 DEF LoadConfig, Signal
    <2> QED
        BY <1>2, <1>3, <1>4, <2>1, <2>2, StopsLeftAlone DEF StoppedByMain
  <1>7. CASE AddProcessGroup
    <2>1. main'.pc \in {"add", "crashed"} /\ ~cancelled'
        BY <1>1, <1>5, <1>7 DEF AddProcessGroup, Crash, MainStates
    <2> QED
        BY <2>1 DEF StopIsAccountedFor, StoppedByMain
  <1>8. CASE StartAll \/ MonitorAll \/ Serve \/ AwaitSignal
    <2>1. /\ UNCHANGED <<table, unit, late, telling, call, cancelled>>
          /\ main.pc \in {"add", "startAll", "serve", "await"}
        BY <1>8 DEF StartAll, MonitorAll, Serve, AwaitSignal
    <2>2. main'.pc \in {"startAll", "serve", "await", "stopAll"}
        BY <1>1, <1>8 DEF StartAll, MonitorAll, Serve, AwaitSignal, Goto, MainStates
    <2>3. main'.pc = "stopAll" => g \in main'.todo
        BY <1>1, <1>4, <1>8, <2>1 DEF StartAll, MonitorAll, Serve, AwaitSignal, Goto, MainStates
    <2> QED
        BY <1>5, <2>1, <2>2, <2>3 DEF StopIsAccountedFor, StoppedByMain
  <1>9. CASE StartNext
    <2>1. main'.pc = "startAll" /\ ~cancelled'
        BY <1>1, <1>5, <1>9 DEF StartNext, Start, MainStates
    <2> QED
        BY <2>1 DEF StopIsAccountedFor, StoppedByMain
  <1>10. CASE StopAllReturns \/ StopHub \/ StopWeb \/ StopMetrics \/ Return
    <2>1. UNCHANGED <<table, unit, late, telling, call>> /\ main'.errors = main.errors
        BY <1>1, <1>10
        DEF StopAllReturns, StopHub, StopsHub, Crash, Goto, StopWeb, StopMetrics,
            CloseListener, Drained, Return, MainStates
    <2>2. StoppedByMain(g)
        BY <1>10 DEF StopAllReturns, StopHub, StopWeb, StopMetrics, Return, StoppedByMain
    <2> QED
        BY <1>2, <1>3, <1>4, <2>1, <2>2, StopsLeftAlone
  <1>11. CASE HubCancelled
    <2>1. UNCHANGED <<table, unit, late, telling, call>> /\ main'.errors = main.errors
        BY <1>1, <1>11 DEF HubCancelled, StopsHub, Crash, Goto, MainStates
    <2>2. StoppedByMain(g)
        BY <1>5, <1>11 DEF HubCancelled, Ended, StoppedByMain
    <2> QED
        BY <1>2, <1>3, <1>4, <2>1, <2>2, StopsLeftAlone
  <1>12. CASE \/ Listen \/ Deadline \/ ScrapeEnds \/ PeerStalls \/ HubGetsStuck
              \/ \E r \in Request, h \in Name : RequestArrives(r, h)
    <2>1. UNCHANGED <<table, unit, late, telling, main, cancelled>> /\ call'[Main] = call[Main]
        BY <1>1, <1>12 DEF Listen, Deadline, ScrapeEnds, PeerStalls, HubGetsStuck, RequestArrives
    <2> QED
        BY <1>2, <1>3, <1>4, <2>1, StopsLeftAlone DEF StoppedByMain
  <1>13. CASE StopNext
    <2>1. PICK h \in main.todo : StopCopies(Main, h) /\ main' = [main EXCEPT !.todo = @ \ {h}]
        BY <1>13 DEF StopNext
    <2>2. /\ UNCHANGED <<table, unit, late, cancelled>>
          /\ telling' = telling \cup {<<Main, Current(h)>>}
          /\ call'[Main] = [pc |-> "wait", name |-> h, target |-> Current(h), failed |-> FALSE]
          /\ call[Main].pc \in {"idle", "stop"}
        BY <1>1, <2>1 DEF StopCopies
    <2>3. /\ main.pc = "stopAll" /\ main'.pc = "stopAll" /\ main'.errors = main.errors
          /\ main'.todo = main.todo \ {h}
        BY <1>1, <1>13, <2>1 DEF StopNext, MainStates
    <2>4. CASE g = h
        BY <2>2, <2>4 DEF StopIsAccountedFor, Current
    <2>5. CASE g # h
        BY <1>3, <1>4, <2>2, <2>3, <2>5 DEF StopIsAccountedFor, Current, StoppedByMain
    <2> QED
        BY <2>4, <2>5
  <1>14. CASE StopReturns
    <2> DEFINE h == call[Main].name
    <2>1. PICK ok \in BOOLEAN :
            /\ StopEnds(Main, ok)
            /\ main' = IF ok THEN main ELSE [main EXCEPT !.errors = @ \cup {h}]
        BY <1>14 DEF StopReturns
    <2>2. /\ main.pc = "stopAll" /\ main'.pc = "stopAll" /\ main'.todo = main.todo
          /\ main.errors \subseteq main'.errors /\ (~ok => h \in main'.errors)
        BY <1>1, <1>14, <2>1 DEF StopReturns, MainStates
    <2>3. /\ UNCHANGED <<table, late, telling, cancelled>> /\ call'[Main].pc = "idle"
          /\ call[Main].pc \in {"wait", "force"}
        BY <1>1, <1>14, <2>1, StopEndsTypes DEF StopReturns, ProgramInv, Idle
    <2>4. Current(h) \in Unit
      <3>1. server["web"] # "off" /\ h \in Groups
          BY <2>2, <2>3 DEF ProgramInv, GroupsAreStarted, CallOfMain
      <3> QED
          BY <3>1, CurrentIsUnit
    <2>7. /\ \A v \in Unit \ {Current(h)} : unit'[v] = unit[v]
          /\ ok => unit'[Current(h)] \notin {"up", "told"}
          /\ IF Running(Current(h)) THEN unit'[Current(h)] \in {"told", "lost", "gone"}
                                    ELSE unit'[Current(h)] = unit[Current(h)]
      <3>1. CASE call[Main].pc = "wait" /\ ~Running(Current(h)) /\ UNCHANGED unit
          BY <3>1 DEF Running
      <3>2. CASE /\ call[Main].pc = "force" /\ ForcedStop(Current(h))
                 /\ ok => unit'[Current(h)] # "told"
          BY <2>4, <3>2, ForcedStopTypes DEF ProgramInv, Running
      <3> QED
          BY <2>1, <3>1, <3>2 DEF StopEnds
    <2>8. ok => \/ call[Main].pc = "wait" /\ <<Main, call[Main].target>> \notin telling
                \/ call[Main].pc = "force" /\ ~call[Main].failed
        BY <2>1 DEF StopEnds, WaitIsOver
    <2>5. CASE g = h
      <3>1. Current(g)' = Current(h) /\ StoppedByMain(g)
          BY <2>2, <2>3, <2>5, <1>0 DEF Current, StoppedByMain, CallOfMain
      <3>2. CASE ~ok
          BY <2>2, <2>5, <3>2 DEF StopIsAccountedFor
      <3>3. CASE ok /\ Current(g) \notin late
        <4>1. \/ unit[Current(g)] \notin {"up", "told", "between"} \/ g \in main.errors
              \/ unit[Current(g)] = "told"
            BY <1>3, <1>4, <2>3, <2>5, <2>8, <3>1, <3>3 DEF StopIsAccountedFor
        <4>2. unit'[Current(g)] \notin {"up", "told", "between"} \/ g \in main'.errors
            BY <2>2, <2>5, <2>7, <3>3, <4>1 DEF Running
        <4> QED
            BY <2>5, <3>1, <4>2 DEF StopIsAccountedFor
      <3>4. CASE Current(g) \in late
          BY <2>3, <2>5, <3>1, <3>4 DEF StopIsAccountedFor
      <3> QED
          BY <3>2, <3>3, <3>4
    <2>6. CASE g # h
      <3>1. Current(g) \in Unit \ {Current(h)}
          BY <1>4, <2>2, <2>3, <2>6, CurrentIsUnit DEF ProgramInv, GroupsAreStarted, Current
      <3> QED
          BY <1>3, <1>4, <2>2, <2>3, <2>6, <2>7, <3>1
          DEF StopIsAccountedFor, Current, StoppedByMain
    <2> QED
        BY <2>5, <2>6
  <1>15. ASSUME NEW r \in Request, RequestStarts(r) PROVE StopIsAccountedFor(g)'
    <2> DEFINE h == call[r].name
    <2>1. main.pc \notin {"exited", "crashed"} /\ UNCHANGED main /\ call'[Main] = call[Main]
        BY <1>1, <1>15 DEF RequestStarts, Ended
    <2>2. UNCHANGED <<telling, cancelled>>
        BY <1>15 DEF RequestStarts, Start
    <2>3. CASE UNCHANGED <<config, table, unit, late, telling, server, hub,
                           signalled, expired, cancelled>>
        BY <1>2, <1>3, <1>4, <2>1, <2>3, StopsLeftAlone DEF StoppedByMain
    <2>4. CASE Start(r, h)
      <3>1. h \in Groups
          BY <1>15 DEF RequestStarts, ProgramInv, GroupsAreStarted
      <3>2. g \in Groups
          BY <2>4, <3>1 DEF Start, Groups, ProgramInv, TypeOK
      <3>3. late' = late \cup Late(<<r, h>>)
          BY <2>4 DEF Start
      <3>4. CASE g = h
        <4>1. Current(g)' = <<r, g>>
            BY <1>2, <2>4, <3>4 DEF Start, Current, ProgramInv, TypeOK
        <4>2. StoppedByMain(g) => <<r, g>> \in late'
            BY <3>3, <3>4 DEF Late
        <4> QED
            BY <2>1, <4>1, <4>2 DEF StopIsAccountedFor, StoppedByMain
      <3>5. CASE g # h
        <4>1. Current(g)' = Current(g) /\ unit'[Current(g)] = unit[Current(g)]
            BY <1>2, <2>4, <3>2, <3>5 DEF Start, Current, Groups, ProgramInv, TypeOK, Unit
        <4> QED
            BY <1>3, <2>1, <2>2, <3>2, <3>3, <4>1 DEF StopIsAccountedFor, StoppedByMain
      <3> QED
          BY <3>4, <3>5
    <2> QED
        BY <1>15, <2>3, <2>4 DEF RequestStarts
  <1>16. ASSUME NEW r \in Request, RequestStops(r) PROVE StopIsAccountedFor(g)'
    <2>1. /\ UNCHANGED <<table, unit, late, main, cancelled>> /\ call'[Main] = call[Main]
          /\ telling \subseteq telling'
        BY <1>1, <1>16 DEF RequestStops, StopCopies
    <2> QED
        BY <1>3, <1>4, <2>1 DEF StopIsAccountedFor, StoppedByMain, Current
  <1>17. ASSUME NEW r \in Request, RequestStopped(r) PROVE StopIsAccountedFor(g)'
    <2>1. PICK ok \in BOOLEAN : StopEnds(r, ok)
        BY <1>17 DEF RequestStopped
    <2>2. /\ UNCHANGED <<table, late, telling, main, cancelled>> /\ call'[Main] = call[Main]
        BY <1>1, <1>17, <2>1, StopEndsTypes DEF RequestStopped, ProgramInv
    <2>3. \A v \in Unit :
            \/ unit'[v] = unit[v]
            \/ Running(v) /\ unit'[v] \in {"told", "lost", "gone"}
        BY <2>1, ForcedStopTypes DEF StopEnds, ProgramInv
    <2>4. Current(g) \in Unit
      <3>1. server["web"] # "off"
          BY <1>1, <2>1, StopEndsTypes DEF ProgramInv, GroupsAreStarted
      <3> QED
          BY <1>4, <2>2, <3>1, CurrentIsUnit
    <2> QED
        BY <1>3, <1>4, <2>2, <2>3, <2>4 DEF StopIsAccountedFor, StoppedByMain, Current, Running
  <1>21. ASSUME NEW c \in Caller, StopForces(c) \/ ForcedStopHangs(c), UNCHANGED main
         PROVE  StopIsAccountedFor(g)'
    <2>1. /\ UNCHANGED <<table, late, telling, cancelled>>
          /\ c # Main => call'[Main] = call[Main]
        BY <1>1, <1>21, StopForcesTypes DEF ProgramInv
    <2> DEFINE h == call[c].name
    <2>2. CASE StopForces(c)
      <3>1. PICK failed \in BOOLEAN :
              /\ WaitIsOver(c, failed)
              /\ call' = [call EXCEPT ![c].pc = "force", ![c].failed = failed]
          BY <2>2 DEF StopForces
      <3>2. UNCHANGED unit /\ call[c].pc = "wait" /\ Running(Current(h))
          BY <2>2 DEF StopForces
      <3>3. CASE c # Main
          BY <1>2, <1>3, <1>4, <1>21, <2>1, <3>2, <3>3, StopsLeftAlone DEF StoppedByMain
      <3>4. CASE c = Main
        <4>1. /\ call'[Main].pc = "force" /\ call'[Main].name = call[Main].name
              /\ call'[Main].failed = failed
            BY <1>1, <3>1, <3>4 DEF CallStates
        <4>2. ~failed => <<Main, call[Main].target>> \notin telling
            BY <3>1, <3>4 DEF WaitIsOver
        <4> QED
            BY <1>3, <1>4, <1>21, <2>1, <3>2, <3>4, <4>1, <4>2
            DEF StopIsAccountedFor, StoppedByMain, Current
      <3> QED
          BY <3>3, <3>4
    <2>3. CASE ForcedStopHangs(c)
      <3>1. /\ call[c].pc = "force" /\ Running(Current(h)) /\ ForcedStop(Current(h))
            /\ unit'[Current(h)] # "told" /\ call' = [call EXCEPT ![c].pc = "held"]
          BY <2>3 DEF ForcedStopHangs
      <3>2. server["web"] # "off"
          BY <1>0, <1>1, <3>1 DEF ProgramInv, GroupsAreStarted, CallOfMain, Caller
      <3>3. h \in Groups
          BY <1>0, <1>1, <3>1 DEF ProgramInv, GroupsAreStarted, CallOfMain, Caller
      <3>4. Current(h) \in Unit
          BY <3>2, <3>3, CurrentIsUnit
      <3>5. Current(g) \in Unit
          BY <1>4, <2>1, <3>2, CurrentIsUnit
      <3>6. /\ unit'[Current(h)] \in {"lost", "gone"}
            /\ \A v \in Unit \ {Current(h)} : unit'[v] = unit[v]
          BY <3>1, <3>4, ForcedStopTypes DEF ProgramInv
      <3>7. CASE g = h
          BY <2>1, <3>6, <3>7 DEF StopIsAccountedFor, Current
      <3>8. CASE g # h
        <4>1. unit'[Current(g)] = unit[Current(g)]
            BY <3>5, <3>6, <3>8 DEF Current
        <4>2. call[Main].name = g => call'[Main] = call[Main]
            BY <2>1, <3>8
        <4>3. call'[Main].name = call[Main].name
            BY <1>1, <2>1, <3>1 DEF CallStates
        <4> QED
            BY <1>3, <1>4, <1>21, <2>1, <4>1, <4>2, <4>3
            DEF StopIsAccountedFor, StoppedByMain, Current
      <3> QED
          BY <3>7, <3>8
    <2> QED
        BY <1>21, <2>2, <2>3
  <1>22. CASE StopAllForces \/ \E r \in Request : RequestForces(r)
      BY <1>1, <1>21, <1>22 DEF StopAllForces, RequestForces
  <1>18. ASSUME NEW v \in Unit, UnitMoves(v) PROVE StopIsAccountedFor(g)'
    <2>1. UNCHANGED <<table, telling, main, call, cancelled>>
        BY <1>18 DEF UnitMoves
    <2>2. PICK after :
            /\ unit' = [unit EXCEPT ![v] = after]
            /\ late' = IF unit[v] = "racing" /\ after = "up" THEN late \cup Late(v) ELSE late
            /\ unit[v] = "none" => FALSE
            /\ unit[v] = "told" => after \in {"gone", "lost"}
            /\ unit[v] = "racing" => after \in {"up", "gone"}
            /\ unit[v] = "lost" => after = "gone"
            /\ unit[v] = "gone" => FALSE
        BY <1>18, Zenon DEF UnitMoves, LostIf
    <2>3. CASE v = Current(g)
      <3>1. v[2] = g
          BY <2>3 DEF Current
      <3>2. StoppedByMain(g) /\ unit[v] = "racing" /\ after = "up" => v \in late'
          BY <2>2, <3>1 DEF Late
      <3>3. unit'[v] = after /\ late \subseteq late'
          BY <2>2 DEF ProgramInv, TypeOK
      <3>4. main.pc # "crashed" /\ Current(g)' = Current(g)
          BY <1>18, <2>1 DEF UnitMoves, Ended, Current
      <3>5. unit[v] \in Phases
          BY DEF ProgramInv, TypeOK
      <3>6. ASSUME StoppedByMain(g), v \notin late'
            PROVE  \/ unit'[v] \notin {"up", "told", "between"}
                   \/ /\ unit[v] \in {"up", "told", "between"}
                      /\ unit[v] = "told" => unit'[v] = "told"
          BY <2>2, <3>2, <3>3, <3>5, <3>6 DEF Phases
      <3> QED
          BY <1>3, <1>4, <2>1, <2>3, <3>3, <3>4, <3>6 DEF StopIsAccountedFor, StoppedByMain
    <2>4. CASE v # Current(g)
      <3>1. unit'[Current(g)] = unit[Current(g)] /\ late \subseteq late'
          BY <2>2, <2>4 DEF ProgramInv, TypeOK
      <3> QED
          BY <1>3, <1>4, <2>1, <3>1 DEF StopIsAccountedFor, StoppedByMain, Current
    <2> QED
        BY <2>3, <2>4
  <1>19. ASSUME NEW c \in Caller, NEW v \in Unit, Tell(c, v) PROVE StopIsAccountedFor(g)'
    <2>1. /\ UNCHANGED <<table, late, main, call, cancelled>>
          /\ telling' = telling \ {<<c, v>>}
        BY <1>19 DEF Tell
    <2>2. PICK after :
            /\ unit' = [unit EXCEPT ![v] = after]
            /\ Running(v) => after \in {"told", "lost"}
            /\ unit[v] = "between" => after \in {"racing", "gone"}
            /\ unit[v] \notin {"up", "told", "between"} => after = unit[v]
        BY <1>19, Zenon DEF Tell, Signalled, LostIf, Running
    <2>3. CASE v = Current(g)
      <3>1. unit'[v] = after /\ unit[v] \in Phases
          BY <2>2 DEF ProgramInv, TypeOK
      <3> QED
          BY <1>3, <1>4, <2>1, <2>2, <2>3, <3>1
          DEF StopIsAccountedFor, StoppedByMain, Current, Phases, Running
    <2>4. CASE v # Current(g)
      <3>1. unit'[Current(g)] = unit[Current(g)]
          BY <2>2, <2>4 DEF ProgramInv, TypeOK
      <3>2. <<Main, Current(g)>> \in telling => <<Main, Current(g)>> \in telling'
          BY <2>1, <2>4
      <3> QED
          BY <1>3, <1>4, <2>1, <3>1, <3>2 DEF StopIsAccountedFor, StoppedByMain, Current
    <2> QED
        BY <2>3, <2>4
  <1>20. CASE UNCHANGED vars
      BY <1>2, <1>3, <1>4, <1>20, StopsLeftAlone DEF vars, StoppedByMain
  <1> QED
      BY <1>6, <1>7, <1>8, <1>9, <1>10, <1>11, <1>12, <1>13, <1>14, <1>15, <1>16, <1>17,
         <1>18, <1>19, <1>20, <1>22
      DEF Next, MainStep

-----------------------------------------------------------------------------
(* The theorems.                                                           *)

LEMMA InitProgramInv == Init => ProgramInv
  <1> SUFFICES ASSUME Init PROVE ProgramInv
      OBVIOUS
  <1>1. TypeOK
      BY ProgramAssumption
      DEF Init, Idle, TypeOK, MainStates, CallStates, HubStates, Phases
  <1>2. Groups = {}
      BY DEF Init, Groups
  <1>3. GroupsAreStarted /\ CallOfMain /\ ShutdownProceeds
      BY <1>2, ProgramAssumption
      DEF Init, Idle, GroupsAreStarted, CallOfMain, ShutdownProceeds, Caller
  <1> QED
      BY <1>1, <1>2, <1>3 DEF ProgramInv

LEMMA NextProgramInv == ProgramInv /\ [Next]_vars => ProgramInv'
  <1> SUFFICES ASSUME ProgramInv, [Next]_vars PROVE ProgramInv'
      OBVIOUS
  <1>1. TypeOK'
      BY NextTypeOK DEF ProgramInv
  <1> QED
      BY <1>1, GroupsAreStartedKept, CallOfMainKept, ShutdownProceedsKept,
         StopsAreAccountedFor
      DEF ProgramInv

THEOREM ProgramInvariant == Spec => []ProgramInv
  BY InitProgramInv, NextProgramInv, PTL DEF Spec

\* The variables of main, the manager, the servers and the requests keep their types.
THEOREM TypeCorrect == Spec => []TypeOK
  <1>1. ProgramInv => TypeOK
      BY DEF ProgramInv
  <1> QED
      BY <1>1, ProgramInvariant, PTL

\* However the requests, the deadline, the hub's second Stop, a stuck hub and monitors
\* interleave with StopAll, a child in the table that outlives main was started behind
\* StopAll's back, has its group's error in the log, or had been written off.
THEOREM ShutdownCompletes == Spec => []ShutdownIsComplete
  <1>1. ProgramInv => ShutdownIsComplete
    <2> SUFFICES ASSUME ProgramInv,
                        main.pc = "exited" \/ (main.pc = "crashed" /\ cancelled),
                        NEW g \in Groups,
                        HasChild(Current(g)),
                        Current(g) \notin late, unit[Current(g)] # "lost"
                 PROVE  g \in main.errors
        BY DEF ShutdownIsComplete
    <2>1. StopIsAccountedFor(g) /\ call[Main].pc = "idle"
        BY DEF ProgramInv, CallOfMain
    <2> QED
        BY <2>1 DEF StopIsAccountedFor, StoppedByMain, HasChild
  <1> QED
      BY <1>1, ProgramInvariant, PTL

\* Once the web server is closed no request is left that could change the groups.
THEOREM WebStopEndsRequests == Spec => WebStopIsFinal
  <1>1. ProgramInv /\ [Next]_vars => (server["web"] = "closed" => UNCHANGED <<table, call>>)
    <2> SUFFICES ASSUME ProgramInv, [Next]_vars, server["web"] = "closed"
                 PROVE  UNCHANGED <<table, call>>
        OBVIOUS
    <2>1. /\ main.pc \in {"stopMetrics", "return", "exited", "crashed"}
          /\ \A r \in Request : call[r].pc \in {"idle", "done"}
        BY DEF ProgramInv, ShutdownProceeds, Serving
    <2> QED
        BY <2>1
        DEF Next, MainStep, LoadConfig, AddProcessGroup, StartAll, StartNext, MonitorAll, Serve,
            AwaitSignal, StopNext, StopReturns, StopAllReturns, StopHub, StopsHub, StopWeb,
            StopMetrics, Return, HubCancelled, Listen, RequestArrives, RequestStarts,
            RequestStops, RequestForces, RequestStopped, StopAllForces, StopForces,
            ForcedStopHangs, StopEnds, UnitMoves, Tell, Signal, Deadline, ScrapeEnds,
            PeerStalls, HubGetsStuck, vars
  <1> QED
      BY <1>1, ProgramInvariant, PTL DEF Spec, WebStopIsFinal
=============================================================================
