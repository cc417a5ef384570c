----------------------------- MODULE WSHubProof -----------------------------
(***************************************************************************)
(* Theorems about the websocket hub, for any set of clients and of         *)
(* broadcasting goroutines, any capacity of a client's channel and any     *)
(* environment events.  The inductive invariant is HubInv of module WSHub. *)
(***************************************************************************)
EXTENDS WSHub, TLAPS

-----------------------------------------------------------------------------
(* Type correctness.                                                       *)

LEMMA InitTypeOK == Init => TypeOK /\ HasClient
  BY CapacityAssumption DEF Init, TypeOK, HasClient, Waiting, ServerStates, HubStates, ConnStates

\* A step of one connection keeps the types if the state it gives that connection is one.
LEMMA ConnStepTypeOK ==
    ASSUME TypeOK, HasClient, NEW c \in Client, NEW after \in ConnStates, ConnStep(c, after)
    PROVE  TypeOK' /\ HasClient'
  BY DEF TypeOK, HasClient, ConnStep

\* The goroutines of a connection and its peer keep the types.
LEMMA ConnectionKeepsTypes ==
    ASSUME TypeOK, HasClient, NEW c \in Client,
           \/ ServeUpgrades(c) \/ ServeStartsPumps(c)
           \/ WriterStep(c) \/ WriterPings(c)
           \/ ReaderStep(c) \/ ReaderGetsPing(c)
           \/ PeerLeaves(c) \/ PeerStalls(c)
    PROVE  TypeOK' /\ HasClient'
  <1> DEFINE k == conn[c]
  <1>1. k \in ConnStates
      BY DEF TypeOK
  <1>2. CASE ServeUpgrades(c)
    <2>1. [k EXCEPT !.serve = "register"] \in ConnStates
        BY <1>1 DEF ConnStates
    <2> QED
        BY <1>2, <2>1, ConnStepTypeOK DEF ServeUpgrades
  <1>3. CASE ServeStartsPumps(c)
    <2>1. [k EXCEPT !.serve = "returned", !.writer = "select", !.reader = "read"] \in ConnStates
        BY <1>1 DEF ConnStates
    <2> QED
        BY <1>3, <2>1, ConnStepTypeOK DEF ServeStartsPumps
  <1>4. CASE WriterTakes(c)
    <2>1. k.buffered - 1 \in 0..Capacity
      <3>1. k.buffered \in 0..Capacity
          BY <1>1 DEF ConnStates
      <3> QED
          BY <1>4, <3>1, CapacityAssumption DEF WriterTakes
    <2>2. [k EXCEPT !.writer = "lock", !.buffered = @ - 1] \in ConnStates
        BY <1>1, <2>1 DEF ConnStates
    <2> QED
        BY <1>4, <2>2, ConnStepTypeOK DEF WriterTakes
  <1>5. CASE WriterSeesClosed(c)
    <2>1. [k EXCEPT !.writer = "gone"] \in ConnStates
        BY <1>1 DEF ConnStates
    <2> QED
        BY <1>5, <2>1, ConnStepTypeOK DEF WriterSeesClosed
  <1>6. CASE WriterLocks(c)
    <2>1. [k EXCEPT !.writer = "write", !.mu = "writer"] \in ConnStates
        BY <1>1 DEF ConnStates
    <2> QED
        BY <1>6, <2>1, ConnStepTypeOK DEF WriterLocks
  <1>7. CASE WriterSucceeds(c)
    <2>1. [k EXCEPT !.writer = "select", !.mu = "free"] \in ConnStates
        BY <1>1 DEF ConnStates
    <2> QED
        BY <1>7, <2>1, ConnStepTypeOK DEF WriterSucceeds
  <1>8. CASE WriterFails(c)
    <2>1. [k EXCEPT !.writer = "closing", !.mu = "free"] \in ConnStates
        BY <1>1 DEF ConnStates
    <2> QED
        BY <1>8, <2>1, ConnStepTypeOK DEF WriterFails
  <1>9. CASE WriterCloses(c)
    <2>1. [k EXCEPT !.writer = "gone", !.closed = TRUE] \in ConnStates
        BY <1>1 DEF ConnStates
    <2> QED
        BY <1>9, <2>1, ConnStepTypeOK DEF WriterCloses
  <1>10. CASE WriterPings(c)
    <2>1. [k EXCEPT !.writer = "lock"] \in ConnStates
        BY <1>1 DEF ConnStates
    <2> QED
        BY <1>10, <2>1, ConnStepTypeOK DEF WriterPings
  <1>11. CASE ReaderFails(c)
    <2>1. [k EXCEPT !.reader = "unregister"] \in ConnStates
        BY <1>1 DEF ConnStates
    <2> QED
        BY <1>11, <2>1, ConnStepTypeOK DEF ReaderFails
  <1>12. CASE ReaderLocks(c)
    <2>1. [k EXCEPT !.reader = "pong", !.mu = "reader"] \in ConnStates
        BY <1>1 DEF ConnStates
    <2> QED
        BY <1>12, <2>1, ConnStepTypeOK DEF ReaderLocks
  <1>13. CASE ReaderPongs(c)
    <2>1. [k EXCEPT !.reader = "read", !.mu = "free"] \in ConnStates
        BY <1>1 DEF ConnStates
    <2> QED
        BY <1>13, <2>1, ConnStepTypeOK DEF ReaderPongs
  <1>14. CASE ReaderGetsPing(c)
    <2>1. [k EXCEPT !.reader = "lock"] \in ConnStates
        BY <1>1 DEF ConnStates
    <2> QED
        BY <1>14, <2>1, ConnStepTypeOK DEF ReaderGetsPing
  <1>15. CASE PeerLeaves(c)
    <2>1. [k EXCEPT !.peer = "left"] \in ConnStates
        BY <1>1 DEF ConnStates
    <2> QED
        BY <1>15, <2>1, ConnStepTypeOK DEF PeerLeaves
  <1>16. CASE PeerStalls(c)
    <2>1. [k EXCEPT !.peer = "stalled"] \in ConnStates
        BY <1>1 DEF ConnStates
    <2> QED
        BY <1>16, <2>1, ConnStepTypeOK DEF PeerStalls
  <1> QED
      BY <1>2, <1>3, <1>4, <1>5, <1>6, <1>7, <1>8, <1>9, <1>10, <1>11, <1>12, <1>13, <1>14, <1>15, <1>16
      DEF WriterStep, ReaderStep

\* The hub keeps the types, and handles a client in the three steps that need one.
LEMMA HubKeepsTypes ==
    ASSUME TypeOK, HasClient, HubStep \/ HubCancelled
    PROVE  TypeOK' /\ HasClient'
  <1>1. \A d \in Client : conn[d] \in ConnStates
      BY DEF TypeOK
  <1>2. hub.pc \in {"register", "unregister", "closing"} => hub.client \in Client
      BY DEF TypeOK, HubStates, HasClient
  <1>3. Waiting \in HubStates
      BY DEF Waiting, HubStates
  <1>4. ASSUME NEW c \in Client, HubReceivesClient(c) PROVE TypeOK' /\ HasClient'
    <2>1. [conn[c] EXCEPT !.serve = "registered"] \in ConnStates
        BY <1>1 DEF ConnStates
    <2>2. [hub EXCEPT !.pc = "register", !.client = c] \in HubStates
        BY DEF TypeOK, HubStates
    <2> QED
        BY <1>4, <2>1, <2>2, NoClientAssumption
        DEF HubReceivesClient, TypeOK, HasClient, HubStates
  <1>5. ASSUME NEW c \in Client, HubReceivesUnregister(c) PROVE TypeOK' /\ HasClient'
    <2>1. [conn[c] EXCEPT !.reader = "gone"] \in ConnStates
        BY <1>1 DEF ConnStates
    <2>2. [hub EXCEPT !.pc = "unregister", !.client = c] \in HubStates
        BY DEF TypeOK, HubStates
    <2> QED
        BY <1>5, <2>1, <2>2, NoClientAssumption
        DEF HubReceivesUnregister, TypeOK, HasClient, HubStates
  <1>6. CASE HubRegisters
    <2>1. [server EXCEPT !.clients = @ \cup {hub.client}] \in ServerStates
        BY <1>2, <1>6 DEF HubRegisters, TypeOK, ServerStates
    <2> QED
        BY <1>3, <1>6, <2>1 DEF HubRegisters, TypeOK, HasClient, Waiting
  <1>7. CASE HubUnregisters
    <2>1. [server EXCEPT !.clients = @ \ {hub.client}, !.mu = "hub"] \in ServerStates
        BY DEF TypeOK, ServerStates
    <2>2. [hub EXCEPT !.pc = "closing"] \in HubStates
        BY DEF TypeOK, HubStates
    <2> QED
        BY <1>3, <1>7, <2>1, <2>2 DEF HubUnregisters, TypeOK, HasClient, HubStates, Waiting
  <1>8. CASE HubCloses
    <2>1. [conn[hub.client] EXCEPT !.closed = TRUE] \in ConnStates
        BY <1>1, <1>2, <1>8 DEF HubCloses, ConnStates
    <2>2. [server EXCEPT !.mu = "free"] \in ServerStates
        BY DEF TypeOK, ServerStates
    <2> QED
        BY <1>3, <1>8, <2>1, <2>2 DEF HubCloses, TypeOK, HasClient, Waiting
  <1>9. CASE HubFansOut
    <2>1. [hub EXCEPT !.pc = "fanOut", !.todo = server.clients] \in HubStates
        BY DEF TypeOK, HubStates, ServerStates
    <2>2. [server EXCEPT !.mu = "hub"] \in ServerStates
        BY DEF TypeOK, ServerStates
    <2> QED
        BY <1>9, <2>1, <2>2 DEF HubFansOut, TypeOK, HasClient, HubStates
  <1>10. CASE HubFinishesFanOut
    <2>1. [server EXCEPT !.mu = "free"] \in ServerStates
        BY DEF TypeOK, ServerStates
    <2> QED
        BY <1>3, <1>10, <2>1 DEF HubFinishesFanOut, TypeOK, HasClient, Waiting
  <1>11. ASSUME NEW c \in Client, HubPanics(c) PROVE TypeOK' /\ HasClient'
    <2>1. [hub EXCEPT !.pc = "panicked"] \in HubStates
        BY DEF TypeOK, HubStates
    <2> QED
        BY <1>11, <2>1 DEF HubPanics, Visits, TypeOK, HasClient, HubStates
  <1>12. ASSUME NEW c \in Client, NEW after \in ConnStates, Visited(c), Visits(c),
                conn' = [conn EXCEPT ![c] = after],
                server' \in ServerStates
         PROVE  TypeOK' /\ HasClient'
    <2>1. [hub EXCEPT !.todo = @ \ {c}] \in HubStates
        BY DEF TypeOK, HubStates
    <2> QED
        BY <1>12, <2>1 DEF Visited, Visits, TypeOK, HasClient, HubStates
  <1>13. ASSUME NEW c \in Client, HubSends(c) PROVE TypeOK' /\ HasClient'
    <2>1. conn[c].buffered + 1 \in 0..Capacity
      <3>1. conn[c].buffered \in 0..Capacity
          BY <1>1 DEF ConnStates
      <3> QED
          BY <1>13, <3>1, CapacityAssumption DEF HubSends
    <2>2. [conn[c] EXCEPT !.buffered = @ + 1] \in ConnStates
        BY <1>1, <2>1 DEF ConnStates
    <2>3. conn' = [conn EXCEPT ![c] = [conn[c] EXCEPT !.buffered = @ + 1]]
        BY <1>13 DEF HubSends, TypeOK
    <2> QED
        BY <1>12, <1>13, <2>2, <2>3 DEF HubSends, TypeOK
  <1>14. ASSUME NEW c \in Client, HubDrops(c) PROVE TypeOK' /\ HasClient'
    <2>1. [conn[c] EXCEPT !.closed = TRUE] \in ConnStates
        BY <1>1 DEF ConnStates
    <2>2. conn' = [conn EXCEPT ![c] = [conn[c] EXCEPT !.closed = TRUE]]
        BY <1>14 DEF HubDrops, TypeOK
    <2>3. server' \in ServerStates
        BY <1>14 DEF HubDrops, TypeOK, ServerStates
    <2> QED
        BY <1>12, <1>14, <2>1, <2>2, <2>3 DEF HubDrops
  <1>15. ASSUME NEW b \in Broadcaster, HubReceivesEvent(b) PROVE TypeOK' /\ HasClient'
    <2>1. [hub EXCEPT !.pc = "fanLock"] \in HubStates
        BY DEF TypeOK, HubStates
    <2> QED
        BY <1>15, <2>1 DEF HubReceivesEvent, TypeOK, HasClient, HubStates
  <1>16. CASE HubCancelled
    <2>1. [hub EXCEPT !.pc = "stopLock"] \in HubStates
        BY DEF TypeOK, HubStates
    <2> QED
        BY <1>16, <2>1 DEF HubCancelled, TypeOK, HasClient, HubStates
  <1> QED
      BY <1>4, <1>5, <1>6, <1>7, <1>8, <1>9, <1>10, <1>11, <1>13, <1>14, <1>15, <1>16
      DEF HubStep

\* Stop keeps the types, and leaves alone what the hub handles.
LEMMA StopKeepsTypes ==
    ASSUME TypeOK, HasClient, StopCalled \/ StopStep
    PROVE  TypeOK' /\ HasClient'
  <1>1. CASE StopCalled
      BY <1>1 DEF StopCalled, TypeOK, HasClient
  <1>2. CASE StopLocks
    <2>1. [hub EXCEPT !.pc = "stopping"] \in HubStates
        BY DEF TypeOK, HubStates
    <2>2. \A o \in {"hub", "main"} : [server EXCEPT !.mu = o] \in ServerStates
        BY DEF TypeOK, ServerStates
    <2> QED
        BY <1>2, <2>1, <2>2 DEF StopLocks, TypeOK, HasClient, HubStates
  <1>3. ASSUME NEW c \in Client, StopCloses(c) PROVE TypeOK' /\ HasClient'
    <2>1. [conn[c] EXCEPT !.closed = TRUE] \in ConnStates
        BY DEF TypeOK, ConnStates
    <2>2. [server EXCEPT !.clients = @ \ {c}] \in ServerStates
        BY DEF TypeOK, ServerStates
    <2> QED
        BY <1>3, <2>1, <2>2 DEF StopCloses, TypeOK, HasClient
  <1>4. CASE StopReturns
    <2>1. [server EXCEPT !.done = TRUE, !.mu = "free"] \in ServerStates
        BY DEF TypeOK, ServerStates
    <2>2. \A s \in {"exited", "panicked"} : [hub EXCEPT !.pc = s] \in HubStates
        BY DEF TypeOK, HubStates
    <2>3. main = "stopping" => UNCHANGED hub /\ main' \in {"returned", "panicked"}
        BY <1>4, Zenon DEF StopReturns
    <2>4. main # "stopping" =>
            UNCHANGED main /\ \E s \in {"exited", "panicked"} : hub' = [hub EXCEPT !.pc = s]
        BY <1>4, Zenon DEF StopReturns
    <2> QED
        BY <1>4, <2>1, <2>2, <2>3, <2>4
        DEF StopReturns, Stopping, TypeOK, HasClient, HubStates
  <1> QED
      BY <1>1, <1>2, <1>3, <1>4 DEF StopStep

LEMMA NextTypeOK == TypeOK /\ HasClient /\ [Next]_vars => TypeOK' /\ HasClient'
  <1> SUFFICES ASSUME TypeOK, HasClient, [Next]_vars PROVE TypeOK' /\ HasClient'
      OBVIOUS
  <1>1. ASSUME NEW b \in Broadcaster, BroadcastCalled(b) \/ BroadcastDone(b)
        PROVE  TypeOK' /\ HasClient'
      BY <1>1 DEF TypeOK, HasClient, BroadcastCalled, BroadcastDone
  <1>2. CASE UNCHANGED vars
      BY <1>2 DEF vars, TypeOK, HasClient
  <1> QED
      BY <1>1, <1>2, ConnectionKeepsTypes, HubKeepsTypes, StopKeepsTypes DEF Next

\* The variables of the hub, of Stop and of the connections keep their types, whatever
\* the clients and the broadcasters do.
THEOREM TypeCorrect == Spec => []TypeOK
  BY InitTypeOK, NextTypeOK, PTL DEF Spec

-----------------------------------------------------------------------------
(* The inductive invariant.                                                *)

LEMMA InitHubInv == Init => HubInv
  <1> SUFFICES ASSUME Init PROVE HubInv
      OBVIOUS
  <1>1. TypeOK /\ HasClient
      BY InitTypeOK
  <1>2. hub.pc = "select" /\ main = "running" /\ server.clients = {}
      BY DEF Init, Waiting
  <1>3. ASSUME NEW c \in Client
        PROVE  /\ conn[c].serve = "new" /\ ~conn[c].closed /\ hub.client # c
               /\ conn[c].writer = "off" /\ conn[c].reader = "off"
      BY NoClientAssumption DEF Init, Waiting
  <1> QED
      BY <1>1, <1>2, <1>3
      DEF HubInv, ClientsHaveReaders, RemovedIsClosed, LockIsOwned, HubHandles, ConnPhases

\* What a step of a connection's own goroutines or of its peer may do to it: it closes the
\* connection only when the peer left, starts the pumps only after the registration, and
\* never ends the reader, which the hub does by taking its unregistration.
Allowed(before, after) ==
    /\ after.reader = "gone" => before.reader = "gone"
    /\ before.peer = "left" => after.peer = "left"
    /\ after.peer = "left" => before.peer = "left" \/ "leave" \in Events
    /\ before.closed => after.closed
    /\ after.closed => before.closed \/ (after.peer = "left" /\ before.serve = "returned")
    /\ after.writer = "closing" => after.closed \/ after.peer = "left"
    /\ after.serve \in {"new", "register"} <=> before.serve \in {"new", "register"}
    /\ after.serve # "returned" => after.writer = "off" /\ after.reader = "off"

LEMMA AllowedKeepsInv ==
    ASSUME HubInv, TypeOK', NEW c \in Client, NEW after \in ConnStates,
           ConnStep(c, after), Allowed(conn[c], after)
    PROVE  HubInv'
  <1>1. UNCHANGED <<server, hub, main>> /\ HasClient'
      BY DEF ConnStep, HubInv, HasClient
  <1>2. conn'[c] = after /\ \A d \in Client \ {c} : conn'[d] = conn[d]
      BY DEF ConnStep, HubInv, TypeOK
  <1>3. hub.client \in Client \cup {NoClient} /\ server.clients \subseteq Client
      BY DEF HubInv, TypeOK, HubStates, ServerStates
  <1>4. hub.pc = "register" => hub.client \in Client
      BY <1>3 DEF HubInv, HasClient
  <1>5. ClientsHaveReaders'
      BY <1>1, <1>2, <1>3 DEF HubInv, ClientsHaveReaders, Allowed
  <1>6. RemovedIsClosed'
    <2>1. conn[c].serve \in {"new", "register", "registered", "returned"}
        BY DEF HubInv, TypeOK, ConnStates
    <2> QED
        BY <1>1, <1>2, <2>1 DEF HubInv, RemovedIsClosed, Allowed
  <1>7. LockIsOwned'
      BY <1>1 DEF HubInv, LockIsOwned
  <1>8. HubHandles'
      BY <1>1, <1>2, <1>3, <1>4 DEF HubInv, HubHandles, HasClient, Allowed
  <1>9. ConnPhases'
      BY <1>1, <1>2, <1>3 DEF HubInv, ConnPhases, Allowed
  <1> QED
      BY <1>1, <1>5, <1>6, <1>7, <1>8, <1>9 DEF HubInv

\* ServeWS, the pumps and the peer do what is allowed.
LEMMA ConnectionIsAllowed ==
    ASSUME HubInv, TypeOK', NEW c \in Client,
           \/ ServeUpgrades(c) \/ ServeStartsPumps(c)
           \/ WriterStep(c) \/ WriterPings(c)
           \/ ReaderStep(c) \/ ReaderGetsPing(c)
           \/ PeerLeaves(c) \/ PeerStalls(c)
    PROVE  \E after \in ConnStates : ConnStep(c, after) /\ Allowed(conn[c], after)
  <1> DEFINE k == conn[c]
  <1>1. k \in ConnStates /\ conn' \in [Client -> ConnStates]
      BY DEF HubInv, TypeOK
  <1>2. /\ k.serve \in {"new", "register"} => ~k.closed
        /\ k.serve # "returned" => k.writer = "off" /\ k.reader = "off"
        /\ k.writer = "closing" => k.closed \/ k.peer = "left"
      BY DEF HubInv, ConnPhases
  <1>3. ASSUME NEW after, ConnStep(c, after), Allowed(k, after)
        PROVE  \E other \in ConnStates : ConnStep(c, other) /\ Allowed(conn[c], other)
    <2>1. after \in ConnStates
        BY <1>1, <1>3 DEF ConnStep, HubInv, TypeOK
    <2> QED
        BY <1>3, <2>1
  <1>4. CASE ServeUpgrades(c)
    <2>1. Allowed(k, [k EXCEPT !.serve = "register"])
        BY <1>1, <1>2, <1>4 DEF ServeUpgrades, Allowed, ConnStates
    <2> QED
        BY <1>3, <1>4, <2>1 DEF ServeUpgrades
  <1>5. CASE ServeStartsPumps(c)
    <2>1. Allowed(k, [k EXCEPT !.serve = "returned", !.writer = "select", !.reader = "read"])
        BY <1>1, <1>2, <1>5 DEF ServeStartsPumps, Allowed, ConnStates
    <2> QED
        BY <1>3, <1>5, <2>1 DEF ServeStartsPumps
  <1>6. CASE WriterTakes(c)
    <2>1. Allowed(k, [k EXCEPT !.writer = "lock", !.buffered = @ - 1])
        BY <1>1, <1>2, <1>6 DEF WriterTakes, WriterAt, Allowed, ConnStates
    <2> QED
        BY <1>3, <1>6, <2>1 DEF WriterTakes
  <1>7. CASE WriterSeesClosed(c)
    <2>1. Allowed(k, [k EXCEPT !.writer = "gone"])
        BY <1>1, <1>2, <1>7 DEF WriterSeesClosed, WriterAt, Allowed, ConnStates
    <2> QED
        BY <1>3, <1>7, <2>1 DEF WriterSeesClosed
  <1>8. CASE WriterLocks(c)
    <2>1. Allowed(k, [k EXCEPT !.writer = "write", !.mu = "writer"])
        BY <1>1, <1>2, <1>8 DEF WriterLocks, WriterAt, Allowed, ConnStates
    <2> QED
        BY <1>3, <1>8, <2>1 DEF WriterLocks
  <1>9. CASE WriterSucceeds(c)
    <2>1. Allowed(k, [k EXCEPT !.writer = "select", !.mu = "free"])
        BY <1>1, <1>2, <1>9 DEF WriterSucceeds, WriterAt, Allowed, ConnStates
    <2> QED
        BY <1>3, <1>9, <2>1 DEF WriterSucceeds
  <1>10. CASE WriterFails(c)
    <2>1. Allowed(k, [k EXCEPT !.writer = "closing", !.mu = "free"])
        BY <1>1, <1>2, <1>10 DEF WriterFails, WriterAt, Allowed, ConnStates
    <2> QED
        BY <1>3, <1>10, <2>1 DEF WriterFails
  <1>11. CASE WriterCloses(c)
    <2>1. Allowed(k, [k EXCEPT !.writer = "gone", !.closed = TRUE])
        BY <1>1, <1>2, <1>11 DEF WriterCloses, WriterAt, Allowed, ConnStates
    <2> QED
        BY <1>3, <1>11, <2>1 DEF WriterCloses
  <1>12. CASE WriterPings(c)
    <2>1. Allowed(k, [k EXCEPT !.writer = "lock"])
        BY <1>1, <1>2, <1>12 DEF WriterPings, WriterAt, Allowed, ConnStates
    <2> QED
        BY <1>3, <1>12, <2>1 DEF WriterPings
  <1>13. CASE ReaderFails(c)
    <2>1. Allowed(k, [k EXCEPT !.reader = "unregister"])
        BY <1>1, <1>2, <1>13 DEF ReaderFails, ReaderAt, Allowed, ConnStates
    <2> QED
        BY <1>3, <1>13, <2>1 DEF ReaderFails
  <1>14. CASE ReaderLocks(c)
    <2>1. Allowed(k, [k EXCEPT !.reader = "pong", !.mu = "reader"])
        BY <1>1, <1>2, <1>14 DEF ReaderLocks, ReaderAt, Allowed, ConnStates
    <2> QED
        BY <1>3, <1>14, <2>1 DEF ReaderLocks
  <1>15. CASE ReaderPongs(c)
    <2>1. Allowed(k, [k EXCEPT !.reader = "read", !.mu = "free"])
        BY <1>1, <1>2, <1>15 DEF ReaderPongs, ReaderAt, Allowed, ConnStates
    <2> QED
        BY <1>3, <1>15, <2>1 DEF ReaderPongs
  <1>16. CASE ReaderGetsPing(c)
    <2>1. Allowed(k, [k EXCEPT !.reader = "lock"])
        BY <1>1, <1>2, <1>16 DEF ReaderGetsPing, ReaderAt, Allowed, ConnStates
    <2> QED
        BY <1>3, <1>16, <2>1 DEF ReaderGetsPing
  <1>17. CASE PeerLeaves(c)
    <2>1. Allowed(k, [k EXCEPT !.peer = "left"])
        BY <1>1, <1>2, <1>17 DEF PeerLeaves, Allowed, ConnStates
    <2> QED
        BY <1>3, <1>17, <2>1 DEF PeerLeaves
  <1>18. CASE PeerStalls(c)
    <2>1. Allowed(k, [k EXCEPT !.peer = "stalled"])
        BY <1>1, <1>2, <1>18 DEF PeerStalls, Allowed, ConnStates
    <2> QED
        BY <1>3, <1>18, <2>1 DEF PeerStalls
  <1> QED
      BY <1>4, <1>5, <1>6, <1>7, <1>8, <1>9, <1>10, <1>11, <1>12, <1>13, <1>14, <1>15, <1>16, <1>17, <1>18
      DEF WriterStep, ReaderStep

\* So they keep the invariant.
LEMMA ConnectionKeepsInv ==
    ASSUME HubInv, TypeOK', NEW c \in Client,
           \/ ServeUpgrades(c) \/ ServeStartsPumps(c)
           \/ WriterStep(c) \/ WriterPings(c)
           \/ ReaderStep(c) \/ ReaderGetsPing(c)
           \/ PeerLeaves(c) \/ PeerStalls(c)
    PROVE  HubInv'
  BY ConnectionIsAllowed, AllowedKeepsInv

\* The hub keeps the invariant.
LEMMA HubKeepsInv ==
    ASSUME HubInv, TypeOK', HasClient', HubStep \/ HubCancelled
    PROVE  HubInv'
  <1>1. /\ hub.client \in Client \cup {NoClient} /\ server.clients \subseteq Client
        /\ hub.pc \in {"register", "unregister", "closing"} => hub.client \in Client
        /\ hub.pc \in {"select", "fanLock", "fanOut"} => hub.client = NoClient
      BY DEF HubInv, TypeOK, HubStates, ServerStates, HasClient
  <1>2. \A c \in Client : c # NoClient
      BY NoClientAssumption
  <1>3. \A c \in Client : conn[c] \in ConnStates
      BY DEF HubInv, TypeOK
  <1> SUFFICES ClientsHaveReaders' /\ RemovedIsClosed' /\ LockIsOwned' /\ HubHandles' /\ ConnPhases'
      BY DEF HubInv
  <1> USE DEF HubInv, TypeOK, HubStates, ServerStates, Waiting, ReaderAt, Visits, Visited, Full
  <1>4. ASSUME NEW c \in Client, HubReceivesClient(c)
        PROVE  ClientsHaveReaders' /\ RemovedIsClosed' /\ LockIsOwned' /\ HubHandles' /\ ConnPhases'
    <2>1. ClientsHaveReaders'
        BY <1>1, <1>2, <1>3, <1>4 DEF HubReceivesClient, ClientsHaveReaders
    <2>2. RemovedIsClosed'
        BY <1>1, <1>2, <1>3, <1>4 DEF HubReceivesClient, RemovedIsClosed
    <2>3. LockIsOwned'
        BY <1>1, <1>2, <1>3, <1>4 DEF HubReceivesClient, LockIsOwned
    <2>4. HubHandles'
        BY <1>1, <1>2, <1>3, <1>4 DEF HubReceivesClient, HubHandles, ConnPhases
    <2>5. ConnPhases'
        BY <1>1, <1>2, <1>3, <1>4 DEF HubReceivesClient, ConnPhases
    <2> QED
        BY <2>1, <2>2, <2>3, <2>4, <2>5
  <1>5. CASE HubRegisters
    <2>1. ClientsHaveReaders'
        BY <1>1, <1>2, <1>3, <1>5 DEF HubRegisters, HubHandles, ClientsHaveReaders
    <2>2. RemovedIsClosed'
        BY <1>1, <1>2, <1>3, <1>5 DEF HubRegisters, RemovedIsClosed
    <2>3. LockIsOwned'
        BY <1>1, <1>2, <1>3, <1>5 DEF HubRegisters, LockIsOwned
    <2>4. HubHandles'
        BY <1>1, <1>2, <1>3, <1>5 DEF HubRegisters, HubHandles
    <2>5. ConnPhases'
        BY <1>1, <1>2, <1>3, <1>5 DEF HubRegisters, HubHandles, ConnPhases
    <2> QED
        BY <2>1, <2>2, <2>3, <2>4, <2>5
  <1>6. ASSUME NEW c \in Client, HubReceivesUnregister(c)
        PROVE  ClientsHaveReaders' /\ RemovedIsClosed' /\ LockIsOwned' /\ HubHandles' /\ ConnPhases'
    <2>1. ClientsHaveReaders'
        BY <1>1, <1>2, <1>3, <1>6 DEF HubReceivesUnregister, ClientsHaveReaders
    <2>2. RemovedIsClosed'
        BY <1>1, <1>2, <1>3, <1>6 DEF HubReceivesUnregister, RemovedIsClosed
    <2>3. LockIsOwned'
        BY <1>1, <1>2, <1>3, <1>6 DEF HubReceivesUnregister, LockIsOwned
    <2>4. HubHandles'
        BY <1>1, <1>2, <1>3, <1>6 DEF HubReceivesUnregister, HubHandles, RemovedIsClosed, ConnPhases
    <2>5. ConnPhases'
        BY <1>1, <1>2, <1>3, <1>6 DEF HubReceivesUnregister, ConnPhases
    <2> QED
        BY <2>1, <2>2, <2>3, <2>4, <2>5
  <1>7. CASE HubUnregisters
    <2>1. UNCHANGED conn /\ UNCHANGED main /\ hub.pc = "unregister" /\ server.mu = "free"
        BY <1>7 DEF HubUnregisters
    <2>2. ASSUME hub.client \in server.clients
          PROVE  /\ server'.clients = server.clients \ {hub.client} /\ server'.mu = "hub"
                 /\ hub'.pc = "closing" /\ hub'.client = hub.client
        BY <1>7, <2>2 DEF HubUnregisters
    <2>3. ASSUME hub.client \notin server.clients
          PROVE  UNCHANGED server /\ hub'.pc = "select" /\ hub'.client = NoClient
        BY <1>7, <2>3 DEF HubUnregisters
    <2>4. ClientsHaveReaders'
        BY <1>1, <1>2, <2>1, <2>2, <2>3 DEF ClientsHaveReaders
    <2>5. RemovedIsClosed'
        BY <1>1, <1>2, <2>1, <2>2, <2>3 DEF RemovedIsClosed, HubHandles
    <2>6. LockIsOwned'
        BY <1>1, <1>2, <2>1, <2>2, <2>3 DEF LockIsOwned
    <2>7. HubHandles'
        BY <1>1, <1>2, <2>1, <2>2, <2>3 DEF HubHandles
    <2>8. ConnPhases'
        BY <1>1, <1>2, <2>1, <2>2, <2>3 DEF ConnPhases
    <2> QED
        BY <2>4, <2>5, <2>6, <2>7, <2>8
  <1>8. CASE HubCloses
    <2>1. ClientsHaveReaders'
        BY <1>1, <1>2, <1>3, <1>8 DEF HubCloses, ClientsHaveReaders
    <2>2. RemovedIsClosed'
        BY <1>1, <1>2, <1>3, <1>8 DEF HubCloses, RemovedIsClosed
    <2>3. LockIsOwned'
        BY <1>1, <1>2, <1>3, <1>8 DEF HubCloses, LockIsOwned
    <2>4. HubHandles'
        BY <1>1, <1>2, <1>3, <1>8 DEF HubCloses, HubHandles
    <2>5. ConnPhases'
        BY <1>1, <1>2, <1>3, <1>8 DEF HubCloses, HubHandles, ConnPhases
    <2> QED
        BY <2>1, <2>2, <2>3, <2>4, <2>5
  <1>9. ASSUME NEW b \in Broadcaster, HubReceivesEvent(b)
        PROVE  ClientsHaveReaders' /\ RemovedIsClosed' /\ LockIsOwned' /\ HubHandles' /\ ConnPhases'
    <2>1. ClientsHaveReaders'
        BY <1>1, <1>2, <1>3, <1>9 DEF HubReceivesEvent, ClientsHaveReaders
    <2>2. RemovedIsClosed'
        BY <1>1, <1>2, <1>3, <1>9 DEF HubReceivesEvent, RemovedIsClosed
    <2>3. LockIsOwned'
        BY <1>1, <1>2, <1>3, <1>9 DEF HubReceivesEvent, LockIsOwned
    <2>4. HubHandles'
        BY <1>1, <1>2, <1>3, <1>9 DEF HubReceivesEvent, HubHandles
    <2>5. ConnPhases'
        BY <1>1, <1>2, <1>3, <1>9 DEF HubReceivesEvent, ConnPhases
    <2> QED
        BY <2>1, <2>2, <2>3, <2>4, <2>5
  <1>10. CASE HubFansOut
    <2>1. ClientsHaveReaders'
        BY <1>1, <1>2, <1>3, <1>10 DEF HubFansOut, ClientsHaveReaders
    <2>2. RemovedIsClosed'
        BY <1>1, <1>2, <1>3, <1>10 DEF HubFansOut, RemovedIsClosed
    <2>3. LockIsOwned'
        BY <1>1, <1>2, <1>3, <1>10 DEF HubFansOut, LockIsOwned
    <2>4. HubHandles'
        BY <1>1, <1>2, <1>3, <1>10 DEF HubFansOut, HubHandles
    <2>5. ConnPhases'
        BY <1>1, <1>2, <1>3, <1>10 DEF HubFansOut, ConnPhases
    <2> QED
        BY <2>1, <2>2, <2>3, <2>4, <2>5
  <1>11. ASSUME NEW c \in Client, HubPanics(c)
        PROVE  ClientsHaveReaders' /\ RemovedIsClosed' /\ LockIsOwned' /\ HubHandles' /\ ConnPhases'
    <2>1. ClientsHaveReaders'
        BY <1>1, <1>2, <1>3, <1>11 DEF HubPanics, ClientsHaveReaders
    <2>2. RemovedIsClosed'
        BY <1>1, <1>2, <1>3, <1>11 DEF HubPanics, RemovedIsClosed
    <2>3. LockIsOwned'
        BY <1>1, <1>2, <1>3, <1>11 DEF HubPanics, LockIsOwned
    <2>4. HubHandles'
        BY <1>1, <1>2, <1>3, <1>11 DEF HubPanics, HubHandles
    <2>5. ConnPhases'
        BY <1>1, <1>2, <1>3, <1>11 DEF HubPanics, ConnPhases
    <2> QED
        BY <2>1, <2>2, <2>3, <2>4, <2>5
  <1>12. ASSUME NEW c \in Client, HubSends(c)
        PROVE  ClientsHaveReaders' /\ RemovedIsClosed' /\ LockIsOwned' /\ HubHandles' /\ ConnPhases'
    <2>1. ClientsHaveReaders'
        BY <1>1, <1>2, <1>3, <1>12 DEF HubSends, ClientsHaveReaders
    <2>2. RemovedIsClosed'
        BY <1>1, <1>2, <1>3, <1>12 DEF HubSends, RemovedIsClosed
    <2>3. LockIsOwned'
        BY <1>1, <1>2, <1>3, <1>12 DEF HubSends, LockIsOwned
    <2>4. HubHandles'
        BY <1>1, <1>2, <1>3, <1>12 DEF HubSends, HubHandles
    <2>5. ConnPhases'
        BY <1>1, <1>2, <1>3, <1>12 DEF HubSends, ConnPhases
    <2> QED
        BY <2>1, <2>2, <2>3, <2>4, <2>5
  <1>13. ASSUME NEW c \in Client, HubDrops(c)
        PROVE  ClientsHaveReaders' /\ RemovedIsClosed' /\ LockIsOwned' /\ HubHandles' /\ ConnPhases'
    <2>1. ClientsHaveReaders'
        BY <1>1, <1>2, <1>3, <1>13 DEF HubDrops, ClientsHaveReaders
    <2>2. RemovedIsClosed'
        BY <1>1, <1>2, <1>3, <1>13 DEF HubDrops, RemovedIsClosed
    <2>3. LockIsOwned'
        BY <1>1, <1>2, <1>3, <1>13 DEF HubDrops, LockIsOwned
    <2>4. HubHandles'
        BY <1>1, <1>2, <1>3, <1>13 DEF HubDrops, HubHandles
    <2>5. ConnPhases'
        BY <1>1, <1>2, <1>3, <1>13 DEF HubDrops, HubHandles, ConnPhases
    <2> QED
        BY <2>1, <2>2, <2>3, <2>4, <2>5
  <1>14. CASE HubFinishesFanOut
    <2>1. ClientsHaveReaders'
        BY <1>1, <1>2, <1>3, <1>14 DEF HubFinishesFanOut, ClientsHaveReaders
    <2>2. RemovedIsClosed'
        BY <1>1, <1>2, <1>3, <1>14 DEF HubFinishesFanOut, RemovedIsClosed
    <2>3. LockIsOwned'
        BY <1>1, <1>2, <1>3, <1>14 DEF HubFinishesFanOut, LockIsOwned
    <2>4. HubHandles'
        BY <1>1, <1>2, <1>3, <1>14 DEF HubFinishesFanOut, HubHandles
    <2>5. ConnPhases'
        BY <1>1, <1>2, <1>3, <1>14 DEF HubFinishesFanOut, ConnPhases
    <2> QED
        BY <2>1, <2>2, <2>3, <2>4, <2>5
  <1>15. CASE HubCancelled
    <2>1. ClientsHaveReaders'
        BY <1>1, <1>2, <1>3, <1>15 DEF HubCancelled, ClientsHaveReaders
    <2>2. RemovedIsClosed'
        BY <1>1, <1>2, <1>3, <1>15 DEF HubCancelled, RemovedIsClosed
    <2>3. LockIsOwned'
        BY <1>1, <1>2, <1>3, <1>15 DEF HubCancelled, LockIsOwned
    <2>4. HubHandles'
        BY <1>1, <1>2, <1>3, <1>15 DEF HubCancelled, HubHandles
    <2>5. ConnPhases'
        BY <1>1, <1>2, <1>3, <1>15 DEF HubCancelled, ConnPhases
    <2> QED
        BY <2>1, <2>2, <2>3, <2>4, <2>5
  <1> QED
      BY <1>4, <1>5, <1>6, <1>7, <1>8, <1>9, <1>10, <1>11, <1>12, <1>13, <1>14, <1>15 DEF HubStep

\* Stop keeps the invariant.
LEMMA StopKeepsInv ==
    ASSUME HubInv, TypeOK', HasClient', StopCalled \/ StopStep
    PROVE  HubInv'
  <1>1. \A c \in Client : conn[c] \in ConnStates
      BY DEF HubInv, TypeOK
  <1> SUFFICES ClientsHaveReaders' /\ RemovedIsClosed' /\ LockIsOwned' /\ HubHandles' /\ ConnPhases'
      BY DEF HubInv
  <1> USE DEF HubInv, TypeOK, HubStates, ServerStates
  <1>2. CASE StopCalled
      BY <1>2 DEF StopCalled, ClientsHaveReaders, RemovedIsClosed, LockIsOwned, HubHandles,
                  ConnPhases
  <1>3. CASE StopLocks
    <2>1. /\ UNCHANGED conn /\ server'.clients = server.clients
          /\ hub'.client = hub.client
          /\ hub'.pc = hub.pc \/ (hub.pc = "stopLock" /\ hub'.pc = "stopping")
          /\ hub'.todo = hub.todo
        BY <1>3 DEF StopLocks
    <2>2. ClientsHaveReaders' /\ RemovedIsClosed' /\ HubHandles' /\ ConnPhases'
        BY <2>1 DEF ClientsHaveReaders, RemovedIsClosed, HubHandles, ConnPhases
    <2>3. LockIsOwned'
        BY <1>3 DEF StopLocks, LockIsOwned
    <2> QED
        BY <2>2, <2>3
  <1>4. ASSUME NEW c \in Client, StopCloses(c)
        PROVE  ClientsHaveReaders' /\ RemovedIsClosed' /\ LockIsOwned' /\ HubHandles' /\ ConnPhases'
    <2> USE DEF StopCloses
    <2>1. /\ UNCHANGED <<hub, main>> /\ server'.clients = server.clients \ {c}
          /\ server'.mu = server.mu
          /\ conn' = [conn EXCEPT ![c].closed = TRUE] /\ c \in server.clients
        BY <1>4
    <2>2. hub.pc # "fanOut"
        BY <1>4 DEF Stopping, LockIsOwned
    <2>3. ClientsHaveReaders'
        BY <1>1, <2>1 DEF ClientsHaveReaders
    <2>4. RemovedIsClosed'
        BY <1>1, <2>1 DEF RemovedIsClosed
    <2>5. LockIsOwned'
        BY <2>1 DEF LockIsOwned
    <2>6. HubHandles'
        BY <1>1, <2>1, <2>2 DEF HubHandles, HasClient
    <2>7. ConnPhases'
        BY <1>1, <2>1 DEF ConnPhases
    <2> QED
        BY <2>3, <2>4, <2>5, <2>6, <2>7
  <1>5. CASE StopReturns
    <2>1. UNCHANGED conn /\ server'.clients = server.clients /\ server.clients = {}
        BY <1>5 DEF StopReturns
    <2>2. main = "stopping" => UNCHANGED hub /\ main' # "stopping"
        BY <1>5, Zenon DEF StopReturns
    <2>3. main # "stopping" =>
            /\ UNCHANGED main /\ hub.pc = "stopping"
            /\ \E s \in {"exited", "panicked"} : hub' = [hub EXCEPT !.pc = s]
        BY <1>5, Zenon DEF StopReturns, Stopping
    <2>4. hub'.client = hub.client /\ hub'.todo = hub.todo
        BY <2>2, <2>3
    <2>5. ClientsHaveReaders' /\ RemovedIsClosed'
        BY <2>1, <2>4 DEF ClientsHaveReaders, RemovedIsClosed
    <2>6. LockIsOwned'
        BY <2>2, <2>3 DEF LockIsOwned
    <2>7. HubHandles' /\ ConnPhases'
        BY <2>1, <2>2, <2>3, <2>4 DEF HubHandles, ConnPhases
    <2> QED
        BY <2>5, <2>6, <2>7
  <1> QED
      BY <1>2, <1>3, <1>4, <1>5 DEF StopStep

LEMMA NextHubInv == HubInv /\ [Next]_vars => HubInv'
  <1> SUFFICES ASSUME HubInv, [Next]_vars PROVE HubInv'
      OBVIOUS
  <1>1. TypeOK' /\ HasClient'
      BY NextTypeOK DEF HubInv
  <1>2. ASSUME NEW b \in Broadcaster, BroadcastCalled(b) \/ BroadcastDone(b) PROVE HubInv'
      BY <1>1, <1>2
      DEF BroadcastCalled, BroadcastDone, HubInv, ClientsHaveReaders, RemovedIsClosed,
          LockIsOwned, HubHandles, ConnPhases
  <1>3. CASE UNCHANGED vars
      BY <1>1, <1>3
      DEF vars, HubInv, ClientsHaveReaders, RemovedIsClosed, LockIsOwned, HubHandles, ConnPhases
  <1> QED
      BY <1>1, <1>2, <1>3, ConnectionKeepsInv, HubKeepsInv, StopKeepsInv DEF Next

THEOREM HubInvariant == Spec => []HubInv
  BY InitHubInv, NextHubInv, PTL DEF Spec

\* No entry of s.clients outlives its connection's readPump: whoever is in s.clients can
\* still be unregistered, or is being unregistered, whatever the order in which the pumps,
\* the hub and Stop close, drop and remove clients.
THEOREM EntriesHaveReaders == Spec => []ClientsHaveReaders
  <1>1. HubInv => ClientsHaveReaders
      BY DEF HubInv
  <1> QED
      BY <1>1, HubInvariant, PTL

\* Whoever removes a client from s.clients closes it: no connection is left open that no
\* broadcast reaches.
THEOREM RemovalCloses == Spec => []RemovedIsClosed
  <1>1. HubInv => RemovedIsClosed
      BY DEF HubInv
  <1> QED
      BY <1>1, HubInvariant, PTL

\* A fan-out meets a closed channel only if the client's peer left: neither the hub nor Stop
\* closes a client and leaves it in s.clients.
THEOREM FanOutVisitsOpenClients == Spec => []VisitedAreOpen
  <1>1. HubInv => VisitedAreOpen
      BY DEF HubInv, HubHandles, ConnPhases, VisitedAreOpen, Visits
  <1> QED
      BY <1>1, HubInvariant, PTL

-----------------------------------------------------------------------------
(* When nothing panics.                                                    *)

\* With no peer that leaves and no cancelled context, the hub never stops, and s.done is
\* closed by main alone.
Undisturbed ==
    /\ \A c \in Client : conn[c].peer # "left"
    /\ hub.pc \notin {"stopLock", "stopping", "exited", "panicked"}
    /\ server.done => main = "returned"
    /\ main # "panicked"

LEMMA UndisturbedStep ==
    ASSUME "leave" \notin Events, "cancel" \notin Events,
           HubInv, Undisturbed, [Next]_vars
    PROVE  Undisturbed'
  <1>1. \A c \in Client : conn[c] \in ConnStates /\ conn[c].peer # "left"
      BY DEF HubInv, TypeOK, Undisturbed
  <1> USE DEF Undisturbed, HubInv, TypeOK
  <1>2. ASSUME NEW c \in Client,
               \/ ServeUpgrades(c) \/ ServeStartsPumps(c)
               \/ WriterStep(c) \/ WriterPings(c)
               \/ ReaderStep(c) \/ ReaderGetsPing(c)
               \/ PeerLeaves(c) \/ PeerStalls(c)
        PROVE  Undisturbed'
    <2>1. PICK after \in ConnStates : ConnStep(c, after) /\ Allowed(conn[c], after)
        BY <1>2, NextTypeOK, ConnectionIsAllowed
    <2>2. after.peer # "left"
        BY <1>1, <2>1 DEF Allowed
    <2> QED
        BY <1>1, <2>1, <2>2 DEF ConnStep
  <1>3. ASSUME NEW c \in Client,
               \/ HubReceivesClient(c) \/ HubReceivesUnregister(c)
               \/ HubSends(c) \/ HubDrops(c)
        PROVE  Undisturbed'
    <2>1. server'.done = server.done /\ main' = main
        BY <1>3
        DEF HubReceivesClient, HubReceivesUnregister, HubSends, HubDrops, Visited,
            HubStates, ServerStates
    <2>2. hub'.pc \in {"register", "unregister", "fanOut"}
        BY <1>3
        DEF HubReceivesClient, HubReceivesUnregister, HubSends, HubDrops, Visits, Visited,
            HubStates, ServerStates
    <2>3. \A d \in Client : conn'[d].peer = conn[d].peer
        BY <1>1, <1>3
        DEF HubReceivesClient, HubReceivesUnregister, HubSends, HubDrops, ConnStates
    <2> QED
        BY <1>1, <2>1, <2>2, <2>3
  <1>4. ASSUME NEW c \in Client, HubPanics(c) PROVE FALSE
      BY <1>1, <1>4 DEF HubPanics, Visits, HubHandles, ConnPhases
  <1>5. CASE HubRegisters \/ HubUnregisters \/ HubFansOut \/ HubFinishesFanOut
    <2>1. server'.done = server.done /\ UNCHANGED <<main, conn>>
        BY <1>5
        DEF HubRegisters, HubUnregisters, HubFansOut, HubFinishesFanOut, ServerStates
    <2>2. CASE HubUnregisters
      <3>1. hub' = [hub EXCEPT !.pc = "closing"] \/ hub' = Waiting
          BY <2>2 DEF HubUnregisters
      <3> QED
          BY <1>1, <2>1, <3>1 DEF Waiting, HubStates
    <2>3. CASE HubRegisters \/ HubFansOut \/ HubFinishesFanOut
      <3>1. hub'.pc \in {"select", "fanOut"}
        <4>1. hub' = Waiting \/ hub' = [hub EXCEPT !.pc = "fanOut", !.todo = server.clients]
            BY <2>3 DEF HubRegisters, HubFansOut, HubFinishesFanOut
        <4> QED
          <5>1. Waiting.pc = "select"
              BY DEF Waiting
          <5>2. [hub EXCEPT !.pc = "fanOut", !.todo = server.clients].pc = "fanOut"
              BY DEF HubStates
          <5> QED
              BY <4>1, <5>1, <5>2
      <3> QED
          BY <1>1, <2>1, <3>1
    <2> QED
        BY <1>5, <2>2, <2>3
  <1>6. CASE HubCloses
      BY <1>1, <1>6 DEF HubCloses, Waiting
  <1>7. ASSUME NEW b \in Broadcaster,
               HubReceivesEvent(b) \/ BroadcastCalled(b) \/ BroadcastDone(b)
        PROVE  Undisturbed'
      BY <1>1, <1>7 DEF HubReceivesEvent, BroadcastCalled, BroadcastDone, HubStates
  <1>8. ~HubCancelled
      BY DEF HubCancelled
  <1>9. CASE StopCalled \/ StopLocks
    <2>1. server'.done = server.done /\ UNCHANGED <<hub, conn>>
        BY <1>9 DEF StopCalled, StopLocks, ServerStates
    <2>2. main \in {"running", "stopLock"} /\ main' \in {"stopLock", "stopping"}
        BY <1>9 DEF StopCalled, StopLocks
    <2> QED
        BY <1>1, <2>1, <2>2
  <1>10. ASSUME NEW c \in Client, StopCloses(c) PROVE Undisturbed'
      BY <1>1, <1>10 DEF StopCloses
  <1>11. CASE StopReturns
    <2>1. main = "stopping" /\ ~server.done
        BY <1>11 DEF StopReturns, Stopping
    <2>2. main' = "returned" /\ UNCHANGED <<hub, conn>>
        BY <1>11, <2>1, Zenon DEF StopReturns
    <2> QED
        BY <1>1, <2>2
  <1>12. CASE UNCHANGED vars
      BY <1>12 DEF vars
  <1> QED
      BY <1>2, <1>3, <1>4, <1>5, <1>6, <1>7, <1>8, <1>9, <1>10, <1>11, <1>12
      DEF Next, HubStep, StopStep

\* As long as no peer leaves and the context is not cancelled, the hub sends on no closed
\* channel and s.done is closed once: full buffers, failed writes and a Stop in the middle
\* of a fan-out cause no panic.
THEOREM NothingPanicsUndisturbed ==
    ASSUME "leave" \notin Events, "cancel" \notin Events
    PROVE  Spec => []NeverPanics
  <1>1. Init => Undisturbed
      BY DEF Init, Undisturbed, Waiting
  <1>2. HubInv /\ Undisturbed /\ [Next]_vars => Undisturbed'
      BY UndisturbedStep
  <1>3. Undisturbed => NeverPanics
      BY DEF Undisturbed, NeverPanics
  <1> QED
      BY <1>1, <1>2, <1>3, HubInvariant, PTL DEF Spec
=============================================================================
