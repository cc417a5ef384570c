------------------------------- MODULE WSHub -------------------------------
(***************************************************************************)
(* The websocket hub: internal/web/websocket.go.  One hub goroutine runs   *)
(* WSServer.Start; every client has a ServeWS call and two pumps; any      *)
(* goroutine may Broadcast (the state-change callbacks of the instances,   *)
(* the web handlers, the metrics ticker); main calls WSServer.Stop.        *)
(*                                                                         *)
(* The channels register, unregister and broadcast are unbuffered: a send  *)
(* and the hub's receive are one step.  An event is a token, since no      *)
(* decision depends on its contents.  A panic ends the program; the model   *)
(* stops the goroutine that panics and lets the others run.                *)
(***************************************************************************)
EXTENDS Naturals, FiniteSets

CONSTANTS
    Client,       \* websocket clients
    Broadcaster,  \* goroutines that call Broadcast
    Capacity,     \* capacity of Client.send (256 in the code)
    NoClient,     \* the hub handles no client
    Events        \* what the environment may do

ASSUME CapacityAssumption == Capacity \in Nat \ {0}
ASSUME NoClientAssumption == NoClient \notin Client
ASSUME HubEventsAssumption ==
    Events \subseteq {"leave",   \* a peer closes or loses its connection
                      "stall",   \* a peer stops reading but keeps its connection
                      "ping",    \* a peer sends the dashboard's JSON ping
                      "cancel"}  \* the application context is cancelled

VARIABLES
    server,  \* clients; mu: "free", "hub" or "main", whoever holds s.mu; done: s.done is closed
    hub,     \* the hub goroutine: pc; client, the one it handles; todo, left to visit in a fan-out
    main,    \* next step of the goroutine that calls WSServer.Stop
    caster,  \* per broadcaster: "idle" or "send"
    conn     \* per client: serve, writer and reader, the next steps of its goroutines; peer, the
             \* remote end; closed: Close has run; buffered, events in send; mu, who holds c.mu

vars == <<server, hub, main, caster, conn>>

ServerStates == [clients : SUBSET Client, mu : {"free", "hub", "main"}, done : BOOLEAN]

HubStates ==
    [pc : {"select", "register", "unregister", "closing", "fanLock", "fanOut",
           "stopLock", "stopping", "exited", "panicked"},
     client : Client \cup {NoClient},
     todo : SUBSET Client]

ConnStates ==
    [serve : {"new", "register", "registered", "returned"},
     writer : {"off", "select", "lock", "write", "closing", "gone"},
     reader : {"off", "read", "lock", "pong", "unregister", "gone"},
     peer : {"ok", "stalled", "left"},
     closed : BOOLEAN,
     buffered : 0..Capacity,
     mu : {"free", "writer", "reader"}]

TypeOK ==
    /\ server \in ServerStates
    /\ hub \in HubStates
    /\ main \in {"running", "stopLock", "stopping", "returned", "panicked"}
    /\ caster \in [Broadcaster -> {"idle", "send"}]
    /\ conn \in [Client -> ConnStates]

Waiting == [pc |-> "select", client |-> NoClient, todo |-> {}]

Init ==
    /\ server = [clients |-> {}, mu |-> "free", done |-> FALSE]
    /\ hub = Waiting
    /\ main = "running"
    /\ caster = [b \in Broadcaster |-> "idle"]
    /\ conn = [c \in Client |-> [serve |-> "new", writer |-> "off", reader |-> "off",
                                 peer |-> "ok", closed |-> FALSE, buffered |-> 0,
                                 mu |-> "free"]]

\* Client.Close: the first call waits for c.mu and closes channel and connection; the
\* others wait for the first, then do nothing.
CanClose(c) == conn[c].closed \/ conn[c].mu = "free"

-----------------------------------------------------------------------------
(* ServeWS and the pumps.                                                  *)

ConnStep(c, after) ==
    /\ conn' = [conn EXCEPT ![c] = after]
    /\ UNCHANGED <<server, hub, main, caster>>

ServeUpgrades(c) ==
    /\ conn[c].serve = "new"
    /\ ConnStep(c, [conn[c] EXCEPT !.serve = "register"])

\* s.register <- client has returned: the pumps start.
ServeStartsPumps(c) ==
    /\ conn[c].serve = "registered"
    /\ ConnStep(c, [conn[c] EXCEPT !.serve = "returned", !.writer = "select", !.reader = "read"])

WriterAt(c, step) == conn[c].writer = step

\* An event from the channel; a closed channel still yields what it holds.
WriterTakes(c) ==
    /\ WriterAt(c, "select") /\ conn[c].buffered > 0
    /\ ConnStep(c, [conn[c] EXCEPT !.writer = "lock", !.buffered = @ - 1])

\* The 15 second ticker: a ping is written.
WriterPings(c) == WriterAt(c, "select") /\ ConnStep(c, [conn[c] EXCEPT !.writer = "lock"])

\* The channel is closed and empty.
WriterSeesClosed(c) ==
    /\ WriterAt(c, "select") /\ conn[c].closed /\ conn[c].buffered = 0
    /\ ConnStep(c, [conn[c] EXCEPT !.writer = "gone"])

WriterLocks(c) ==
    /\ WriterAt(c, "lock") /\ conn[c].mu = "free"
    /\ ConnStep(c, [conn[c] EXCEPT !.writer = "write", !.mu = "writer"])

\* A write to an open connection; one to a peer that left may still succeed.  There is
\* no write deadline: a write to a stalled peer does not return.
WriterSucceeds(c) ==
    /\ WriterAt(c, "write") /\ ~conn[c].closed /\ conn[c].peer # "stalled"
    /\ ConnStep(c, [conn[c] EXCEPT !.writer = "select", !.mu = "free"])

WriterFails(c) ==
    /\ WriterAt(c, "write") /\ (conn[c].closed \/ conn[c].peer = "left")
    /\ ConnStep(c, [conn[c] EXCEPT !.writer = "closing", !.mu = "free"])

\* The deferred Close: the client may still be in s.clients.
WriterCloses(c) ==
    /\ WriterAt(c, "closing") /\ CanClose(c)
    /\ ConnStep(c, [conn[c] EXCEPT !.writer = "gone", !.closed = TRUE])

ReaderAt(c, step) == conn[c].reader = step

\* Mutant: readPump returns without its deferred unregister.
ReaderLeaves(c) ==
    /\ ReaderAt(c, "read") /\ (conn[c].closed \/ conn[c].peer # "ok")
    /\ ConnStep(c, [conn[c] EXCEPT !.reader = "gone"])

\* Mutant: Close leaves the connection open, so that ReadMessage is not interrupted.
ReaderWaitsForPeer(c) ==
    /\ ReaderAt(c, "read") /\ conn[c].peer # "ok"
    /\ ConnStep(c, [conn[c] EXCEPT !.reader = "unregister"])

\* ReadMessage fails: the connection is closed, the peer left, or the read deadline passed.
ReaderFails(c) ==
    /\ ReaderAt(c, "read") /\ (conn[c].closed \/ conn[c].peer # "ok")
    /\ ConnStep(c, [conn[c] EXCEPT !.reader = "unregister"])

ReaderGetsPing(c) ==
    /\ "ping" \in Events
    /\ ReaderAt(c, "read") /\ ~conn[c].closed /\ conn[c].peer = "ok"
    /\ ConnStep(c, [conn[c] EXCEPT !.reader = "lock"])

ReaderLocks(c) ==
    /\ ReaderAt(c, "lock") /\ conn[c].mu = "free"
    /\ ConnStep(c, [conn[c] EXCEPT !.reader = "pong", !.mu = "reader"])

\* The pong is written, or its error is logged.
ReaderPongs(c) ==
    /\ ReaderAt(c, "pong") /\ (conn[c].closed \/ conn[c].peer # "stalled")
    /\ ConnStep(c, [conn[c] EXCEPT !.reader = "read", !.mu = "free"])

PeerLeaves(c) ==
    /\ "leave" \in Events /\ conn[c].serve # "new" /\ conn[c].peer # "left"
    /\ ConnStep(c, [conn[c] EXCEPT !.peer = "left"])

PeerStalls(c) ==
    /\ "stall" \in Events /\ conn[c].serve # "new" /\ conn[c].peer = "ok"
    /\ ConnStep(c, [conn[c] EXCEPT !.peer = "stalled"])

-----------------------------------------------------------------------------
(* Broadcast.                                                              *)

BroadcastCalled(b) ==
    /\ caster[b] = "idle"
    /\ caster' = [caster EXCEPT ![b] = "send"]
    /\ UNCHANGED <<server, hub, main, conn>>

\* <-s.done
BroadcastDone(b) ==
    /\ caster[b] = "send" /\ server.done
    /\ caster' = [caster EXCEPT ![b] = "idle"]
    /\ UNCHANGED <<server, hub, main, conn>>

-----------------------------------------------------------------------------
(* The hub goroutine, WSServer.Start.                                      *)

HubReceivesClient(c) ==
    /\ hub.pc = "select" /\ conn[c].serve = "register"
    /\ hub' = [hub EXCEPT !.pc = "register", !.client = c]
    /\ conn' = [conn EXCEPT ![c].serve = "registered"]
    /\ UNCHANGED <<server, main, caster>>

HubRegisters ==
    /\ hub.pc = "register" /\ server.mu = "free"
    /\ server' = [server EXCEPT !.clients = @ \cup {hub.client}]
    /\ hub' = Waiting
    /\ UNCHANGED <<main, caster, conn>>

HubReceivesUnregister(c) ==
    /\ hub.pc = "select" /\ ReaderAt(c, "unregister")
    /\ hub' = [hub EXCEPT !.pc = "unregister", !.client = c]
    /\ conn' = [conn EXCEPT ![c].reader = "gone"]
    /\ UNCHANGED <<server, main, caster>>

\* Mutant: the lock is kept when the client is no longer there.
HubKeepsLockIfAbsent ==
    /\ hub.pc = "unregister" /\ server.mu = "free"
    /\ server' = [server EXCEPT !.clients = @ \ {hub.client}, !.mu = "hub"]
    /\ hub' = IF hub.client \in server.clients THEN [hub EXCEPT !.pc = "closing"] ELSE Waiting
    /\ UNCHANGED <<main, caster, conn>>

\* Lock, and delete the client if it is still there; its Close runs under the lock.
HubUnregisters ==
    /\ hub.pc = "unregister" /\ server.mu = "free"
    /\ IF hub.client \in server.clients
         THEN /\ server' = [server EXCEPT !.clients = @ \ {hub.client}, !.mu = "hub"]
              /\ hub' = [hub EXCEPT !.pc = "closing"]
         ELSE hub' = Waiting /\ UNCHANGED server
    /\ UNCHANGED <<main, caster, conn>>

HubCloses ==
    /\ hub.pc = "closing" /\ CanClose(hub.client)
    /\ conn' = [conn EXCEPT ![hub.client].closed = TRUE]
    /\ server' = [server EXCEPT !.mu = "free"]
    /\ hub' = Waiting
    /\ UNCHANGED <<main, caster>>

HubReceivesEvent(b) ==
    /\ hub.pc = "select" /\ caster[b] = "send"
    /\ hub' = [hub EXCEPT !.pc = "fanLock"]
    /\ caster' = [caster EXCEPT ![b] = "idle"]
    /\ UNCHANGED <<server, main, conn>>

HubFansOut ==
    /\ hub.pc = "fanLock" /\ server.mu = "free"
    /\ hub' = [hub EXCEPT !.pc = "fanOut", !.todo = server.clients]
    /\ server' = [server EXCEPT !.mu = "hub"]
    /\ UNCHANGED <<main, caster, conn>>

Visits(c) == hub.pc = "fanOut" /\ c \in hub.todo
Visited(c) == hub' = [hub EXCEPT !.todo = @ \ {c}] /\ UNCHANGED <<main, caster>>

\* A send on a closed channel panics, in a select with a default as well.
HubPanics(c) ==
    /\ Visits(c) /\ conn[c].closed
    /\ hub' = [hub EXCEPT !.pc = "panicked"]
    /\ UNCHANGED <<server, main, caster, conn>>

\* Mutant: the fan-out does not look at the room left in the channel.
HubSendsBlindly(c) ==
    /\ Visits(c) /\ ~conn[c].closed
    /\ conn' = [conn EXCEPT ![c].buffered = @ + 1]
    /\ Visited(c) /\ UNCHANGED server

HubSends(c) ==
    /\ Visits(c) /\ ~conn[c].closed /\ conn[c].buffered < Capacity
    /\ conn' = [conn EXCEPT ![c].buffered = @ + 1]
    /\ Visited(c) /\ UNCHANGED server

Full(c) == ~conn[c].closed /\ conn[c].buffered = Capacity

\* Mutant: a client whose buffer is full is closed but kept in s.clients.
HubKeepsClient(c) ==
    /\ Visits(c) /\ Full(c) /\ CanClose(c)
    /\ conn' = [conn EXCEPT ![c].closed = TRUE]
    /\ Visited(c) /\ UNCHANGED server

\* Mutant: a client whose buffer is full is dropped from s.clients and not closed.
HubForgetsClient(c) ==
    /\ Visits(c) /\ Full(c)
    /\ server' = [server EXCEPT !.clients = @ \ {c}]
    /\ Visited(c) /\ UNCHANGED conn

\* The buffer is full: the client is closed and dropped, while s.mu is held.
HubDrops(c) ==
    /\ Visits(c) /\ Full(c) /\ CanClose(c)
    /\ conn' = [conn EXCEPT ![c].closed = TRUE]
    /\ server' = [server EXCEPT !.clients = @ \ {c}]
    /\ Visited(c)

\* Mutant: the fan-out returns to the select with the lock held.
HubKeepsLock ==
    /\ hub.pc = "fanOut" /\ hub.todo = {}
    /\ hub' = Waiting
    /\ UNCHANGED <<server, main, caster, conn>>

HubFinishesFanOut ==
    /\ hub.pc = "fanOut" /\ hub.todo = {}
    /\ hub' = Waiting
    /\ server' = [server EXCEPT !.mu = "free"]
    /\ UNCHANGED <<main, caster, conn>>

HubCancelled ==
    /\ "cancel" \in Events
    /\ hub.pc = "select"
    /\ hub' = [hub EXCEPT !.pc = "stopLock"]
    /\ UNCHANGED <<server, main, caster, conn>>

-----------------------------------------------------------------------------
(* WSServer.Stop, called by main and, when its context ends, by the hub.   *)

StopCalled ==
    /\ main = "running"
    /\ main' = "stopLock"
    /\ UNCHANGED <<server, hub, caster, conn>>

StopLocks ==
    /\ server.mu = "free"
    /\ \/ /\ hub.pc = "stopLock" /\ hub' = [hub EXCEPT !.pc = "stopping"]
          /\ server' = [server EXCEPT !.mu = "hub"]
          /\ UNCHANGED main
       \/ /\ main = "stopLock" /\ main' = "stopping"
          /\ server' = [server EXCEPT !.mu = "main"]
          /\ UNCHANGED hub
    /\ UNCHANGED <<caster, conn>>

Stopping == hub.pc = "stopping" \/ main = "stopping"

StopCloses(c) ==
    /\ Stopping /\ c \in server.clients /\ CanClose(c)
    /\ conn' = [conn EXCEPT ![c].closed = TRUE]
    /\ server' = [server EXCEPT !.clients = @ \ {c}]
    /\ UNCHANGED <<hub, main, caster>>

\* close(s.done), which panics the second time, and Unlock.
StopReturns ==
    /\ Stopping /\ server.clients = {}
    /\ server' = [server EXCEPT !.done = TRUE, !.mu = "free"]
    /\ LET After(returned) == IF server.done THEN "panicked" ELSE returned
       IN  IF main = "stopping"
             THEN main' = After("returned") /\ UNCHANGED hub
             ELSE hub' = [hub EXCEPT !.pc = After("exited")] /\ UNCHANGED main
    /\ UNCHANGED <<caster, conn>>

-----------------------------------------------------------------------------
HubStep ==
    \/ HubRegisters \/ HubUnregisters \/ HubCloses \/ HubFansOut \/ HubFinishesFanOut
    \/ \E c \in Client : HubReceivesClient(c) \/ HubReceivesUnregister(c)
                         \/ HubPanics(c) \/ HubSends(c) \/ HubDrops(c)
    \/ \E b \in Broadcaster : HubReceivesEvent(b)

WriterStep(c) ==
    \/ WriterTakes(c) \/ WriterSeesClosed(c) \/ WriterLocks(c)
    \/ WriterSucceeds(c) \/ WriterFails(c) \/ WriterCloses(c)

ReaderStep(c) == ReaderFails(c) \/ ReaderLocks(c) \/ ReaderPongs(c)

StopStep == StopLocks \/ StopReturns \/ \E c \in Client : StopCloses(c)

Next ==
    \/ HubStep \/ HubCancelled \/ StopCalled \/ StopStep
    \/ \E b \in Broadcaster : BroadcastCalled(b) \/ BroadcastDone(b)
    \/ \E c \in Client :
         \/ ServeUpgrades(c) \/ ServeStartsPumps(c)
         \/ WriterStep(c) \/ WriterPings(c)
         \/ ReaderStep(c) \/ ReaderGetsPing(c)
         \/ PeerLeaves(c) \/ PeerStalls(c)

Spec == Init /\ [][Next]_vars

(* Go's scheduler starves no goroutine, its mutexes hand over to the longest *)
(* waiter, its channels serve senders in order and its select picks among    *)
(* the ready cases at random.  Nothing obliges a peer, a caller of Broadcast *)
(* or main to do anything.                                                   *)
Fairness ==
    /\ SF_vars(HubStep)
    /\ \A b \in Broadcaster : SF_vars(HubReceivesEvent(b) \/ BroadcastDone(b))
    /\ \A c \in Client :
        /\ SF_vars(HubReceivesClient(c) \/ ServeStartsPumps(c))
        /\ SF_vars(WriterStep(c))
        /\ SF_vars(ReaderStep(c) \/ HubReceivesUnregister(c))
    /\ SF_vars(StopStep)

FairSpec == Spec /\ Fairness

-----------------------------------------------------------------------------
(* Properties.                                                             *)

\* A client in s.clients still has a readPump that will unregister it, or the hub is
\* doing so: no entry outlives its connection's goroutines (169-196, 235-238, 70-77).
ClientsHaveReaders ==
    \A c \in server.clients :
        conn[c].reader = "gone" => hub.pc = "unregister" /\ hub.client = c

\* A client that has left s.clients has been closed, whoever removed it: the hub, when it
\* unregisters or when a buffer is full, or Stop (70-92, 95-106).  So no connection stays
\* open that no broadcast reaches.
RemovedIsClosed ==
    \A c \in Client :
        conn[c].serve \in {"registered", "returned"} /\ c \notin server.clients /\ hub.client # c
            => conn[c].closed

\* The fan-out never visits a client that the hub or Stop has closed, however full the
\* buffers get and whenever Stop is called; only a client whose peer left, and whose
\* writePump has closed it, may be closed there (80-92, 95-106, 202-205).
VisitedAreOpen == \A c \in Client : Visits(c) /\ conn[c].closed => conn[c].peer = "left"

\* What the invariants above need to be inductive.  Who holds s.mu; which client the hub
\* handles, and that it is not yet, or no longer, in s.clients when it registers or closes
\* it; that a fan-out visits members only; where the goroutines of a connection are.
LockIsOwned ==
    /\ hub.pc \in {"closing", "fanOut", "stopping"} => server.mu = "hub"
    /\ main = "stopping" => server.mu = "main"

HasClient == hub.client # NoClient <=> hub.pc \in {"register", "unregister", "closing"}

HubHandles ==
    /\ hub.pc = "register" =>
         /\ conn[hub.client].reader # "gone"
         /\ conn[hub.client].closed => conn[hub.client].peer = "left"
    /\ hub.pc \in {"register", "closing"} => hub.client \notin server.clients
    /\ hub.pc = "unregister" /\ hub.client \notin server.clients => conn[hub.client].closed
    /\ hub.pc = "fanOut" => hub.todo \subseteq server.clients

ConnPhases ==
    \A c \in Client :
        /\ conn[c].serve \in {"new", "register"} =>
             c \notin server.clients /\ hub.client # c /\ ~conn[c].closed
        /\ conn[c].serve # "returned" => conn[c].writer = "off" /\ conn[c].reader = "off"
        /\ conn[c].writer = "closing" => conn[c].closed \/ conn[c].peer = "left"
        /\ c \in server.clients /\ conn[c].closed => conn[c].peer = "left"

HubInv ==
    /\ TypeOK
    /\ ClientsHaveReaders
    /\ RemovedIsClosed
    /\ LockIsOwned
    /\ HasClient
    /\ HubHandles
    /\ ConnPhases

\* websocket.go:211: only the "Server closed the channel".  So the hub never sends on a
\* client channel that is closed (82), nor is s.done closed twice (105).
NeverPanics == hub.pc # "panicked" /\ main # "panicked"

\* Broadcast returns: a state-change callback, which runs in the goroutine that waits for
\* a child or in Process.Stop, is not held up by the clients (109-115, 80-92).
BroadcastReturns ==
    \A b \in Broadcaster : caster[b] = "send" ~> (caster[b] = "idle" \/ ~NeverPanics)

\* WSServer.Stop returns, so that shutdown goes on (95-106, main.go 107-110).
StopReturnsEventually == main = "stopLock" ~> (main = "returned" \/ ~NeverPanics)

\* The pumps of a closed client end: no goroutine is leaked (199-278).
PumpsEnd ==
    \A c \in Client :
        conn[c].closed ~> (WriterAt(c, "gone") /\ ReaderAt(c, "gone")) \/ ~NeverPanics
=============================================================================
