----------------------------- MODULE ControlConn -----------------------------
(***************************************************************************)
(* The control connection of one cluster.  Three kinds of goroutine work   *)
(* on a ControlConn after Start: the loop that keeps a connection open and *)
(* probes it, the debouncer that refreshes the topology when an event asks *)
(* for it, and the client handlers, which take a host from the topology    *)
(* and want to know when that host leaves.  The health check reads the     *)
(* failure counter.                                                        *)
(*                                                                         *)
(* A topology is the set of hosts the cluster has; topologies is its       *)
(* history, and a version is an index of it.  A connection is a small      *)
(* number, free for reuse once nothing refers to it.                       *)
(***************************************************************************)
EXTENDS Naturals, Sequences, FiniteSets, Functions

CONSTANTS
    Hosts,          \* the nodes of the cluster; a node is also an endpoint
    LocalDc,        \* the nodes of the datacenter that the first Open settled on
    Removable,      \* the nodes that may leave
    ContactPoints,  \* the configured contact points, not all need be nodes
    Astra,          \* whether contact points come from a metadata service
    Conns,          \* connections
    Clients,        \* client connections accepted by the proxy
    None,           \* no connection: a nil cqlConn
    MaxChanges,     \* bound on topology changes
    MaxFaults,      \* bound on breaks and failing requests together
    MaxFailures     \* bound at which the model stops counting failures

ASSUME ConstantsAssumption ==
    /\ Conns # {} /\ None \notin Conns
    /\ MaxFaults \in Nat /\ MaxFailures \in Nat

VARIABLES
    topologies,     \* the cluster: every topology it has had, the last is current
    open,           \* connection -> its endpoint and whether it asked for topology
                    \* events, for the connections that are open on both sides
    events,         \* connections on which an event is on its way
    breaks, slows,  \* failures so far
    ctxDone,        \* cc.context is cancelled
    cqlConn,        \* cc.cqlConn
    stored,         \* the version in hostsInLocalDcById and assignedHosts
    failures,       \* cc.consecutiveFailures
    refreshCh,      \* cc.refreshHostsDebouncer, capacity 1
    reconnectCh,    \* cc.reconnectCh, capacity 1
    contactPoints,  \* what GetContactPoints returns
    err,            \* the variable err of Start, shared by both goroutines
    loop,           \* the loop: its place and its local variables
    debouncer,      \* the debouncer: its place and its local variables
    client,         \* place, host and shutdown request of every client handler
    heartbeatOk,    \* whether the heartbeat before the loop's last check was answered
    crashed         \* the process died of a nil dereference

cluster == <<topologies, open, events, breaks, slows>>
shared == <<ctxDone, cqlConn, stored, failures, refreshCh, reconnectCh,
            contactPoints, err>>
vars == <<cluster, shared, loop, debouncer, client, heartbeatOk, crashed>>

alive == DOMAIN open
Dropped(conns) == Restrict(open, alive \ conns)

Current == Len(topologies)
HostsOf(v) == topologies[v]
\* filterHosts: the hosts of the datacenter that is already set.
LocalHosts(v) == HostsOf(v) \cap LocalDc

TypeOK ==
    /\ topologies \in Seq(SUBSET Hosts)
    /\ alive \subseteq Conns /\ events \subseteq Conns
    /\ \A c \in alive : open[c] \in [at : Hosts, subscribed : BOOLEAN]
    /\ {breaks, slows} \subseteq 0..MaxFaults
    /\ cqlConn \in Conns \cup {None}
    /\ stored \in 1..Current
    /\ failures \in 0..MaxFailures
    /\ refreshCh \in Conns \cup {None}
    /\ {reconnectCh, ctxDone, err, heartbeatOk, crashed} \subseteq BOOLEAN
    /\ contactPoints \subseteq Hosts \cup ContactPoints
    /\ loop \in [pc : {"top", "choose", "connect", "initialize", "subscribe", "query",
                       "store", "set", "heartbeat", "check", "sleep", "done"},
                 conn : Conns \cup {None}, todo : SUBSET (Hosts \cup ContactPoints),
                 rest : SUBSET (Hosts \cup ContactPoints), snap : 1..Current,
                 reconnect : BOOLEAN, lastOpen : BOOLEAN]
    /\ debouncer \in [pc : {"wait", "query", "store", "check", "done"},
                      conn : Conns \cup {None}, snap : 1..Current]
    /\ client \in [Clients -> [pc : {"none", "picked", "created", "registered",
                                     "running", "gone"},
                               host : Hosts, asked : BOOLEAN]]

-----------------------------------------------------------------------------
\* Start has opened the first connection, to a contact point, and read the
\* first topology; both goroutines begin.
Init ==
    /\ \E t \in SUBSET Hosts :
         /\ t \cap LocalDc # {} /\ Hosts \ Removable \subseteq t
         /\ topologies = <<t>>
         /\ cqlConn = CHOOSE c \in Conns : TRUE
         /\ \E h \in t \cap ContactPoints :
                open = [c \in {cqlConn} |-> [at |-> h, subscribed |-> TRUE]]
    /\ events = {} /\ breaks = 0 /\ slows = 0
    /\ ctxDone = FALSE
    /\ stored = 1
    /\ failures = 0
    /\ refreshCh = None
    /\ reconnectCh = FALSE
    /\ contactPoints = ContactPoints
    /\ err = FALSE
    /\ loop = [pc |-> "top", conn |-> None, todo |-> {}, rest |-> {},
               snap |-> 1, reconnect |-> FALSE, lastOpen |-> TRUE]
    /\ debouncer = [pc |-> "wait", conn |-> None, snap |-> 1]
    /\ client = [c \in Clients |-> [pc |-> "none", asked |-> FALSE,
                                    host |-> CHOOSE h \in Hosts : TRUE]]
    /\ heartbeatOk = TRUE
    /\ crashed = FALSE

-----------------------------------------------------------------------------
(* The cluster and the network. *)

\* Nodes join and leave.  Connections to a node that left are gone; the others
\* that are subscribed get an event.
ChangeTopology ==
    /\ Current <= MaxChanges
    /\ \E t \in (SUBSET Hosts) \ {{}, HostsOf(Current)} :
         /\ Hosts \ Removable \subseteq t
         /\ topologies' = Append(topologies, t)
         /\ open' = Dropped({c \in alive : open[c].at \notin t})
         /\ events' = events \cup {c \in DOMAIN open' : open[c].subscribed}
    /\ UNCHANGED <<breaks, slows, shared, loop, debouncer,
                   client, heartbeatOk, crashed>>

\* A connection breaks.
Break ==
    /\ breaks + slows < MaxFaults
    /\ breaks' = breaks + 1
    /\ \E c \in alive : open' = Dropped({c})
    /\ UNCHANGED <<topologies, events, slows, shared, loop,
                   debouncer, client, heartbeatOk, crashed>>

\* An event that was on its way over a connection that broke is lost.
LoseEvent ==
    /\ \E c \in events \ alive : events' = events \ {c}
    /\ UNCHANGED <<topologies, open, breaks, slows, shared,
                   loop, debouncer, client, heartbeatOk, crashed>>

\* Events are also discarded while a refresh is running.
EventHandlerWhileRefreshing ==
    /\ ~crashed
    /\ \E c \in events :
         /\ events' = events \ {c}
         /\ refreshCh' = IF refreshCh = None /\ debouncer.pc = "wait"
                         THEN c ELSE refreshCh
    /\ UNCHANGED <<topologies, open, breaks, slows, ctxDone,
                   cqlConn, stored, failures, reconnectCh, contactPoints, err,
                   loop, debouncer, client, heartbeatOk, crashed>>

\* The event handler that openInternal installs: at most one refresh is
\* scheduled, later events are discarded until it is taken.
EventHandler ==
    /\ ~crashed
    /\ \E c \in events :
         /\ events' = events \ {c}
         /\ refreshCh' = IF refreshCh = None THEN c ELSE refreshCh
    /\ UNCHANGED <<topologies, open, breaks, slows, ctxDone,
                   cqlConn, stored, failures, reconnectCh, contactPoints, err,
                   loop, debouncer, client, heartbeatOk, crashed>>

\* What a request on connection c meets: answered, or failed.  It fails on a
\* connection that is gone, when the context is cancelled, or because the node
\* is slow or answers with an error.
Answered(c) == c \in alive /\ UNCHANGED slows
Failed(c) ==
    \/ (c \notin alive \/ ctxDone) /\ UNCHANGED slows
    \/ c \in alive /\ ~ctxDone /\ breaks + slows < MaxFaults /\ slows' = slows + 1

-----------------------------------------------------------------------------
(* RefreshHosts, which the loop and the debouncer both run. *)

\* The two queries: a topology without a host of the local datacenter is an
\* error.
QueryOk(c) == Answered(c) /\ LocalHosts(Current) # {}
QueryFailed(c) ==
    \/ Failed(c)
    \/ c \in alive /\ LocalHosts(Current) = {} /\ UNCHANGED slows

Registered(c) == client[c].pc \in {"registered", "running"}

\* The critical section under topologyLock: the new topology is stored, and the
\* observers of the hosts that are not in it are told.
StoreHosts(v) ==
    /\ stored' = v
    /\ client' = [c \in Clients |->
         IF Registered(c) /\ client[c].host \in HostsOf(stored) \ HostsOf(v)
         THEN [client[c] EXCEPT !.asked = TRUE] ELSE client[c]]

-----------------------------------------------------------------------------
(* The loop of Start that keeps the connection open. *)

Loop(pc) == loop.pc = pc /\ ~crashed
Goto(pc) == loop' = [loop EXCEPT !.pc = pc]

\* ControlConn.Close.
Close == cqlConn' = None /\ open' = Dropped({cqlConn})

\* IncrementFailureCounter, counted up to the bound of the model.
IncrementFailureCounter ==
    failures' = IF failures < MaxFailures THEN failures + 1 ELSE failures

\* Open tries the known hosts and then the contact points that are not among
\* them, or the contact points only.
OpenHosts == [loop EXCEPT !.pc = "connect", !.reconnect = FALSE, !.conn = None,
                          !.todo = HostsOf(stored),
                          !.rest = contactPoints \ HostsOf(stored)]
OpenContactPoints == [loop EXCEPT !.pc = "connect", !.todo = contactPoints,
                                  !.rest = {}]

\* RefreshContactPoints, after an Open that failed: the metadata service may
\* fail or give new endpoints.  Its error, too, goes to the err of Start ...
RefreshContactPoints ==
    /\ \/ Astra /\ err' = TRUE /\ UNCHANGED contactPoints
       \/ /\ err' = FALSE
          /\ contactPoints' = IF Astra THEN HostsOf(Current) ELSE contactPoints
    /\ loop' = [loop EXCEPT !.pc = "choose", !.reconnect = FALSE, !.conn = None]

\* ... from where the loop reads it to choose the endpoints.
ChooseEndpoints ==
    /\ Loop("choose")
    /\ loop' = IF err THEN OpenHosts ELSE OpenContactPoints
    /\ UNCHANGED <<cluster, shared, debouncer, client, heartbeatOk, crashed>>

\* The head of the loop: a requested reconnection closes the connection, and
\* without a connection Open begins.
LoopTop ==
    /\ Loop("top")
    /\ ~ctxDone
    /\ reconnectCh' = FALSE
    /\ IF loop.reconnect \/ reconnectCh THEN Close ELSE UNCHANGED <<cqlConn, open>>
    /\ IF cqlConn' # None
       THEN /\ loop' = [loop EXCEPT !.pc = "heartbeat", !.conn = cqlConn]
            /\ UNCHANGED <<contactPoints, err>>
       ELSE IF loop.lastOpen
       THEN loop' = OpenHosts /\ UNCHANGED <<contactPoints, err>>
       ELSE RefreshContactPoints
    /\ UNCHANGED <<topologies, events, breaks, slows, ctxDone,
                   stored, failures, refreshCh, debouncer, client, heartbeatOk,
                   crashed>>

\* The loop ends without closing the connection.
LoopExitOpen ==
    /\ Loop("top")
    /\ ctxDone
    /\ Goto("done")
    /\ UNCHANGED <<cluster, shared, debouncer, client, heartbeatOk, crashed>>

\* The context is cancelled: the loop ends and its deferred Close runs.
LoopExit ==
    /\ Loop("top")
    /\ ctxDone
    /\ Close
    /\ Goto("done")
    /\ UNCHANGED <<topologies, events, breaks, slows, ctxDone,
                   stored, failures, refreshCh, reconnectCh, contactPoints, err,
                   debouncer, client, heartbeatOk, crashed>>

\* Connections nothing refers to any more.
Free == Conns \ (alive \cup events \cup {cqlConn, refreshCh, debouncer.conn})

\* openInternal, one endpoint: connect.  The endpoints are tried in any order,
\* once each.
Connect ==
    /\ Loop("connect")
    /\ ~ctxDone
    /\ \E e \in loop.todo :
         \/ /\ e \in HostsOf(Current)
            /\ \E c \in Free :
                 /\ c = CHOOSE x \in Free : TRUE
                 /\ open' = [x \in alive \cup {c} |->
                             IF x = c THEN [at |-> e, subscribed |-> FALSE] ELSE open[x]]
                 /\ loop' = [loop EXCEPT !.pc = "initialize", !.conn = c,
                                         !.todo = @ \ {e}]
            /\ UNCHANGED slows
         \/ /\ \/ e \notin HostsOf(Current) /\ UNCHANGED slows
               \/ e \in HostsOf(Current) /\ breaks + slows < MaxFaults /\ slows' = slows + 1
            /\ loop' = [loop EXCEPT !.todo = @ \ {e}]
            /\ UNCHANGED open
    /\ UNCHANGED <<topologies, events, breaks, shared, debouncer, client,
                   heartbeatOk, crashed>>

\* The known hosts are exhausted: on to the contact points.
TryContactPoints ==
    /\ Loop("connect")
    /\ ~ctxDone
    /\ loop.todo = {} /\ loop.rest # {}
    /\ loop' = [loop EXCEPT !.todo = loop.rest, !.rest = {}]
    /\ UNCHANGED <<cluster, shared, debouncer, client, heartbeatOk, crashed>>

\* Open returns an error.  It counts as a failure unless the proxy is
\* shutting down.
OpenFailed ==
    /\ Loop("connect")
    /\ ctxDone \/ (loop.todo = {} /\ loop.rest = {})
    /\ IF ctxDone THEN UNCHANGED failures ELSE IncrementFailureCounter
    /\ loop' = [loop EXCEPT !.pc = "top", !.lastOpen = ctxDone /\ @]
    /\ UNCHANGED <<cluster, ctxDone, cqlConn, stored, refreshCh, reconnectCh,
                   contactPoints, err, debouncer, client, heartbeatOk, crashed>>

\* The failed connection stays open.
AbandonOpen ==
    /\ UNCHANGED open
    /\ loop' = [loop EXCEPT !.pc = "connect", !.conn = None]

\* A new connection that fails before it is set is closed, and the next
\* endpoint is tried.
Abandon ==
    /\ open' = Dropped({loop.conn})
    /\ loop' = [loop EXCEPT !.pc = "connect", !.conn = None]

\* The handshake on the new connection.
Initialize ==
    /\ Loop("initialize")
    /\ \/ Answered(loop.conn) /\ Goto("subscribe") /\ UNCHANGED open
       \/ Failed(loop.conn) /\ Abandon
    /\ UNCHANGED <<topologies, events, breaks, shared, debouncer, client,
                   heartbeatOk, crashed>>

Subscribe ==
    /\ Loop("subscribe")
    /\ \/ /\ Answered(loop.conn)
          /\ open' = [open EXCEPT ![loop.conn].subscribed = TRUE]
          /\ Goto("query")
       \/ Failed(loop.conn) /\ Abandon
    /\ UNCHANGED <<topologies, events, breaks, shared, debouncer, client,
                   heartbeatOk, crashed>>

LoopQuery ==
    /\ Loop("query")
    /\ \/ /\ QueryOk(loop.conn)
          /\ loop' = [loop EXCEPT !.pc = "store", !.snap = Current]
          /\ UNCHANGED open
       \/ QueryFailed(loop.conn) /\ Abandon
    /\ UNCHANGED <<topologies, events, breaks, shared, debouncer,
                   client, heartbeatOk, crashed>>

LoopStore ==
    /\ Loop("store")
    /\ StoreHosts(loop.snap)
    /\ Goto("set")
    /\ UNCHANGED <<cluster, ctxDone, cqlConn, failures, refreshCh, reconnectCh,
                   contactPoints, err, debouncer, heartbeatOk, crashed>>

\* setConn, and what the loop does after a successful Open.
SetConn ==
    /\ Loop("set")
    /\ cqlConn' = loop.conn
    /\ IF ctxDone
       THEN loop' = [loop EXCEPT !.pc = "top", !.snap = 1] /\ UNCHANGED failures
       ELSE /\ failures' = 0
            /\ loop' = [loop EXCEPT !.pc = "heartbeat", !.snap = 1, !.todo = {},
                                    !.rest = {}, !.lastOpen = TRUE]
    /\ UNCHANGED <<cluster, ctxDone, stored, refreshCh, reconnectCh,
                   contactPoints, err, debouncer, client, heartbeatOk, crashed>>

\* SendHeartbeat writes its result to the err of Start ...
Heartbeat ==
    /\ Loop("heartbeat")
    /\ \/ Answered(loop.conn) /\ heartbeatOk' = TRUE
       \/ Failed(loop.conn) /\ heartbeatOk' = FALSE
    /\ err' = ~heartbeatOk'
    /\ Goto("check")
    /\ UNCHANGED <<topologies, open, events, breaks, ctxDone,
                   cqlConn, stored, failures, refreshCh, reconnectCh,
                   contactPoints, debouncer, client, crashed>>

\* A failed heartbeat is counted, and the connection is kept.
CheckHeartbeatKeeps ==
    /\ Loop("check")
    /\ CASE ctxDone -> Goto("top") /\ UNCHANGED failures
         [] ~ctxDone /\ err -> IncrementFailureCounter /\ Goto("top")
         [] ~ctxDone /\ ~err -> failures' = 0 /\ Goto("sleep")
    /\ UNCHANGED <<cluster, ctxDone, cqlConn, stored, refreshCh, reconnectCh,
                   contactPoints, err, debouncer, client, heartbeatOk, crashed>>

\* ... and the loop then reads that variable.
CheckHeartbeat ==
    /\ Loop("check")
    /\ CASE ctxDone -> Goto("top") /\ UNCHANGED <<failures, cqlConn, open>>
         [] ~ctxDone /\ err -> IncrementFailureCounter /\ Close /\ Goto("top")
         [] ~ctxDone /\ ~err -> /\ failures' = 0
                                /\ Goto("sleep")
                                /\ UNCHANGED <<cqlConn, open>>
    /\ heartbeatOk' = (heartbeatOk \/ loop'.pc = "top")
    /\ UNCHANGED <<topologies, events, breaks, slows, ctxDone,
                   stored, refreshCh, reconnectCh, contactPoints, err,
                   debouncer, client, crashed>>

\* sleepWithContext: the heartbeat period passes, the context is cancelled, or
\* a reconnection is requested.
Sleep ==
    /\ Loop("sleep")
    /\ \/ Goto("top") /\ UNCHANGED reconnectCh
       \/ /\ reconnectCh
          /\ reconnectCh' = FALSE
          /\ loop' = [loop EXCEPT !.pc = "top", !.reconnect = TRUE]
    /\ heartbeatOk' = TRUE
    /\ UNCHANGED <<cluster, ctxDone, cqlConn, stored, failures, refreshCh,
                   contactPoints, err, debouncer, client, crashed>>

-----------------------------------------------------------------------------
(* The debouncer of Start. *)

Debouncer(pc) == debouncer.pc = pc /\ ~crashed

\* A refresh is scheduled: it uses the control connection, or the connection
\* of the event if there is none.
TakeRefresh ==
    /\ Debouncer("wait")
    /\ refreshCh # None
    /\ refreshCh' = None
    /\ debouncer' = [debouncer EXCEPT
         !.pc = "query", !.conn = IF cqlConn # None THEN cqlConn ELSE refreshCh]
    /\ UNCHANGED <<cluster, ctxDone, cqlConn, stored, failures, reconnectCh,
                   contactPoints, err, loop, client, heartbeatOk, crashed>>

DebouncerExit ==
    /\ Debouncer("wait")
    /\ ctxDone
    /\ debouncer' = [debouncer EXCEPT !.pc = "done", !.conn = None]
    /\ UNCHANGED <<cluster, shared, loop, client, heartbeatOk, crashed>>

\* The queries of RefreshHosts; an error is written to the err of Start.
DebouncerQuery ==
    /\ Debouncer("query")
    /\ \/ /\ QueryOk(debouncer.conn)
          /\ debouncer' = [debouncer EXCEPT !.pc = "store", !.snap = Current]
          /\ UNCHANGED err
       \/ /\ QueryFailed(debouncer.conn)
          /\ debouncer' = [debouncer EXCEPT !.pc = "check"]
          /\ err' = TRUE
    /\ UNCHANGED <<topologies, open, events, breaks, ctxDone,
                   cqlConn, stored, failures, refreshCh, reconnectCh,
                   contactPoints, loop, client, heartbeatOk, crashed>>

DebouncerStore ==
    /\ Debouncer("store")
    /\ StoreHosts(debouncer.snap)
    /\ err' = FALSE
    /\ debouncer' = [debouncer EXCEPT !.pc = "check"]
    /\ UNCHANGED <<cluster, ctxDone, cqlConn, failures, refreshCh, reconnectCh,
                   contactPoints, loop, heartbeatOk, crashed>>

\* The debouncer reads err back; a failed refresh asks for a reconnection.
DebouncerCheck ==
    /\ Debouncer("check")
    /\ reconnectCh' = (reconnectCh \/ (err /\ ~ctxDone))
    /\ debouncer' = [pc |-> "wait", conn |-> None, snap |-> 1]
    /\ UNCHANGED <<cluster, ctxDone, cqlConn, stored, failures, refreshCh,
                   contactPoints, err, loop, client, heartbeatOk, crashed>>

-----------------------------------------------------------------------------
(* The client handlers, as far as they use the control connection. *)

Client(c, pc) == client[c].pc = pc /\ ~crashed
Elsewhere == UNCHANGED <<cluster, shared, loop, debouncer, heartbeatOk>>

\* handleNewConnection takes a host from NextAssignedHost.
PickHost(c) ==
    /\ Client(c, "none")
    /\ ~ctxDone
    /\ \E h \in LocalHosts(stored) :
         client' = [client EXCEPT ![c].pc = "picked", ![c].host = h]
    /\ Elsewhere /\ UNCHANGED crashed

\* NewClientHandler asks cqlConn for its protocol version.
CreateHandler(c) ==
    /\ Client(c, "picked")
    /\ crashed' = (cqlConn = None)
    /\ client' = [client EXCEPT ![c].pc = "created"]
    /\ Elsewhere

\* addObserver: register first ...
RegisterObserver(c) ==
    /\ Client(c, "created")
    /\ client' = [client EXCEPT ![c].pc = "registered"]
    /\ Elsewhere /\ UNCHANGED crashed

\* addObserver without the second look.
CheckNothing(c) ==
    /\ Client(c, "registered")
    /\ client' = [client EXCEPT ![c].pc = "running"]
    /\ Elsewhere /\ UNCHANGED crashed

\* ... then look whether the host left before that.
CheckHost(c) ==
    /\ Client(c, "registered")
    /\ client' = [client EXCEPT ![c].pc = "running",
         ![c].asked = @ \/ client[c].host \notin HostsOf(stored)]
    /\ Elsewhere /\ UNCHANGED crashed

\* The handler ends, by itself or because it was asked to, and removes its
\* observer.
RemoveObserver(c) ==
    /\ Client(c, "running")
    /\ client' = [client EXCEPT ![c].pc = "gone"]
    /\ Elsewhere /\ UNCHANGED crashed

\* ZdmProxy.Shutdown cancels the control connections when no client handler is
\* left and no new one can come.
Shutdown ==
    /\ ~crashed
    /\ ~ctxDone
    /\ \A c \in Clients : client[c].pc \in {"none", "gone"}
    /\ ctxDone' = TRUE
    /\ UNCHANGED <<cluster, cqlConn, stored, failures, refreshCh, reconnectCh,
                   contactPoints, err, loop, debouncer, client, heartbeatOk, crashed>>

\* The process is down.
Terminated ==
    /\ crashed \/ (loop.pc = "done" /\ debouncer.pc = "done")
    /\ UNCHANGED vars

-----------------------------------------------------------------------------
LoopStep ==
    \/ LoopTop \/ ChooseEndpoints \/ LoopExit \/ Connect \/ TryContactPoints \/ OpenFailed
    \/ Initialize \/ Subscribe \/ LoopQuery \/ LoopStore \/ SetConn
    \/ Heartbeat \/ CheckHeartbeat \/ Sleep
DebouncerStep ==
    TakeRefresh \/ DebouncerExit \/ DebouncerQuery \/ DebouncerStore \/ DebouncerCheck
ClientStep(c) ==
    PickHost(c) \/ CreateHandler(c) \/ RegisterObserver(c) \/ CheckHost(c)
    \/ RemoveObserver(c)

Next ==
    \/ ChangeTopology \/ Break \/ LoseEvent \/ EventHandler
    \/ LoopStep \/ DebouncerStep
    \/ \E c \in Clients : ClientStep(c)
    \/ Shutdown \/ Terminated

Spec == Init /\ [][Next]_vars

\* Goroutines that can take a step do; events reach a connection that stays
\* open or are lost with it.  Nothing makes the cluster change, a connection
\* break, a client come or the operator stop the proxy.
Fairness ==
    /\ WF_vars(LoopStep)
    /\ WF_vars(DebouncerStep)
    /\ WF_vars(EventHandler)
    /\ \A c \in Clients : WF_vars(CreateHandler(c) \/ RegisterObserver(c) \/ CheckHost(c))

FairSpec == Spec /\ Fairness

-----------------------------------------------------------------------------
\* No connection is leaked: whatever Open, Close, a failed heartbeat or a
\* failed attempt do, an open connection is cqlConn or the one the loop is
\* still setting up, and none is open when the loop has ended.
NoLeakedConnections ==
    /\ TypeOK
    /\ alive \subseteq {cqlConn} \cup
         (IF loop.pc \in {"initialize", "subscribe", "query", "store", "set"} THEN {loop.conn} ELSE {})
    /\ loop.pc = "done" => alive = {}

\* A client handler whose observer is in place never stays on a host that the
\* proxy knows to have left: it has been asked to close (addObserver and
\* OnHostRemoved), also when the host left between the choice of the host and
\* the registration.
NoHandlerOnRemovedHost ==
    \A c \in Clients :
      client[c].pc = "running" /\ client[c].host \notin HostsOf(stored)
        => client[c].asked

\* A heartbeat that failed is acted upon: the loop never goes to sleep
\* believing that it succeeded.  This does not hold of the code: the refresh of
\* the debouncer may overwrite the shared err with nil before the loop reads it.
HeartbeatFailureSeen == loop.pc = "sleep" => heartbeatOk

\* Accepting a client while the control connection is being reopened does not
\* bring the proxy down (NewClientHandler).
ClientsSurviveReconnect == ~crashed

\* The control connection comes back: as long as the proxy runs, it always
\* has a live control connection again.
Reconnects == []<>(ctxDone \/ crashed \/ cqlConn \in alive)

\* As long as the control connection stays up and answers, the topology
\* that the proxy uses ends up being the one the cluster has, although the
\* event handler drops events and the debouncer merges refreshes.
TopologyCatchesUp ==
    [](cqlConn \in alive /\ slows = 0) => <>[](ctxDone \/ crashed \/ stored = Current)

\* Shutdown ends: both goroutines finish and nothing is left open.
ShutdownEnds == ctxDone ~> (loop.pc = "done" /\ debouncer.pc = "done" /\ alive = {})
=============================================================================
