-------------------------- MODULE ControlConnProofs --------------------------
(***************************************************************************)
(* Proofs about controlconn.go: the control connection (ControlConn) and   *)
(* the hosts it hands out (HostAssignment).                                *)
(*                                                                         *)
(* The control connection for any cluster, any contact points and any      *)
(* number of client handlers and faults.  That no connection is leaked     *)
(* needs one fact more than it says: Open runs only while cqlConn is nil   *)
(* (ConnInv), so that setConn overwrites no connection and a failed        *)
(* attempt leaves none behind.                                             *)
(*                                                                         *)
(* The assignment for any number of callers, hosts, instances and tokens.  *)
(*  - That an index is in range rests on the counter never going negative, *)
(*    because a remainder of Go has the sign of the dividend.  A caller    *)
(*    that reaches a multiple of the number n of assigned hosts still owes *)
(*    the counter n, so the counter is at least n times the number of      *)
(*    callers about to pay (Covered).                                      *)
(*  - That the turns are balanced rests on which hosts had one since the   *)
(*    last full round: the last len up to the counter, each once (InTurn). *)
(*  - The shares are even because instance i of count has the hosts        *)
(*    i, i + count, i + 2 * count and so on.                               *)
(***************************************************************************)
EXTENDS ControlConn, HostAssignment, TLAPS

\* Open runs, and has a connection that is not set yet.
Opening == {"choose", "connect", "initialize", "subscribe", "query", "store", "set"}
SettingUp == {"initialize", "subscribe", "query", "store", "set"}

ConnInv ==
    /\ loop.pc \in Opening => cqlConn = None
    /\ loop.pc \in SettingUp => loop.conn \in Conns

Inv == TypeOK /\ ConnInv /\ NoLeakedConnections /\ NoHandlerOnRemovedHost

-----------------------------------------------------------------------------
(* The types, one group of variables at a time. *)

ClusterTypes ==
    /\ topologies \in Seq(SUBSET Hosts)
    /\ alive \subseteq Conns /\ events \subseteq Conns
    /\ \A c \in alive : open[c] \in [at : Hosts, subscribed : BOOLEAN]
    /\ breaks \in 0..MaxFaults /\ slows \in 0..MaxFaults

SharedTypes ==
    /\ cqlConn \in Conns \cup {None} /\ refreshCh \in Conns \cup {None}
    /\ stored \in 1..Current /\ failures \in 0..MaxFailures
    /\ reconnectCh \in BOOLEAN /\ ctxDone \in BOOLEAN /\ err \in BOOLEAN
    /\ heartbeatOk \in BOOLEAN /\ crashed \in BOOLEAN
    /\ contactPoints \subseteq Hosts \cup ContactPoints

LoopType(versions) ==
    [pc : {"top", "choose", "connect", "initialize", "subscribe", "query",
           "store", "set", "heartbeat", "check", "sleep", "done"},
     conn : Conns \cup {None}, todo : SUBSET (Hosts \cup ContactPoints),
     rest : SUBSET (Hosts \cup ContactPoints), snap : versions,
     reconnect : BOOLEAN, lastOpen : BOOLEAN]

DebouncerType(versions) ==
    [pc : {"wait", "query", "store", "check", "done"}, conn : Conns \cup {None}, snap : versions]

ClientType ==
    [pc : {"none", "picked", "created", "registered", "running", "gone"},
     host : Hosts, asked : BOOLEAN]

LEMMA Typed ==
  TypeOK <=> /\ ClusterTypes /\ SharedTypes
             /\ loop \in LoopType(1..Current) /\ debouncer \in DebouncerType(1..Current)
             /\ client \in [Clients -> ClientType]
  BY Zenon DEF TypeOK, ClusterTypes, SharedTypes, LoopType, DebouncerType, ClientType

Step == Next \/ UNCHANGED vars

\* What a step may do to each variable that several goroutines use.
LEMMA Effects ==
  ASSUME Step
  PROVE  /\ UNCHANGED topologies \/ ChangeTopology
         /\ \/ UNCHANGED open
            \/ ChangeTopology \/ Break \/ LoopTop \/ LoopExit \/ CheckHeartbeat
            \/ Connect \/ Initialize \/ Subscribe \/ LoopQuery
         /\ \/ UNCHANGED <<breaks, slows>> \/ Break
            \/ breaks + slows < MaxFaults /\ UNCHANGED breaks /\ slows' = slows + 1
         /\ events' \subseteq events \/ ChangeTopology
         /\ stored' \in {stored, loop.snap, debouncer.snap}
         /\ cqlConn' \in {cqlConn, None, loop.conn}
         /\ refreshCh' \in events \cup {refreshCh, None}
         /\ failures' \in {failures, 0} \/ (failures < MaxFailures /\ failures' = failures + 1)
         /\ contactPoints' \in {contactPoints, HostsOf(Current)}
         /\ \/ LoopStep
            \/ UNCHANGED <<loop, cqlConn>> /\ (UNCHANGED open \/ ChangeTopology \/ Break)
         /\ UNCHANGED debouncer \/ DebouncerStep
         /\ UNCHANGED <<client, stored>> \/ LoopStore \/ DebouncerStore \/ \E c \in Clients : ClientStep(c)
<1>. USE DEF Step, Next, vars, cluster, shared, ChangeTopology, Break, LoseEvent, EventHandler, LoopStep,
         LoopTop, ChooseEndpoints, LoopExit, Connect, TryContactPoints, OpenFailed, Initialize, Subscribe,
         LoopQuery, LoopStore, SetConn, Heartbeat, CheckHeartbeat, Sleep, DebouncerStep, TakeRefresh, DebouncerExit,
         DebouncerQuery, DebouncerStore, DebouncerCheck, ClientStep, PickHost, CreateHandler,
         RegisterObserver, CheckHost, RemoveObserver, Elsewhere, Shutdown, Terminated
<1>1. UNCHANGED topologies \/ ChangeTopology
  BY Zenon
<1>2. \/ UNCHANGED open
      \/ ChangeTopology \/ Break \/ LoopTop \/ LoopExit \/ CheckHeartbeat
      \/ Connect \/ Initialize \/ Subscribe \/ LoopQuery
  BY Zenon
<1>3. \/ UNCHANGED <<breaks, slows>> \/ Break
      \/ breaks + slows < MaxFaults /\ UNCHANGED breaks /\ slows' = slows + 1
  BY Zenon DEF QueryOk, QueryFailed, Answered, Failed
<1>4. events' \subseteq events \/ ChangeTopology
  BY Zenon
<1>5. stored' \in {stored, loop.snap, debouncer.snap}
  BY Zenon DEF StoreHosts
<1>6. cqlConn' \in {cqlConn, None, loop.conn}
  BY Zenon DEF Close
<1>7. refreshCh' \in events \cup {refreshCh, None}
  BY Zenon
<1>8. failures' \in {failures, 0} \/ (failures < MaxFailures /\ failures' = failures + 1)
  BY Zenon DEF IncrementFailureCounter
<1>9. contactPoints' \in {contactPoints, HostsOf(Current)}
  BY Zenon DEF RefreshContactPoints
<1>10. \/ LoopStep
       \/ UNCHANGED <<loop, cqlConn>> /\ (UNCHANGED open \/ ChangeTopology \/ Break)
  BY Zenon
<1>11. UNCHANGED debouncer \/ DebouncerStep
  BY Zenon
<1>12. UNCHANGED <<client, stored>> \/ LoopStore \/ DebouncerStore \/ \E c \in Clients : ClientStep(c)
  BY Zenon DEF StoreHosts
<1>. QED  BY Zenon, <1>1, <1>2, <1>3, <1>4, <1>5, <1>6, <1>7, <1>8, <1>9, <1>10, <1>11, <1>12

\* A topology that the cluster had is not forgotten.
LEMMA HistoryKept ==
  ASSUME ClusterTypes, Step
  PROVE  /\ topologies' \in Seq(SUBSET Hosts) /\ 1..Current \subseteq 1..Current'
         /\ \A v \in 1..Current : HostsOf(v) \subseteq Hosts /\ HostsOf(v)' = HostsOf(v)
<1>0. Current \in Nat /\ topologies \in Seq(SUBSET Hosts) /\ \A v \in 1..Current : HostsOf(v) \subseteq Hosts
  BY DEF ClusterTypes, Current, HostsOf
<1>1. CASE UNCHANGED topologies
  BY Zenon, <1>0, <1>1 DEF Current, HostsOf
<1>2. CASE ChangeTopology
  <2>1. PICK t \in SUBSET Hosts : topologies' = Append(topologies, t)
    BY Zenon, <1>2 DEF ChangeTopology
  <2>. QED  BY <1>0, <2>1 DEF Current, HostsOf
<1>. QED  BY Zenon, <1>1, <1>2, Effects

\* Connections are only closed, except when Connect opens one and Subscribe
\* subscribes one.
Closed == alive' \subseteq alive /\ \A c \in alive' : open'[c] = open[c]

LEMMA DroppedCloses ==
  ASSUME NEW conns, open' = Dropped(conns) PROVE Closed /\ alive' = alive \ conns
  BY Zenon DEF Dropped, Restrict, alive, Closed

LEMMA OpenSteps ==
  ASSUME Step
  PROVE  Closed \/ Connect \/ (Subscribe /\ Answered(loop.conn))
<1>1. CASE UNCHANGED open
  BY Zenon, <1>1 DEF Closed, alive
<1>2. CASE ChangeTopology \/ Break
  BY Zenon, <1>2, DroppedCloses DEF ChangeTopology, Break
<1>3. CASE LoopTop \/ LoopExit \/ CheckHeartbeat
  BY Zenon, <1>1, <1>3, DroppedCloses DEF LoopTop, LoopExit, CheckHeartbeat, Close
<1>4. CASE Initialize \/ Subscribe \/ LoopQuery
  BY Zenon, <1>1, <1>4, DroppedCloses DEF Initialize, Subscribe, LoopQuery, Abandon
<1>. QED  BY Zenon, <1>1, <1>2, <1>3, <1>4, Effects

\* Connect opens a connection c to e, or gives e up.
Opened(c, e) ==
    /\ c \in Conns /\ e \in HostsOf(Current)
    /\ open' = [x \in alive \cup {c} |-> IF x = c THEN [at |-> e, subscribed |-> FALSE] ELSE open[x]]
    /\ loop' = [loop EXCEPT !.pc = "initialize", !.conn = c, !.todo = @ \ {e}]
GaveUp(e) == loop' = [loop EXCEPT !.todo = @ \ {e}] /\ UNCHANGED open

LEMMA ConnectCases ==
  ASSUME Connect PROVE \E e \in loop.todo : GaveUp(e) \/ \E c : Opened(c, e)
<1>1. PICK e \in loop.todo :
        \/ /\ e \in HostsOf(Current)
           /\ \E c \in Free :
                /\ open' = [x \in alive \cup {c} |-> IF x = c THEN [at |-> e, subscribed |-> FALSE] ELSE open[x]]
                /\ loop' = [loop EXCEPT !.pc = "initialize", !.conn = c, !.todo = @ \ {e}]
        \/ loop' = [loop EXCEPT !.todo = @ \ {e}] /\ UNCHANGED open
  BY Zenon DEF Connect
<1>. QED  BY Zenon, <1>1 DEF GaveUp, Opened, Free

LEMMA OpenedFacts ==
  ASSUME NEW c, NEW e, Opened(c, e)
  PROVE  /\ alive' = alive \cup {c} /\ open'[c] = [at |-> e, subscribed |-> FALSE]
         /\ \A d \in alive : d # c => open'[d] = open[d]
  BY Zenon DEF Opened, alive

\* Faults are counted up to their bound.
LEMMA FaultsCounted ==
  ASSUME ClusterTypes, Step PROVE breaks' \in 0..MaxFaults /\ slows' \in 0..MaxFaults
<1>0. MaxFaults \in Nat /\ breaks \in Nat /\ slows \in Nat /\ breaks \in 0..MaxFaults /\ slows \in 0..MaxFaults
  BY ConstantsAssumption DEF ClusterTypes
<1>1. CASE UNCHANGED <<breaks, slows>>
  BY Zenon, <1>0, <1>1
<1>2. CASE breaks + slows < MaxFaults /\ UNCHANGED breaks /\ slows' = slows + 1
  BY <1>0, <1>2
<1>3. CASE Break
  BY <1>0, <1>3 DEF Break
<1>. QED  BY Zenon, <1>1, <1>2, <1>3, Effects

LEMMA ClusterTypesStep ==
  ASSUME TypeOK, Step PROVE ClusterTypes'
<1>0. ClusterTypes /\ SharedTypes /\ loop \in LoopType(1..Current)
  BY Zenon, Typed
<1>1. topologies' \in Seq(SUBSET Hosts) /\ breaks' \in 0..MaxFaults /\ slows' \in 0..MaxFaults
  BY Zenon, <1>0, HistoryKept, FaultsCounted
<1>2. alive' \subseteq Conns /\ \A c \in alive' : open'[c] \in [at : Hosts, subscribed : BOOLEAN]
  <2>1. CASE Closed
    BY Zenon, <1>0, <2>1 DEF Closed, ClusterTypes
  <2>2. CASE Connect
    <3>1. PICK e \in loop.todo : GaveUp(e) \/ \E c : Opened(c, e)
      BY Zenon, <2>2, ConnectCases
    <3>2. CASE GaveUp(e)
      BY Zenon, <1>0, <3>2 DEF GaveUp, alive, ClusterTypes
    <3>3. ASSUME NEW c, Opened(c, e)
          PROVE  alive' \subseteq Conns /\ \A d \in alive' : open'[d] \in [at : Hosts, subscribed : BOOLEAN]
      <4>1. c \in Conns /\ e \in HostsOf(Current)
        BY Zenon, <3>3 DEF Opened
      <4>2. Current \in 1..Current
        BY <1>0 DEF ClusterTypes, SharedTypes, Current
      <4>3. e \in Hosts
        BY Zenon, <1>0, <4>1, <4>2, HistoryKept
      <4>4. /\ alive' = alive \cup {c} /\ open'[c] = [at |-> e, subscribed |-> FALSE]
            /\ \A d \in alive : d # c => open'[d] = open[d]
        BY Zenon, <3>3, OpenedFacts
      <4>5. [at |-> e, subscribed |-> FALSE] \in [at : Hosts, subscribed : BOOLEAN]
        BY Zenon, <4>3
      <4>. QED  BY Zenon, <1>0, <4>1, <4>4, <4>5 DEF ClusterTypes
    <3>. QED  BY Zenon, <3>1, <3>2, <3>3
  <2>3. CASE Subscribe /\ Answered(loop.conn)
    <3>1. CASE open' = Dropped({loop.conn})
      BY Zenon, <2>1, <3>1, DroppedCloses
    <3>2. CASE open' = [open EXCEPT ![loop.conn].subscribed = TRUE]
      BY Zenon, <1>0, <3>2 DEF ClusterTypes, alive
    <3>. QED  BY Zenon, <2>3, <3>1, <3>2 DEF Subscribe, Abandon
  <2>. QED  BY Zenon, <2>1, <2>2, <2>3, OpenSteps
<1>3. events' \subseteq Conns
  <2>1. CASE events' \subseteq events
    BY Zenon, <1>0, <2>1 DEF ClusterTypes
  <2>2. CASE ChangeTopology
    BY Zenon, <1>0, <1>2, <2>2 DEF ChangeTopology, ClusterTypes, alive
  <2>. QED  BY Zenon, <2>1, <2>2, Effects
<1>. QED  BY Zenon, <1>1, <1>2, <1>3 DEF ClusterTypes

\* The loop and the refresh store only topologies that the cluster has had.
LEMMA VersionFacts ==
  ASSUME TypeOK, Step
  PROVE  /\ Current \in 1..Current /\ HostsOf(Current) \subseteq Hosts /\ HostsOf(stored) \subseteq Hosts
         /\ 1 \in 1..Current /\ 1..Current \subseteq 1..Current'
<1>1. ClusterTypes /\ stored \in 1..Current /\ Current \in Nat
  BY Typed DEF SharedTypes, ClusterTypes, Current
<1>. QED  BY <1>1, HistoryKept

LEMMA SharedTypesStep ==
  ASSUME TypeOK, Step PROVE SharedTypes'
<1>0. /\ SharedTypes /\ loop \in LoopType(1..Current) /\ debouncer \in DebouncerType(1..Current)
      /\ events \subseteq Conns
  BY Zenon, Typed DEF ClusterTypes
<1>1. stored' \in 1..Current'
  <2>1. stored' \in {stored, loop.snap, debouncer.snap}
    BY Zenon, Effects
  <2>. QED  BY Zenon, <1>0, <2>1, VersionFacts DEF SharedTypes, LoopType, DebouncerType
<1>2. cqlConn' \in Conns \cup {None}
  <2>1. cqlConn' \in {cqlConn, None, loop.conn}
    BY Zenon, Effects
  <2>. QED  BY Zenon, <1>0, <2>1 DEF SharedTypes, LoopType
<1>3. refreshCh' \in Conns \cup {None}
  <2>1. refreshCh' \in events \cup {refreshCh, None}
    BY Zenon, Effects
  <2>. QED  BY Zenon, <1>0, <2>1 DEF SharedTypes
<1>4. failures' \in 0..MaxFailures
  <2>1. failures' \in {failures, 0} \/ (failures < MaxFailures /\ failures' = failures + 1)
    BY Zenon, Effects
  <2>. QED  BY <1>0, <2>1, ConstantsAssumption DEF SharedTypes
<1>5. contactPoints' \subseteq Hosts \cup ContactPoints
  <2>1. contactPoints' \in {contactPoints, HostsOf(Current)}
    BY Zenon, Effects
  <2>. QED  BY Zenon, <1>0, <2>1, VersionFacts DEF SharedTypes
<1>6. /\ reconnectCh' \in BOOLEAN /\ ctxDone' \in BOOLEAN /\ err' \in BOOLEAN
      /\ heartbeatOk' \in BOOLEAN /\ crashed' \in BOOLEAN
  BY Zenon, <1>0
     DEF SharedTypes, Step, Next, vars, shared, ChangeTopology, Break, LoseEvent, EventHandler, LoopStep,
         LoopTop, ChooseEndpoints, LoopExit, Connect, TryContactPoints, OpenFailed, Initialize, Subscribe,
         LoopQuery, LoopStore, SetConn, Heartbeat, CheckHeartbeat, Sleep, DebouncerStep, TakeRefresh, DebouncerExit,
         DebouncerQuery, DebouncerStore, DebouncerCheck, ClientStep, PickHost, CreateHandler,
         RegisterObserver, CheckHost, RemoveObserver, Elsewhere, Shutdown, Terminated, RefreshContactPoints
<1>. QED  BY Zenon, <1>1, <1>2, <1>3, <1>4, <1>5, <1>6 DEF SharedTypes

LEMMA LoopTypesStep ==
  ASSUME TypeOK, Step PROVE loop' \in LoopType(1..Current')
<1>0. /\ ClusterTypes /\ SharedTypes /\ loop \in LoopType(1..Current)
      /\ Current \in 1..Current /\ 1 \in 1..Current
      /\ HostsOf(stored) \subseteq Hosts
  BY Zenon, Typed, VersionFacts
<1>1. SUFFICES loop' \in LoopType(1..Current)
  BY Zenon, <1>1, VersionFacts DEF LoopType
<1>2. CASE UNCHANGED loop
  BY Zenon, <1>0, <1>2
<1>3. OpenHosts \in LoopType(1..Current) /\ OpenContactPoints \in LoopType(1..Current)
  BY Zenon, <1>0 DEF OpenHosts, OpenContactPoints, LoopType, SharedTypes
<1>4. \A place \in {"top", "subscribe", "query", "set", "check", "sleep", "done"} :
        [loop EXCEPT !.pc = place] \in LoopType(1..Current)
  BY Zenon, <1>0 DEF LoopType
<1>5. CASE LoopTop
  <2>1. CASE loop' = OpenHosts
    BY Zenon, <1>3, <2>1
  <2>2. CASE RefreshContactPoints
    BY Zenon, <1>0, <2>2 DEF RefreshContactPoints, LoopType
  <2>3. CASE loop' = [loop EXCEPT !.pc = "heartbeat", !.conn = cqlConn]
    BY Zenon, <1>0, <2>3 DEF LoopType, SharedTypes
  <2>. QED  BY Zenon, <1>5, <2>1, <2>2, <2>3 DEF LoopTop
<1>6. CASE ChooseEndpoints \/ LoopExit \/ LoopStore \/ Heartbeat \/ CheckHeartbeat
  BY Zenon, <1>3, <1>4, <1>6 DEF ChooseEndpoints, LoopExit, LoopStore, Heartbeat, CheckHeartbeat, Goto
<1>7. CASE Connect
  <2>1. PICK e \in loop.todo : GaveUp(e) \/ \E c : Opened(c, e)
    BY Zenon, <1>7, ConnectCases
  <2>2. CASE GaveUp(e)
    BY Zenon, <1>0, <2>2 DEF GaveUp, LoopType
  <2>3. ASSUME NEW c, Opened(c, e) PROVE loop' \in LoopType(1..Current)
    BY Zenon, <1>0, <2>3 DEF Opened, LoopType
  <2>. QED  BY Zenon, <2>1, <2>2, <2>3
<1>8. CASE TryContactPoints \/ OpenFailed
  <2>1. CASE loop' = [loop EXCEPT !.todo = loop.rest, !.rest = {}]
    BY Zenon, <1>0, <2>1 DEF LoopType
  <2>2. CASE loop' = [loop EXCEPT !.pc = "top", !.lastOpen = ctxDone /\ @]
    BY Zenon, <1>0, <2>2 DEF LoopType, SharedTypes
  <2>. QED  BY Zenon, <1>8, <2>1, <2>2 DEF TryContactPoints, OpenFailed
<1>9. CASE Initialize \/ Subscribe \/ LoopQuery
  <2>1. CASE Goto("subscribe") \/ Goto("query")
    BY Zenon, <1>4, <2>1 DEF Goto
  <2>2. CASE Abandon
    BY Zenon, <1>0, <2>2 DEF Abandon, LoopType
  <2>3. CASE loop' = [loop EXCEPT !.pc = "store", !.snap = Current]
    BY Zenon, <1>0, <2>3 DEF LoopType
  <2>. QED  BY Zenon, <1>9, <2>1, <2>2, <2>3 DEF Initialize, Subscribe, LoopQuery
<1>10. CASE SetConn \/ Sleep
  <2>1. CASE loop' = [loop EXCEPT !.pc = "top", !.snap = 1]
    BY Zenon, <1>0, <2>1 DEF LoopType
  <2>2. CASE loop' = [loop EXCEPT !.pc = "heartbeat", !.snap = 1, !.todo = {}, !.rest = {}, !.lastOpen = TRUE]
    BY Zenon, <1>0, <2>2 DEF LoopType
  <2>3. CASE loop' = [loop EXCEPT !.pc = "top", !.reconnect = TRUE]
    BY Zenon, <1>0, <2>3 DEF LoopType
  <2>. QED  BY Zenon, <1>4, <1>10, <2>1, <2>2, <2>3 DEF SetConn, Sleep, Goto
<1>. QED  BY Zenon, <1>2, <1>5, <1>6, <1>7, <1>8, <1>9, <1>10, Effects DEF LoopStep

LEMMA DebouncerTypesStep ==
  ASSUME TypeOK, Step PROVE debouncer' \in DebouncerType(1..Current')
<1>0. /\ SharedTypes /\ debouncer \in DebouncerType(1..Current)
      /\ Current \in 1..Current /\ 1 \in 1..Current
  BY Zenon, Typed, VersionFacts
<1>1. SUFFICES debouncer' \in DebouncerType(1..Current)
  BY Zenon, <1>1, VersionFacts DEF DebouncerType
<1>2. CASE UNCHANGED debouncer
  BY Zenon, <1>0, <1>2
<1>3. CASE TakeRefresh \/ DebouncerExit
  BY Zenon, <1>0, <1>3 DEF TakeRefresh, DebouncerExit, SharedTypes, DebouncerType
<1>4. CASE DebouncerQuery \/ DebouncerStore \/ DebouncerCheck
  <2>1. CASE debouncer' = [debouncer EXCEPT !.pc = "store", !.snap = Current]
    BY Zenon, <1>0, <2>1 DEF DebouncerType
  <2>2. CASE debouncer' = [debouncer EXCEPT !.pc = "check"]
    BY Zenon, <1>0, <2>2 DEF DebouncerType
  <2>3. CASE debouncer' = [pc |-> "wait", conn |-> None, snap |-> 1]
    BY Zenon, <1>0, <2>3 DEF DebouncerType
  <2>. QED  BY Zenon, <1>4, <2>1, <2>2, <2>3 DEF DebouncerQuery, DebouncerStore, DebouncerCheck
<1>. QED  BY Zenon, <1>2, <1>3, <1>4, Effects DEF DebouncerStep

\* A refresh (StoreHosts) only asks handlers to close.
Told(v) ==
    /\ stored' = v /\ client' \in [Clients -> ClientType]
    /\ \A c \in Clients :
          /\ client'[c].pc = client[c].pc /\ client'[c].host = client[c].host
          /\ client[c].asked => client'[c].asked
          /\ Registered(c) /\ client[c].host \in HostsOf(stored) \ HostsOf(v) => client'[c].asked

LEMMA StoreHostsFacts ==
  ASSUME client \in [Clients -> ClientType], NEW v, StoreHosts(v) PROVE Told(v)
<1>1. \A c \in Clients : client[c] \in ClientType /\ [client[c] EXCEPT !.asked = TRUE] \in ClientType
  BY Zenon DEF ClientType
<1>2. stored' = v /\ client' \in [Clients -> ClientType]
  BY Zenon, <1>1 DEF StoreHosts
<1>3. ASSUME NEW c \in Clients
      PROVE  /\ client'[c].pc = client[c].pc /\ client'[c].host = client[c].host
             /\ client[c].asked => client'[c].asked
             /\ Registered(c) /\ client[c].host \in HostsOf(stored) \ HostsOf(v) => client'[c].asked
  BY Zenon, <1>1 DEF StoreHosts, ClientType
<1>. QED  BY Zenon, <1>2, <1>3 DEF Told

LEMMA ClientTypesStep ==
  ASSUME TypeOK, Step PROVE client' \in [Clients -> ClientType]
<1>0. client \in [Clients -> ClientType] /\ HostsOf(stored) \subseteq Hosts
  BY Zenon, Typed, VersionFacts
<1>1. CASE UNCHANGED client
  BY Zenon, <1>0, <1>1
<1>2. CASE LoopStore \/ DebouncerStore
  BY Zenon, <1>0, <1>2, StoreHostsFacts DEF LoopStore, DebouncerStore, Told
<1>3. ASSUME NEW c \in Clients, ClientStep(c) PROVE client' \in [Clients -> ClientType]
  BY <1>0, <1>3
     DEF ClientStep, PickHost, CreateHandler, RegisterObserver, CheckHost, RemoveObserver, LocalHosts, ClientType
<1>. QED  BY Zenon, <1>1, <1>2, <1>3, Effects

LEMMA TypesStep == ASSUME TypeOK, Step PROVE TypeOK'
<1>1. /\ ClusterTypes' /\ SharedTypes'
      /\ loop' \in LoopType(1..Current') /\ debouncer' \in DebouncerType(1..Current')
      /\ client' \in [Clients -> ClientType]
  BY Zenon, ClusterTypesStep, SharedTypesStep, LoopTypesStep, DebouncerTypesStep, ClientTypesStep
<1>. QED
  BY Zenon, <1>1 DEF TypeOK, ClusterTypes, SharedTypes, LoopType, DebouncerType, ClientType

-----------------------------------------------------------------------------
(* No connection is leaked. *)

\* What the steps of the loop do to its place and to the connections.
LEMMA ConnStep ==
  ASSUME TypeOK, ConnInv, NoLeakedConnections, Step
  PROVE  /\ ConnInv'
         /\ alive' \subseteq {cqlConn'} \cup (IF loop'.pc \in SettingUp THEN {loop'.conn} ELSE {})
         /\ loop'.pc = "done" => alive' = {}
<1>. DEFINE Kept == /\ ConnInv'
                    /\ alive' \subseteq {cqlConn'} \cup (IF loop'.pc \in SettingUp THEN {loop'.conn} ELSE {})
                    /\ loop'.pc = "done" => alive' = {}
<1>0. /\ loop \in LoopType(1..Current) /\ alive \subseteq Conns /\ None \notin Conns
      /\ alive \subseteq {cqlConn} \cup (IF loop.pc \in SettingUp THEN {loop.conn} ELSE {})
      /\ loop.pc = "done" => alive = {}
  BY Zenon, Typed, ConstantsAssumption DEF NoLeakedConnections, SettingUp, ClusterTypes
<1>1. CASE Closed /\ UNCHANGED <<loop, cqlConn>>
  BY Zenon, <1>0, <1>1 DEF ConnInv, Closed
<1>2. ASSUME Closed, UNCHANGED cqlConn, loop.pc \notin SettingUp,
             loop'.pc \notin Opening \cup {"done"} \/ (loop.pc \in Opening /\ loop'.pc \in {"choose", "connect"})
      PROVE  Kept
  BY Zenon, <1>0, <1>2 DEF ConnInv, Closed, Opening, SettingUp
<1>3. CASE LoopTop
  <2>0. loop.pc = "top" /\ (Close \/ UNCHANGED <<cqlConn, open>>)
    BY Zenon, <1>3 DEF LoopTop, Loop
  <2>1. Closed /\ alive' \subseteq {cqlConn'}
    <3>1. CASE Close
      BY Zenon, <1>0, <2>0, <3>1, DroppedCloses DEF Close, SettingUp
    <3>2. CASE UNCHANGED <<cqlConn, open>>
      BY Zenon, <1>0, <2>0, <3>2 DEF Closed, alive, SettingUp
    <3>. QED  BY Zenon, <2>0, <3>1, <3>2
  <2>2. cqlConn' # None => loop'.pc = "heartbeat"
    BY Zenon, <1>0, <1>3 DEF LoopTop, LoopType
  <2>3. loop'.pc \in {"heartbeat", "connect", "choose"}
    BY Zenon, <1>0, <1>3 DEF LoopTop, OpenHosts, RefreshContactPoints, LoopType
  <2>. QED  BY Zenon, <2>1, <2>2, <2>3 DEF ConnInv, Opening, SettingUp
<1>4. CASE LoopExit
  <2>1. loop'.pc = "done" /\ alive' = {}
    <3>1. loop.pc = "top" /\ Close /\ loop' = [loop EXCEPT !.pc = "done"]
      BY Zenon, <1>4 DEF LoopExit, Loop, Goto
    <3>. QED  BY <1>0, <3>1, DroppedCloses DEF Close, SettingUp, LoopType
  <2>. QED  BY Zenon, <2>1 DEF ConnInv, Opening, SettingUp
<1>5. CASE CheckHeartbeat
  <2>1. loop.pc = "check" /\ loop'.pc \in {"top", "sleep"}
    BY Zenon, <1>0, <1>5 DEF CheckHeartbeat, Loop, Goto, LoopType
  <2>2. alive' \subseteq {cqlConn'}
    <3>1. CASE Close
      BY Zenon, <1>0, <2>1, <3>1, DroppedCloses DEF Close, SettingUp
    <3>2. CASE UNCHANGED <<cqlConn, open>>
      BY Zenon, <1>0, <2>1, <3>2 DEF alive, SettingUp
    <3>. QED  BY Zenon, <1>5, <3>1, <3>2 DEF CheckHeartbeat
  <2>. QED  BY Zenon, <2>1, <2>2 DEF ConnInv, Opening, SettingUp
<1>6. CASE Connect
  <2>0. loop.pc = "connect" /\ UNCHANGED cqlConn
    BY Zenon, <1>6 DEF Connect, Loop, shared
  <2>1. cqlConn = None /\ alive = {}
    BY Zenon, <1>0, <2>0 DEF ConnInv, Opening, SettingUp
  <2>2. PICK e \in loop.todo : GaveUp(e) \/ \E c : Opened(c, e)
    BY Zenon, <1>6, ConnectCases
  <2>3. CASE GaveUp(e)
    <3>1. Closed /\ loop'.pc = loop.pc
      BY Zenon, <1>0, <2>3 DEF GaveUp, Closed, alive, LoopType
    <3>. QED  BY Zenon, <1>2, <2>0, <3>1 DEF Opening, SettingUp
  <2>4. ASSUME NEW c, Opened(c, e) PROVE Kept
    <3>1. loop'.pc = "initialize" /\ loop'.conn = c /\ c \in Conns
      BY Zenon, <1>0, <2>4 DEF Opened, LoopType
    <3>2. alive' = {c}
      BY Zenon, <2>1, <2>4, OpenedFacts
    <3>. QED  BY Zenon, <2>0, <2>1, <3>1, <3>2 DEF ConnInv, SettingUp
  <2>. QED  BY Zenon, <2>2, <2>3, <2>4
<1>7. CASE Initialize \/ Subscribe \/ LoopQuery
  <2>0. loop.pc \in SettingUp /\ loop.pc \in Opening /\ UNCHANGED cqlConn
    BY Zenon, <1>7 DEF Initialize, Subscribe, LoopQuery, Loop, shared, SettingUp, Opening
  <2>1. CASE Abandon
    <3>1. loop'.pc = "connect"
      BY Zenon, <1>0, <2>1 DEF Abandon, LoopType
    <3>2. alive' \subseteq {cqlConn}
      BY Zenon, <1>0, <2>1, DroppedCloses DEF Abandon
    <3>. QED  BY Zenon, <2>0, <3>1, <3>2 DEF ConnInv, SettingUp
  <2>2. CASE ~Abandon
    <3>1. alive' = alive
      BY Zenon, <1>7, <2>2 DEF Initialize, Subscribe, LoopQuery, alive
    <3>2. loop'.pc \in {"subscribe", "query", "store"} /\ loop'.conn = loop.conn
      BY Zenon, <1>0, <1>7, <2>2 DEF Initialize, Subscribe, LoopQuery, Goto, LoopType
    <3>. QED  BY Zenon, <1>0, <2>0, <3>1, <3>2 DEF ConnInv, SettingUp
  <2>. QED  BY Zenon, <2>1, <2>2
<1>8. CASE LoopStore
  <2>1. loop.pc = "store" /\ loop' = [loop EXCEPT !.pc = "set"] /\ UNCHANGED <<cqlConn, open>>
    BY Zenon, <1>8 DEF LoopStore, Loop, Goto, cluster
  <2>2. loop'.pc = "set" /\ loop'.conn = loop.conn
    BY Zenon, <1>0, <2>1 DEF LoopType
  <2>. QED  BY Zenon, <1>0, <2>1, <2>2 DEF ConnInv, SettingUp, Opening, alive
<1>9. CASE SetConn
  <2>1. loop.pc = "set" /\ cqlConn' = loop.conn /\ UNCHANGED open
    BY Zenon, <1>9 DEF SetConn, Loop, cluster
  <2>2. loop'.pc \in {"top", "heartbeat"}
    BY Zenon, <1>0, <1>9 DEF SetConn, LoopType
  <2>. QED  BY Zenon, <1>0, <2>1, <2>2 DEF ConnInv, SettingUp, Opening, alive
<1>10. CASE ChooseEndpoints \/ TryContactPoints \/ OpenFailed \/ Heartbeat \/ Sleep
  <2>1. loop.pc \notin SettingUp /\ UNCHANGED <<cqlConn, open>>
    BY Zenon, <1>10 DEF ChooseEndpoints, TryContactPoints, OpenFailed, Heartbeat, Sleep, Loop, SettingUp, cluster, shared
  <2>2. \/ loop'.pc \in {"top", "check"}
        \/ loop.pc \in {"choose", "connect"} /\ loop'.pc = "connect"
    BY Zenon, <1>0, <1>10
       DEF ChooseEndpoints, OpenHosts, OpenContactPoints, TryContactPoints, OpenFailed, Heartbeat, Sleep,
           Loop, Goto, LoopType
  <2>3. Closed
    BY Zenon, <2>1 DEF Closed, alive
  <2>. QED  BY Zenon, <1>2, <2>1, <2>2, <2>3 DEF Opening
<1>11. CASE UNCHANGED <<loop, cqlConn>> /\ (UNCHANGED open \/ ChangeTopology \/ Break)
  <2>1. Closed
    BY Zenon, <1>11, DroppedCloses DEF Closed, alive, ChangeTopology, Break
  <2>. QED  BY Zenon, <1>1, <1>11, <2>1
<1>. QED  BY Zenon, <1>3, <1>4, <1>5, <1>6, <1>7, <1>8, <1>9, <1>10, <1>11, Effects DEF LoopStep

-----------------------------------------------------------------------------
(* No handler stays on a host that left. *)

LEMMA HandlerStep ==
  ASSUME TypeOK, NoHandlerOnRemovedHost, Step PROVE NoHandlerOnRemovedHost'
<1>0. /\ ClusterTypes /\ client \in [Clients -> ClientType]
      /\ stored \in 1..Current /\ loop.snap \in 1..Current /\ debouncer.snap \in 1..Current
  BY Zenon, Typed DEF SharedTypes, LoopType, DebouncerType
<1>1. \A v \in 1..Current : topologies'[v] = topologies[v]
  BY Zenon, <1>0, HistoryKept DEF HostsOf
<1>2. CASE UNCHANGED <<client, stored>>
  BY Zenon, <1>0, <1>1, <1>2 DEF NoHandlerOnRemovedHost, HostsOf
<1>3. ASSUME NEW v \in 1..Current, StoreHosts(v) PROVE NoHandlerOnRemovedHost'
  <2>1. Told(v)
    BY Zenon, <1>0, <1>3, StoreHostsFacts
  <2>2. ASSUME NEW c \in Clients, client'[c].pc = "running", client'[c].host \notin topologies'[stored']
        PROVE  client'[c].asked
    <3>1. Registered(c) /\ client[c].pc = "running" /\ client[c].host \notin HostsOf(v)
      BY Zenon, <1>1, <2>1, <2>2 DEF Told, Registered, HostsOf
    <3>2. CASE client[c].host \in HostsOf(stored)
      BY Zenon, <2>1, <3>1, <3>2 DEF Told
    <3>3. CASE client[c].host \notin HostsOf(stored)
      BY Zenon, <2>1, <3>1, <3>3 DEF Told, NoHandlerOnRemovedHost
    <3>. QED  BY Zenon, <3>2, <3>3
  <2>. QED  BY Zenon, <2>2 DEF NoHandlerOnRemovedHost, HostsOf
<1>4. ASSUME NEW c \in Clients, ClientStep(c) PROVE NoHandlerOnRemovedHost'
  <2>1. UNCHANGED <<topologies, stored>>
    BY Zenon, <1>4 DEF ClientStep, PickHost, CreateHandler, RegisterObserver, CheckHost, RemoveObserver,
                Elsewhere, cluster, shared
  <2>2. \A d \in Clients : d # c => client'[d] = client[d]
    BY Zenon, <1>0, <1>4 DEF ClientStep, PickHost, CreateHandler, RegisterObserver, CheckHost, RemoveObserver
  <2>3. client'[c].pc = "running" /\ client'[c].host \notin topologies[stored] => client'[c].asked
    BY <1>0, <1>4 DEF ClientStep, PickHost, CreateHandler, RegisterObserver, CheckHost, RemoveObserver,
                      Client, HostsOf, ClientType
  <2>. QED  BY Zenon, <2>1, <2>2, <2>3 DEF NoHandlerOnRemovedHost, HostsOf
<1>. QED
  BY Zenon, <1>0, <1>2, <1>3, <1>4, Effects DEF LoopStore, DebouncerStore

-----------------------------------------------------------------------------
(* The theorems. *)

LEMMA InvInit == ASSUME Init PROVE Inv
<1>. PICK t \in SUBSET Hosts :
       /\ t \cap LocalDc # {} /\ topologies = <<t>> /\ cqlConn = CHOOSE c \in Conns : TRUE
       /\ \E h \in t \cap ContactPoints : open = [c \in {cqlConn} |-> [at |-> h, subscribed |-> TRUE]]
  BY Zenon DEF Init
<1>1. cqlConn \in Conns /\ (CHOOSE h \in Hosts : TRUE) \in Hosts /\ alive = {cqlConn} /\ Current = 1
  <2>1. cqlConn \in Conns
    BY Zenon, ConstantsAssumption
  <2>2. (CHOOSE h \in Hosts : TRUE) \in Hosts
    BY Zenon
  <2>3. alive = {cqlConn} /\ Current = 1
    BY Zenon DEF alive, Current
  <2>. QED  BY Zenon, <2>1, <2>2, <2>3
<1>2. ClusterTypes
  BY <1>1, ConstantsAssumption DEF Init, ClusterTypes, alive
<1>3. SharedTypes
  <2>1. refreshCh = None /\ stored = 1 /\ failures = 0 /\ contactPoints = ContactPoints
    BY Zenon DEF Init
  <2>2. /\ reconnectCh \in BOOLEAN /\ ctxDone \in BOOLEAN /\ err \in BOOLEAN
        /\ heartbeatOk \in BOOLEAN /\ crashed \in BOOLEAN
    BY Zenon DEF Init
  <2>. QED  BY <1>1, <2>1, <2>2, ConstantsAssumption DEF SharedTypes
<1>4. loop \in LoopType(1..Current) /\ debouncer \in DebouncerType(1..Current)
  BY <1>1 DEF Init, LoopType, DebouncerType
<1>5. client \in [Clients -> ClientType]
  BY Zenon, <1>1 DEF Init, ClientType
<1>6. TypeOK
  BY Zenon, <1>2, <1>3, <1>4, <1>5, Typed
<1>7. ConnInv /\ NoLeakedConnections /\ NoHandlerOnRemovedHost
  BY Zenon, <1>1, <1>6 DEF Init, ConnInv, Opening, SettingUp, NoLeakedConnections, NoHandlerOnRemovedHost
<1>. QED  BY Zenon, <1>6, <1>7 DEF Inv

LEMMA InvStep == ASSUME Inv, [Next]_vars PROVE Inv'
<1>1. TypeOK /\ ConnInv /\ NoLeakedConnections /\ NoHandlerOnRemovedHost /\ Step
  BY Zenon DEF Inv, Step
<1>2. TypeOK' /\ NoHandlerOnRemovedHost'
  BY Zenon, <1>1, TypesStep, HandlerStep
<1>3. /\ ConnInv'
      /\ alive' \subseteq {cqlConn'} \cup (IF loop'.pc \in SettingUp THEN {loop'.conn} ELSE {})
      /\ loop'.pc = "done" => alive' = {}
  BY Zenon, <1>1, ConnStep
<1>. QED  BY Zenon, <1>2, <1>3 DEF Inv, NoLeakedConnections, SettingUp

LEMMA InvAlways == Spec => []Inv
  BY InvInit, InvStep, PTL DEF Spec

\* For every cluster and every sequence of failures, an open connection is the
\* control connection or the one that Open is setting up, and none is open when
\* the loop of Start has ended (Open, Close, openInternal).
THEOREM NothingIsLeaked == Spec => []NoLeakedConnections
<1>1. Inv => NoLeakedConnections
  BY Zenon DEF Inv
<1>. QED  BY <1>1, InvAlways, PTL

\* For any number of client handlers and any order of topology changes,
\* refreshes and registrations, a handler whose observer is in place on a host
\* that left has been asked to close (addObserver, OnHostRemoved).
THEOREM RemovedHostsAreLeft == Spec => []NoHandlerOnRemovedHost
<1>1. Inv => NoHandlerOnRemovedHost
  BY Zenon DEF Inv
<1>. QED  BY <1>1, InvAlways, PTL

-----------------------------------------------------------------------------
(* The hosts that the control connection assigns. *)

INSTANCE FiniteSetTheorems
INSTANCE FunctionTheorems

Wrapping == {c \in Callers : pc[c] = "wrap"}

\* What every caller about to wrap will take off is on the counter.
Covered == currentAssignment >= NumAssigned * Cardinality(Wrapping)

IInv ==
    /\ AssignmentTypeOK
    /\ config.index < config.count
    /\ Covered
    /\ IndexInRange

-----------------------------------------------------------------------------
\* Facts of arithmetic.

\* A number above n * p that n divides is at least n * (p + 1).
LEMMA NextMultiple ==
    ASSUME NEW n \in Nat \ {0}, NEW p \in Nat, NEW b \in Nat, b >= n * p, (b + 1) % n = 0
    PROVE  b + 1 >= n * (p + 1)
<1> DEFINE q == (b + 1) \div n
<1>1. q \in Int /\ b + 1 = n * q
  OBVIOUS
<1> HIDE DEF q
<1>2. q > p
  <2>1. SUFFICES ASSUME q <= p PROVE FALSE
    BY <1>1
  <2>2. n * q <= n * p
    BY <1>1, <2>1
  <2> QED
    BY <1>1, <2>2
<1>3. n * q >= n * (p + 1)
  BY <1>1, <1>2
<1> QED
  BY Zenon, <1>1, <1>3

\* The remainder of a natural number lies below the divisor.
LEMMA RemInRange ==
    ASSUME NEW a \in Nat, NEW n \in Nat \ {0}
    PROVE  Rem(a, n) = a % n /\ Rem(a, n) \in 0..n - 1
  BY DEF Rem

\* Two places t * n + i with i below n are equal only when both parts are.
LEMMA PlacesDiffer ==
    ASSUME NEW n \in Nat \ {0}, NEW i \in 0..n - 1, NEW j \in 0..n - 1,
           NEW t \in Nat, NEW u \in Nat, t * n + i = u * n + j
    PROVE  t = u /\ i = j
<1>1. ~(t < u)
  <2>1. SUFFICES ASSUME t + 1 <= u PROVE FALSE
    OBVIOUS
  <2>2. (t + 1) * n <= u * n
    BY <2>1
  <2>3. (t + 1) * n = t * n + n
    OBVIOUS
  <2> QED
    BY <2>2, <2>3
<1>2. ~(u < t)
  <2>1. SUFFICES ASSUME u + 1 <= t PROVE FALSE
    OBVIOUS
  <2>2. (u + 1) * n <= t * n
    BY <2>1
  <2>3. (u + 1) * n = u * n + n
    OBVIOUS
  <2> QED
    BY <2>2, <2>3
<1>3. t = u
  BY <1>1, <1>2
<1> QED
  BY <1>3

\* A number written as n * q + r with r below n has the remainder r.
LEMMA RemainderIs ==
    ASSUME NEW n \in Nat \ {0}, NEW q \in Nat, NEW r \in 0..n - 1
    PROVE  (q * n + r) % n = r
<1> DEFINE a == q * n + r
           d == a \div n
           m == a % n
<1>1. a \in Nat
  OBVIOUS
<1> HIDE DEF a
<1>2. d \in Nat /\ m \in 0..n - 1 /\ a = d * n + m
  BY <1>1
<1> HIDE DEF d, m
<1>3. d * n + m = q * n + r
  BY Zenon, <1>2 DEF a
<1>4. m = r
  BY <1>2, <1>3, PlacesDiffer
<1> QED
  BY Zenon, <1>4 DEF a, m

\* The remainder of the next number, and of one that is smaller by n.
LEMMA RemainderSteps ==
    ASSUME NEW n \in Nat \ {0}, NEW a \in Nat
    PROVE  /\ a % n \in 0..n - 1
           /\ (a + 1) % n = IF a % n = n - 1 THEN 0 ELSE (a % n) + 1
           /\ a >= n => (a - n) % n = a % n
<1> DEFINE q == a \div n
           r == a % n
<1>1. q \in Nat /\ r \in 0..n - 1 /\ a = q * n + r
  OBVIOUS
<1> HIDE DEF q, r
<1>2. (a + 1) % n = IF r = n - 1 THEN 0 ELSE r + 1
  <2>1. CASE r = n - 1
    <3>1. a + 1 = (q + 1) * n + 0 /\ q + 1 \in Nat /\ 0 \in 0..n - 1 /\ a + 1 \in Nat
      BY <1>1, <2>1
    <3>2. ((q + 1) * n + 0) % n = 0
      BY Zenon, <3>1, RemainderIs
    <3> QED
      BY Zenon, <2>1, <3>1, <3>2
  <2>2. CASE r # n - 1
    <3>1. a + 1 = q * n + (r + 1) /\ r + 1 \in 0..n - 1 /\ a + 1 \in Nat
      BY <1>1, <2>2
    <3>2. (q * n + (r + 1)) % n = r + 1
      BY Zenon, <1>1, <3>1, RemainderIs
    <3> QED
      BY Zenon, <2>2, <3>1, <3>2
  <2> QED
    BY Zenon, <2>1, <2>2
<1>3. ASSUME a >= n PROVE (a - n) % n = r
  <2>1. q # 0
    BY <1>1, <1>3
  <2>2. q - 1 \in Nat /\ a - n \in Nat /\ a - n = (q - 1) * n + r
    BY <1>1, <1>3, <2>1
  <2>3. ((q - 1) * n + r) % n = r
    BY Zenon, <1>1, <2>2, RemainderIs
  <2> QED
    BY Zenon, <2>2, <2>3
<1> QED
  BY Zenon, <1>1, <1>2, <1>3 DEF r

-----------------------------------------------------------------------------
\* An instance whose index is below the number of instances has a host.
LEMMA HasHost ==
    ASSUME NEW index \in Nat, NEW count \in Nat \ {0}, NEW n \in Nat \ {0}, index < count
    PROVE  Cardinality(computeAssignedHosts(index, count, n)) \in Nat \ {0}
<1> DEFINE A == computeAssignedHosts(index, count, n)
<1>1. IsFiniteSet(A)
  <2>1. IsFiniteSet(0..n - 1)
    BY FS_Interval
  <2>2. A \subseteq 0..n - 1
    BY Zenon DEF computeAssignedHosts
  <2> QED
    BY Zenon, <2>1, <2>2, FS_Subset
<1>2. index % n \in A
  <2>1. index % n \in 0..n - 1 /\ index % n <= index
    OBVIOUS
  <2>2. (index % n) % count = index % n
    BY <2>1
  <2> QED
    BY Zenon, <2>1, <2>2 DEF computeAssignedHosts
<1>3. Cardinality(A) # 0
  BY Zenon, <1>1, <1>2, FS_EmptySet
<1> QED
  BY Zenon, <1>1, <1>3, FS_CardinalityType

\* So has the instance of the state.
LEMMA NumAssignedPositive ==
    ASSUME AssignmentTypeOK, config.index < config.count
    PROVE  NumAssigned \in Nat \ {0}
<1>1. config.index \in Nat /\ config.count \in Nat \ {0} /\ hosts \in Nat \ {0}
  BY AssignmentAssumption DEF AssignmentTypeOK, Configs
<1> QED
  BY Zenon, <1>1, HasHost DEF NumAssigned, Assigned

\* The callers about to wrap are finitely many.
LEMMA WrappingFinite == IsFiniteSet(Wrapping) /\ Cardinality(Wrapping) \in Nat
  BY Zenon, AssignmentAssumption, FS_Subset, FS_CardinalityType DEF Wrapping

\* AssignmentInit: the counter is 0 and no caller is inside NextAssignedHost.
LEMMA InitInv == AssignmentInit => IInv
<1> SUFFICES ASSUME AssignmentInit PROVE IInv
  BY Zenon
<1>1. AssignmentTypeOK /\ config.index < config.count
  BY AssignmentAssumption DEF AssignmentInit, AssignmentTypeOK, Configs
<1>2. NumAssigned \in Nat \ {0}
  BY Zenon, <1>1, NumAssignedPositive
<1>3. Wrapping = {}
  BY Zenon DEF AssignmentInit, Wrapping
<1>4. Covered
  <2>1. Cardinality(Wrapping) = 0
    BY Zenon, <1>3, FS_EmptySet
  <2> QED
    BY <1>2, <2>1 DEF Covered, AssignmentInit
<1>5. IndexInRange
  BY <1>2 DEF IndexInRange, AssignmentInit
<1> QED
  BY Zenon, <1>1, <1>4, <1>5 DEF IInv

\* Types and the configuration are preserved by every step.
LEMMA TypeStep ==
    ASSUME IInv, AssignmentNext
    PROVE  AssignmentTypeOK' /\ (config.index < config.count)'
<1> USE DEF IInv
<1>0. NumAssigned \in Nat \ {0}
  BY Zenon, NumAssignedPositive
<1>1. ASSUME NEW c \in Callers, IncCurrentAssignment(c) PROVE AssignmentTypeOK'
  <2> DEFINE v == Rem(currentAssignment + 1, NumAssigned)
             p == [picks EXCEPT ![v] = @ + 1]
  <2>1. v \in Int
    BY <1>0 DEF Rem, AssignmentTypeOK
  <2>a. /\ currentAssignment' = currentAssignment + 1
        /\ value' = [value EXCEPT ![c] = v]
        /\ pc' = [pc EXCEPT ![c] = IF v = 0 THEN "wrap" ELSE "index"]
        /\ picks' = WithoutRounds(p)
        /\ UNCHANGED <<config, hosts, refreshes>>
    BY Zenon, <1>1 DEF IncCurrentAssignment
  <2> HIDE DEF v
  <2>2. p \in [0..MaxHosts - 1 -> Nat]
    <3>1. picks \in [0..MaxHosts - 1 -> Nat]
      BY Zenon DEF AssignmentTypeOK
    <3>2. ASSUME NEW k \in 0..MaxHosts - 1 PROVE p[k] \in Nat
      BY <3>1
    <3>3. p = [k \in 0..MaxHosts - 1 |-> p[k]]
      BY Zenon, <3>1
    <3> HIDE DEF p
    <3> QED
      BY Zenon, <3>2, <3>3
  <2> HIDE DEF p
  <2>3. WithoutRounds(p) \in [0..MaxHosts - 1 -> Nat]
    BY <2>2 DEF WithoutRounds
  <2> QED
    BY <2>1, <2>3, <2>a DEF AssignmentTypeOK
<1>2. ASSUME NEW c \in Callers, WrapCurrentAssignment(c) PROVE AssignmentTypeOK'
  BY <1>0, <1>2 DEF WrapCurrentAssignment, AssignmentTypeOK
<1>3. ASSUME NEW c \in Callers, ReturnHost(c) PROVE AssignmentTypeOK'
  BY Zenon, <1>3 DEF ReturnHost, AssignmentTypeOK
<1>4. ASSUME RefreshHosts PROVE AssignmentTypeOK'
  BY <1>4, AssignmentAssumption DEF RefreshHosts, AssignmentTypeOK
<1>5. config' = config
  BY Zenon DEF AssignmentNext, IncCurrentAssignment, WrapCurrentAssignment, ReturnHost, RefreshHosts
<1> QED
  BY Zenon, <1>1, <1>2, <1>3, <1>4, <1>5 DEF AssignmentNext
\* The callers about to wrap after the step of one of them.
LEMMA WrappingStep ==
    ASSUME AssignmentTypeOK, NEW c \in Callers, NEW to \in {"idle", "wrap", "index"},
           pc' = [pc EXCEPT ![c] = to]
    PROVE  Wrapping' = IF to = "wrap" THEN Wrapping \cup {c} ELSE Wrapping \ {c}
  BY Zenon DEF AssignmentTypeOK, Wrapping

\* The counter stays covered and the indices stay in range.
LEMMA IncStep ==
    ASSUME IInv, NEW c \in Callers, IncCurrentAssignment(c)
    PROVE  Covered' /\ IndexInRange'
<1> USE DEF IInv
<1> DEFINE n == NumAssigned
           p == Cardinality(Wrapping)
           v == Rem(currentAssignment + 1, n)
<1>1. n \in Nat \ {0} /\ p \in Nat
  BY Zenon, NumAssignedPositive, WrappingFinite
<1>2. currentAssignment \in Nat /\ currentAssignment >= n * p
  <2>1. n * p \in Nat /\ currentAssignment \in Int
    BY <1>1 DEF AssignmentTypeOK
  <2> QED
    BY <2>1 DEF Covered
<1>3. NumAssigned' = n
  BY Zenon DEF IncCurrentAssignment, NumAssigned, Assigned
<1>4. v = (currentAssignment + 1) % n /\ v \in 0..n - 1
  BY <1>1, <1>2, RemInRange
<1>5. /\ currentAssignment' = currentAssignment + 1
      /\ value' = [value EXCEPT ![c] = v]
      /\ pc' = [pc EXCEPT ![c] = IF v = 0 THEN "wrap" ELSE "index"]
      /\ pc[c] = "idle"
  BY Zenon DEF IncCurrentAssignment
<1> HIDE DEF n, p, v
<1>6. CASE v = 0
  <2>1. Wrapping' = Wrapping \cup {c} /\ c \notin Wrapping
    BY Zenon, <1>5, <1>6, WrappingStep DEF Wrapping
  <2>2. Cardinality(Wrapping)' = p + 1
    BY Zenon, <2>1, WrappingFinite, FS_AddElement DEF p
  <2>3. currentAssignment + 1 >= n * (p + 1)
    BY Zenon, <1>1, <1>2, <1>4, <1>6, NextMultiple
  <2> QED
    BY Zenon, <1>1, <1>3, <1>4, <1>5, <2>2, <2>3 DEF Covered, IndexInRange, AssignmentTypeOK, n
<1>7. CASE v # 0
  <2>1. Wrapping' = Wrapping
    BY Zenon, <1>5, <1>7, WrappingStep DEF Wrapping
  <2>2. currentAssignment + 1 >= n * p
    BY <1>1, <1>2
  <2> QED
    BY Zenon, <1>1, <1>3, <1>4, <1>5, <2>1, <2>2 DEF Covered, IndexInRange, AssignmentTypeOK, n, p
<1> QED
  BY Zenon, <1>6, <1>7

\* The second step of incCurrentAssignmentCounter takes back at most what the
\* callers still inside have added, so the counter does not fall below zero.
LEMMA WrapStep ==
    ASSUME IInv, NEW c \in Callers, WrapCurrentAssignment(c)
    PROVE  Covered' /\ IndexInRange'
<1> USE DEF IInv
<1> DEFINE n == NumAssigned
           p == Cardinality(Wrapping)
<1>1. n \in Nat \ {0} /\ p \in Nat
  BY Zenon, NumAssignedPositive, WrappingFinite
<1>2. NumAssigned' = n
  BY Zenon DEF WrapCurrentAssignment, NumAssigned, Assigned
<1>3. Wrapping' = Wrapping \ {c} /\ c \in Wrapping
  BY Zenon, WrappingStep DEF WrapCurrentAssignment, Wrapping
<1>4. Cardinality(Wrapping)' = p - 1
  BY Zenon, <1>3, WrappingFinite, FS_RemoveElement
<1>5. currentAssignment \in Int /\ currentAssignment >= n * p
  BY Zenon DEF Covered, AssignmentTypeOK
<1>6. currentAssignment' = currentAssignment - n
  BY Zenon DEF WrapCurrentAssignment
<1> HIDE DEF n, p
<1>7. n * (p - 1) = n * p - n
  BY <1>1
<1>8. Covered'
  BY <1>1, <1>2, <1>4, <1>5, <1>6, <1>7 DEF Covered
<1>9. IndexInRange'
  BY Zenon, <1>1, <1>2 DEF IndexInRange, WrapCurrentAssignment, AssignmentTypeOK, n
<1> QED
  BY Zenon, <1>8, <1>9

\* NextAssignedHost reads the host and releases the lock.
LEMMA ReturnStep ==
    ASSUME IInv, NEW c \in Callers, ReturnHost(c)
    PROVE  Covered' /\ IndexInRange'
<1> USE DEF IInv
<1>1. NumAssigned' = NumAssigned
  BY Zenon DEF ReturnHost, NumAssigned, Assigned
<1>2. Wrapping' = Wrapping
  BY Zenon, WrappingStep DEF ReturnHost, Wrapping
<1>3. Covered'
  BY Zenon, <1>1, <1>2 DEF Covered, ReturnHost
<1>4. IndexInRange'
  BY Zenon, <1>1 DEF IndexInRange, ReturnHost, AssignmentTypeOK
<1> QED
  BY Zenon, <1>3, <1>4

\* RefreshHosts holds the lock alone and stores a set of hosts that is not empty.
LEMMA RefreshStep ==
    ASSUME IInv, RefreshHosts, NumAssigned' \in Nat \ {0}
    PROVE  Covered' /\ IndexInRange'
<1> USE DEF IInv
<1>1. Wrapping = {} /\ Wrapping' = {}
  BY Zenon DEF RefreshHosts, Wrapping
<1>2. Cardinality(Wrapping) = 0 /\ Cardinality(Wrapping)' = 0
  BY Zenon, <1>1, FS_EmptySet
<1>3. currentAssignment >= 0
  BY <1>2, NumAssignedPositive DEF Covered, AssignmentTypeOK
<1>4. Covered'
  BY <1>2, <1>3 DEF Covered, RefreshHosts
<1>5. IndexInRange'
  BY DEF IndexInRange, RefreshHosts
<1> QED
  BY Zenon, <1>4, <1>5

\* Every step of a caller or of a refresh preserves the inductive invariant.
LEMMA NextInv == IInv /\ [AssignmentNext]_assignmentVars => IInv'
<1> SUFFICES ASSUME IInv, [AssignmentNext]_assignmentVars PROVE IInv'
  BY Zenon
<1>1. CASE AssignmentNext
  <2>1. AssignmentTypeOK' /\ (config.index < config.count)'
    BY Zenon, <1>1, TypeStep
  <2>2. NumAssigned' \in Nat \ {0}
    <3>1. config' \in Configs /\ hosts' \in 1..MaxHosts
      BY Zenon, <2>1 DEF AssignmentTypeOK, Configs
    <3>2. config'.index \in Nat /\ config'.count \in Nat \ {0} /\ hosts' \in Nat \ {0}
      BY <3>1, AssignmentAssumption DEF Configs
    <3> QED
      BY Zenon, <2>1, <3>2, HasHost DEF NumAssigned, Assigned
  <2>3. Covered' /\ IndexInRange'
    BY Zenon, <1>1, <2>2, IncStep, WrapStep, ReturnStep, RefreshStep DEF AssignmentNext
  <2> QED
    BY Zenon, <2>1, <2>3 DEF IInv
<1>2. CASE UNCHANGED assignmentVars
  BY Zenon, <1>2 DEF assignmentVars, IInv, AssignmentTypeOK, Covered, Wrapping, IndexInRange, NumAssigned, Assigned
<1> QED
  BY Zenon, <1>1, <1>2

-----------------------------------------------------------------------------
\* The inductive invariant holds in every state.
THEOREM Invariant == AssignmentSpec => []IInv
<1>1. AssignmentInit => IInv
  BY Zenon, InitInv
<1>2. IInv /\ [AssignmentNext]_assignmentVars => IInv'
  BY Zenon, NextInv
<1> QED
  BY <1>1, <1>2, PTL DEF AssignmentSpec

\* For any number of concurrent callers of NextAssignedHost, of hosts and of
\* instances, and however the topology changes between the calls, the index
\* incCurrentAssignmentCounter returns is one of assignedHosts.
THEOREM IndicesInRange == AssignmentSpec => []IndexInRange
<1>1. IInv => IndexInRange
  BY Zenon DEF IInv
<1> QED
  BY <1>1, Invariant, PTL

\* The variables keep their types; in particular no refresh stores an empty
\* list of hosts (RefreshHosts).
THEOREM TypeCorrect == AssignmentSpec => []AssignmentTypeOK
<1>1. IInv => AssignmentTypeOK
  BY Zenon DEF IInv
<1> QED
  BY <1>1, Invariant, PTL

\* The distance between two neighbouring tokens is positive and the last
\* token lies below the end of the ring.
LEMMA TokenBounds ==
    ASSUME NEW n \in Nat \ {0}, NEW m \in Nat \ {0}, NEW r \in Nat, n * m <= r,
           NEW b \in 0..n * m - 1
    PROVE  /\ r \div (n * m) \in Nat \ {0}
           /\ (r \div (n * m)) * b \in 0..r - 1
<1> DEFINE k == n * m
           a == r \div k
<1>1. k \in Nat \ {0} /\ k <= r /\ b \in 0..k - 1
  OBVIOUS
<1> HIDE DEF k
<1>2. a \in Nat /\ a * k <= r
  BY <1>1
<1>3. a # 0
  BY <1>1
<1> HIDE DEF a
<1>4. a * b \in Nat
  BY <1>1, <1>2
<1>5. a * b < a * k
  BY <1>1, <1>2, <1>3
<1> QED
  BY <1>1, <1>2, <1>3, <1>4, <1>5 DEF a, k

\* The place of a token on the ring.
LEMMA PlaceBounds ==
    ASSUME NEW n \in Nat \ {0}, NEW m \in Nat \ {0}, NEW i \in 0..n - 1, NEW t \in 0..m - 1
    PROVE  t * n + i \in 0..m * n - 1
<1>1. (t + 1) * n <= m * n
  OBVIOUS
<1>2. (t + 1) * n = t * n + n /\ t * n \in Nat /\ m * n \in Nat
  OBVIOUS
<1> QED
  BY <1>1, <1>2
\* Two tokens are equal only when their places are.
LEMMA SpacingCancels ==
    ASSUME NEW a \in Nat \ {0}, NEW x \in Int, NEW y \in Int, NEW h \in Int,
           a * x - h = a * y - h
    PROVE  x = y
<1>1. a * x \in Int /\ a * y \in Int
  OBVIOUS
<1>2. a * x = a * y
  BY <1>1
<1>3. a * (x - y) = 0
  BY <1>2
<1> QED
  BY <1>3

\* Every configuration that fits on the ring spreads its tokens.
LEMMA TypeGivesTokens == AssignmentTypeOK => TokensDistinct
<1> SUFFICES ASSUME AssignmentTypeOK PROVE TokensDistinct
  BY Zenon
<1> DEFINE n == config.count
           m == config.numTokens
           a == Ring \div (m * n)
           h == Ring \div 2
<1>1. n \in Nat \ {0} /\ m \in Nat \ {0} /\ n <= MaxInstances /\ m <= MaxTokens
  BY AssignmentAssumption DEF AssignmentTypeOK, Configs
<1>2. Ring \in Nat /\ h \in Int
  BY AssignmentAssumption
<1>3. m * n <= Ring
  <2>1. /\ MaxTokens \in Nat /\ MaxInstances \in Nat
        /\ MaxTokens * MaxInstances \in Nat /\ MaxTokens * MaxInstances <= Ring
    BY AssignmentAssumption
  <2> HIDE DEF n, m
  <2>2. m * n <= MaxTokens * n
    BY <1>1, <2>1
  <2>3. MaxTokens * n <= MaxTokens * MaxInstances
    BY <1>1, <2>1
  <2> QED
    BY <1>1, <1>2, <2>1, <2>2, <2>3
<1>4. ASSUME NEW q \in Places
      PROVE  /\ q[1] \in 0..n - 1 /\ q[2] \in 0..m - 1
             /\ q[2] * n + q[1] \in 0..m * n - 1
  BY Zenon, <1>1, PlaceBounds DEF Places
<1>5. ASSUME NEW q \in Places
      PROVE  /\ a \in Nat \ {0}
             /\ a * (q[2] * n + q[1]) \in 0..Ring - 1
             /\ Token(q[1], q[2]) = a * (q[2] * n + q[1]) - h
  <2>1. q[2] * n + q[1] \in 0..m * n - 1
    BY Zenon, <1>4
  <2>2. a \in Nat \ {0} /\ a * (q[2] * n + q[1]) \in 0..Ring - 1
    BY Zenon, <1>1, <1>2, <1>3, <2>1, TokenBounds
  <2> QED
    BY Zenon, <2>2 DEF Token
<1>6. ASSUME NEW q \in Places
      PROVE  Token(q[1], q[2]) \in -(Ring \div 2)..Ring - Ring \div 2 - 1
  <2> DEFINE x == a * (q[2] * n + q[1])
  <2>1. x \in 0..Ring - 1 /\ Token(q[1], q[2]) = x - h
    BY Zenon, <1>5
  <2> HIDE DEF x
  <2> QED
    BY <1>2, <2>1
<1>7. ASSUME NEW q \in Places, NEW r \in Places, Token(q[1], q[2]) = Token(r[1], r[2])
      PROVE  q = r
  <2>1. PICK i \in 0..n - 1, t \in 0..m - 1 : q = <<i, t>>
    BY DEF Places
  <2>2. PICK j \in 0..n - 1, u \in 0..m - 1 : r = <<j, u>>
    BY DEF Places
  <2>3. a \in Nat \ {0} /\ Token(i, t) = a * (t * n + i) - h
    BY Zenon, <1>5, <2>1
  <2>4. Token(j, u) = a * (u * n + j) - h
    BY Zenon, <1>5, <2>2
  <2>5. Token(i, t) = Token(j, u)
    BY Zenon, <1>7, <2>1, <2>2
  <2> HIDE DEF n, m, a, h
  <2>6. t * n + i = u * n + j
    BY <1>1, <1>2, <2>3, <2>4, <2>5, SpacingCancels
  <2>7. t = u /\ i = j
    BY <1>1, <2>6, PlacesDiffer
  <2> QED
    BY Zenon, <2>1, <2>2, <2>7
<1> QED
  BY Zenon, <1>6, <1>7 DEF TokensDistinct

\* Whatever the number of proxy instances and of tokens, as long as they fit
\* on the ring, computeVirtualHosts gives no token twice and none outside the
\* ring.
THEOREM TokensAreDistinct == AssignmentSpec => []TokensDistinct
  BY TypeCorrect, TypeGivesTokens, PTL

-----------------------------------------------------------------------------
(* The hosts are handed out in turn. *)

\* How long ago, in picks, host k had its turn when the counter is at m of n.
Behind(m, k, n) == IF k <= m THEN m - k ELSE m - k + n

\* Since the last full round the hosts that had their turn are the last len up
\* to the counter, each of them once.
InTurn ==
    \E len \in 0..NumAssigned - 1 : \A k \in 0..NumAssigned - 1 :
        picks[k] = IF Behind(currentAssignment % NumAssigned, k, NumAssigned) < len
                   THEN 1 ELSE 0

\* An instance has no more hosts than there are.
LEMMA AssignedWithinHosts ==
    ASSUME AssignmentTypeOK PROVE NumAssigned <= MaxHosts
<1>1. hosts \in Nat \ {0} /\ hosts <= MaxHosts
  BY AssignmentAssumption DEF AssignmentTypeOK
<1>2. IsFiniteSet(0..hosts - 1) /\ Cardinality(0..hosts - 1) = hosts
  BY <1>1, FS_Interval
<1>3. Assigned \subseteq 0..hosts - 1
  BY Zenon DEF Assigned, computeAssignedHosts
<1>4. IsFiniteSet(Assigned) /\ Cardinality(Assigned) <= Cardinality(0..hosts - 1)
  BY Zenon, <1>2, <1>3, FS_Subset
<1>5. NumAssigned \in Nat /\ NumAssigned <= hosts
  BY Zenon, <1>2, <1>4, FS_CardinalityType DEF NumAssigned
<1> QED
  BY <1>1, <1>5, AssignmentAssumption

\* The counter is not negative and there is a host to hand out, now and after
\* the step.
Ready == currentAssignment \in Nat /\ NumAssigned \in Nat \ {0} /\ NumAssigned <= MaxHosts

LEMMA IsReady == IInv => Ready
<1> SUFFICES ASSUME IInv PROVE Ready
  BY Zenon
<1>1. NumAssigned * Cardinality(Wrapping) \in Nat /\ NumAssigned \in Nat \ {0}
  BY NumAssignedPositive, WrappingFinite DEF IInv
<1> QED
  BY <1>1, AssignedWithinHosts DEF IInv, AssignmentTypeOK, Covered, Ready

LEMMA StaysReady == IInv' => Ready'
  BY IsReady, PTL

\* One turn: v comes after m, and had its turn the longest ago.
LEMMA NextTurn ==
    ASSUME NEW n \in Nat \ {0}, NEW m \in 0..n - 1, NEW v, NEW k \in 0..n - 1,
           v = IF m = n - 1 THEN 0 ELSE m + 1
    PROVE  /\ Behind(m, v, n) = n - 1 /\ Behind(v, v, n) = 0
           /\ k # v => Behind(v, k, n) = Behind(m, k, n) + 1
           /\ Behind(v, IF v = n - 1 THEN 0 ELSE v + 1, n) = n - 1
           /\ Behind(v, k, n) \in 0..n - 1
  BY DEF Behind

LEMMA IncInTurn ==
    ASSUME IInv, InTurn, NEW c \in Callers, IncCurrentAssignment(c)
    PROVE  InTurn'
<1> DEFINE n == NumAssigned
           m == currentAssignment % n
           v == Rem(currentAssignment + 1, n)
           p == [picks EXCEPT ![v] = @ + 1]
<1>1. n \in Nat \ {0} /\ n <= MaxHosts
  BY Zenon, IsReady DEF Ready
<1>2. /\ currentAssignment' = currentAssignment + 1
      /\ NumAssigned' = n /\ picks' = WithoutRounds(p)
  BY Zenon DEF IncCurrentAssignment, NumAssigned, Assigned
<1>3. m \in 0..n - 1 /\ v = (IF m = n - 1 THEN 0 ELSE m + 1) /\ currentAssignment' % n = v
  <2>1. currentAssignment \in Nat /\ currentAssignment + 1 \in Nat
    BY IsReady DEF Ready
  <2>2. v = (currentAssignment + 1) % n
    BY Zenon, <1>1, <2>1, RemInRange
  <2>3. m \in 0..n - 1 /\ (currentAssignment + 1) % n = IF m = n - 1 THEN 0 ELSE m + 1
    BY Zenon, <1>1, <2>1, RemainderSteps
  <2> QED
    BY Zenon, <1>2, <2>2, <2>3
<1>4. picks \in [0..MaxHosts - 1 -> Nat] /\ 0..n - 1 \subseteq 0..MaxHosts - 1
  BY <1>1, AssignmentAssumption DEF IInv, AssignmentTypeOK
<1>5. PICK len \in 0..n - 1 : \A k \in 0..n - 1 :
          picks[k] = IF Behind(m, k, n) < len THEN 1 ELSE 0
  BY Zenon DEF InTurn
<1>6. /\ WithoutRounds(p) = IF \A k \in 0..n - 1 : p[k] > 0
                            THEN [k \in DOMAIN p |-> IF p[k] > 0 THEN p[k] - 1 ELSE 0]
                            ELSE p
      /\ DOMAIN p = 0..MaxHosts - 1
  BY Zenon, <1>4 DEF WithoutRounds
<1> HIDE DEF n, m, v
<1>7. ASSUME NEW k \in 0..n - 1
      PROVE  p[k] = IF Behind(v, k, n) < len + 1 THEN 1 ELSE 0
  <2>1. CASE k = v
    <3>1. Behind(m, v, n) = n - 1 /\ Behind(v, v, n) = 0
      BY <1>1, <1>3, <2>1, NextTurn
    <3>2. picks[v] = 0
      BY <1>1, <1>5, <2>1, <3>1
    <3>3. p[v] = 1
      BY <1>4, <2>1, <3>2
    <3> QED
      BY <1>1, <2>1, <3>1, <3>3
  <2>2. CASE k # v
    <3>1. p[k] = picks[k]
      BY Zenon, <1>4, <2>2
    <3>2. Behind(v, k, n) = Behind(m, k, n) + 1
      BY <1>1, <1>3, <2>2, NextTurn
    <3>3. Behind(m, k, n) \in Int
      BY <1>1, <1>3 DEF Behind
    <3> QED
      BY <1>5, <3>1, <3>2, <3>3
  <2> QED
    BY Zenon, <2>1, <2>2
<1> HIDE DEF p
<1>8. ASSUME NEW l \in 0..n - 1,
             \A k \in 0..n - 1 : picks'[k] = IF Behind(v, k, n) < l THEN 1 ELSE 0
      PROVE  InTurn'
  BY Zenon, <1>2, <1>3, <1>8 DEF InTurn
<1>9. CASE len + 1 < n
  <2>1. PICK k \in 0..n - 1 : Behind(v, k, n) = n - 1
    <3>1. (IF v = n - 1 THEN 0 ELSE v + 1) \in 0..n - 1
      BY <1>1, <1>3
    <3> QED
      BY <1>1, <1>3, <3>1, NextTurn
  <2>2. ~(p[k] > 0)
    BY <1>1, <1>7, <1>9, <2>1
  <2>3. picks' = p /\ len + 1 \in 0..n - 1
    BY <1>1, <1>2, <1>6, <1>9, <2>2
  <2> QED
    BY Zenon, <1>7, <1>8, <2>3
<1>10. CASE len + 1 = n
  <2>1. ASSUME NEW k \in 0..n - 1 PROVE p[k] = 1
    <3>1. Behind(v, k, n) \in 0..n - 1
      BY Zenon, <1>1, <1>3, NextTurn
    <3> QED
      BY <1>7, <1>10, <3>1
  <2>2. picks' = [k \in DOMAIN p |-> IF p[k] > 0 THEN p[k] - 1 ELSE 0]
    BY <1>2, <1>6, <2>1
  <2>3. ASSUME NEW k \in 0..n - 1
        PROVE  picks'[k] = 0 /\ ~(Behind(v, k, n) < 0)
    <3>1. picks'[k] = 0
      BY <1>4, <1>6, <2>1, <2>2
    <3>2. Behind(v, k, n) \in 0..n - 1
      BY Zenon, <1>1, <1>3, NextTurn
    <3> QED
      BY <1>1, <3>1, <3>2
  <2>4. 0 \in 0..n - 1
    BY <1>1
  <2> QED
    BY Zenon, <1>8, <2>3, <2>4
<1> QED
  BY <1>1, <1>9, <1>10

LEMMA InTurnStep == IInv /\ InTurn /\ [AssignmentNext]_assignmentVars /\ IInv' => InTurn'
<1> SUFFICES ASSUME IInv, InTurn, [AssignmentNext]_assignmentVars, IInv' PROVE InTurn'
  BY Zenon
<1>1. ASSUME NEW c \in Callers, WrapCurrentAssignment(c) PROVE InTurn'
  <2>1. /\ currentAssignment' = currentAssignment - NumAssigned
        /\ NumAssigned' = NumAssigned /\ picks' = picks
    BY Zenon, <1>1 DEF WrapCurrentAssignment, NumAssigned, Assigned
  <2>2. Ready /\ Ready'
    BY Zenon, IsReady, StaysReady
  <2>3. currentAssignment >= NumAssigned
    BY <2>1, <2>2 DEF Ready
  <2>4. (currentAssignment - NumAssigned) % NumAssigned = currentAssignment % NumAssigned
    BY Zenon, <2>2, <2>3, RemainderSteps DEF Ready
  <2> QED
    BY Zenon, <2>1, <2>4 DEF InTurn
<1>2. CASE RefreshHosts
  <2>1. Ready' /\ AssignmentTypeOK'
    BY Zenon, StaysReady DEF IInv
  <2> DEFINE n == NumAssigned'
             m == currentAssignment' % n
  <2>2. n \in Nat \ {0} /\ n <= MaxHosts /\ m \in 0..n - 1
    BY Zenon, <2>1, RemainderSteps DEF Ready
  <2>3. picks' = [k \in 0..MaxHosts - 1 |-> 0]
    BY Zenon, <1>2 DEF RefreshHosts, IInv, AssignmentTypeOK
  <2> HIDE DEF n, m
  <2>4. ASSUME NEW k \in 0..n - 1 PROVE picks'[k] = 0 /\ ~(Behind(m, k, n) < 0)
    BY <2>2, <2>3, AssignmentAssumption DEF Behind
  <2>5. 0 \in 0..n - 1
    BY <2>2
  <2> QED
    BY Zenon, <2>4, <2>5 DEF InTurn, n, m
<1>3. CASE UNCHANGED <<currentAssignment, picks, config, hosts>>
  <2>1. NumAssigned' = NumAssigned
    BY Zenon, <1>3 DEF NumAssigned, Assigned
  <2> QED
    BY Zenon, <1>3, <2>1 DEF InTurn
<1> QED
  BY Zenon, <1>1, <1>2, <1>3, IncInTurn DEF AssignmentNext, ReturnHost, assignmentVars

LEMMA InitInTurn == AssignmentInit => InTurn
<1> SUFFICES ASSUME AssignmentInit PROVE InTurn
  BY Zenon
<1> DEFINE n == NumAssigned
           m == currentAssignment % n
<1>1. n \in Nat \ {0} /\ n <= MaxHosts /\ m \in 0..n - 1
  BY Zenon, InitInv, IsReady, RemainderSteps DEF Ready
<1>2. picks = [k \in 0..MaxHosts - 1 |-> 0]
  BY Zenon DEF AssignmentInit
<1> HIDE DEF n, m
<1>3. ASSUME NEW k \in 0..n - 1 PROVE picks[k] = 0 /\ ~(Behind(m, k, n) < 0)
  BY <1>1, <1>2, AssignmentAssumption DEF Behind
<1>4. 0 \in 0..n - 1
  BY <1>1
<1> QED
  BY Zenon, <1>3, <1>4 DEF InTurn, n, m

\* However the steps of concurrent callers of NextAssignedHost interleave, the
\* assigned hosts are handed out in turn: between two refreshes none of them is
\* more than one client ahead of another (incCurrentAssignmentCounter).
THEOREM HostsAreBalanced == AssignmentSpec => []Balanced
<1>1. AssignmentInit => IInv /\ InTurn
  BY Zenon, InitInv, InitInTurn
<1>2. IInv /\ InTurn /\ [AssignmentNext]_assignmentVars => (IInv /\ InTurn)'
  BY Zenon, NextInv, InTurnStep
<1>3. IInv /\ InTurn => Balanced
  BY DEF IInv, InTurn, Balanced
<1> QED
  BY <1>1, <1>2, <1>3, PTL DEF AssignmentSpec

-----------------------------------------------------------------------------
(* The shares of the instances. *)

\* With at least as many hosts as instances, instance i has every count-th host
\* from i on.
LEMMA ShareOfMany ==
    ASSUME NEW n \in Nat \ {0}, NEW count \in Nat \ {0}, count <= n, NEW i \in 0..count - 1
    PROVE  Cardinality(computeAssignedHosts(i, count, n)) = (n - 1 - i) \div count + 1
<1> DEFINE A == computeAssignedHosts(i, count, n)
           q == (n - 1 - i) \div count
           f == [t \in 0..q |-> t * count + i]
<1>1. A = {k \in 0..n - 1 : k % count = i}
  <2>1. i % n = i
    OBVIOUS
  <2> QED
    BY Zenon, <2>1 DEF computeAssignedHosts
<1>2. q \in Nat /\ q * count <= n - 1 - i /\ n - 1 - i < (q + 1) * count
  <2> DEFINE a == n - 1 - i
  <2>1. a \in Nat
    OBVIOUS
  <2> HIDE DEF a
  <2>2. a \div count \in Nat /\ a % count \in 0..count - 1 /\ a = (a \div count) * count + (a % count)
    BY <2>1
  <2> QED
    BY <2>1, <2>2 DEF a
<1> HIDE DEF q, A
<1>3. ASSUME NEW t \in 0..q PROVE t * count + i \in A
  <2>1. t * count <= q * count /\ t * count \in Nat
    BY <1>2
  <2>2. t * count + i \in 0..n - 1
    BY <1>2, <2>1
  <2>3. (t * count + i) % count = i
    BY RemainderIs, <1>2
  <2> QED
    BY Zenon, <1>1, <2>2, <2>3
<1>4. f \in [0..q -> A] /\ \A t \in 0..q : f[t] = t * count + i
  BY Zenon, <1>3
<1> HIDE DEF f
<1>5. ASSUME NEW t \in 0..q, NEW u \in 0..q, f[t] = f[u] PROVE t = u
  <2>1. t \in Nat /\ u \in Nat
    BY <1>2
  <2>2. t * count + i = u * count + i
    BY Zenon, <1>4, <1>5
  <2> QED
    BY Zenon, <2>1, <2>2, PlacesDiffer
<1>6. ASSUME NEW k \in A PROVE \E t \in 0..q : f[t] = k
  <2> DEFINE t == k \div count
  <2>1. k \in 0..n - 1 /\ k % count = i
    BY Zenon, <1>1, <1>6
  <2>2. t \in Nat /\ k = t * count + i
    BY <2>1
  <2> HIDE DEF t
  <2>3. t <= q
    <3>1. SUFFICES ASSUME q + 1 <= t PROVE FALSE
      BY <1>2, <2>2
    <3>2. (q + 1) * count <= t * count
      BY <1>2, <2>2, <3>1
    <3> QED
      BY <1>2, <2>1, <2>2, <3>2
  <2>4. t \in 0..q
    BY <1>2, <2>2, <2>3
  <2> QED
    BY Zenon, <1>4, <2>2, <2>4
<1>7. ExistsBijection(0..q, A)
  BY Zenon, <1>4, <1>5, <1>6, Fun_IsBij DEF ExistsBijection
<1>8. IsFiniteSet(0..q) /\ Cardinality(0..q) = q + 1
  BY <1>2, FS_Interval
<1>9. Cardinality(A) = q + 1
  <2>1. Cardinality(A) = Cardinality(0..q)
    BY Zenon, <1>7, <1>8, FS_Bijection
  <2> QED
    BY Zenon, <1>8, <2>1
<1> QED
  BY Zenon, <1>9 DEF A, q

\* With fewer hosts than instances every instance has one.
LEMMA ShareOfFew ==
    ASSUME NEW n \in Nat \ {0}, NEW count \in Nat \ {0}, n < count, NEW i \in 0..count - 1
    PROVE  Cardinality(computeAssignedHosts(i, count, n)) = 1
<1>1. i % n \in 0..n - 1
  OBVIOUS
<1>2. ASSUME NEW k \in 0..n - 1 PROVE k % count = k
  OBVIOUS
<1>3. computeAssignedHosts(i, count, n) = {i % n}
  BY Zenon, <1>1, <1>2 DEF computeAssignedHosts
<1> QED
  BY Zenon, <1>3, FS_Singleton

\* The quotients of two numbers that differ by less than n differ by at most one.
LEMMA CloseQuotients ==
    ASSUME NEW n \in Nat \ {0}, NEW a \in Nat, NEW b \in Nat, a < b + n
    PROVE  a \div n \in Nat /\ b \div n \in Nat /\ a \div n <= b \div n + 1
<1> DEFINE q == a \div n
           p == b \div n
<1>1. q \in Nat /\ p \in Nat /\ q * n <= a /\ b < (p + 1) * n
  OBVIOUS
<1> HIDE DEF q, p
<1>2. q <= p + 1
  <2>1. SUFFICES ASSUME p + 2 <= q PROVE FALSE
    BY <1>1
  <2>2. (p + 2) * n <= q * n
    BY <1>1, <2>1
  <2>3. (p + 2) * n = (p + 1) * n + n
    BY <1>1
  <2> QED
    BY <1>1, <2>2, <2>3
<1> QED
  BY Zenon, <1>1, <1>2 DEF q, p

\* Every host is somebody's: that of the instance it is counted off to.
LEMMA HostIsServed ==
    ASSUME NEW n \in Nat \ {0}, NEW count \in Nat \ {0}, NEW k \in 0..n - 1
    PROVE  \E i \in 0..count - 1 : k \in computeAssignedHosts(i, count, n)
<1> DEFINE i == k % count
<1>1. i \in 0..count - 1 /\ i <= k
  OBVIOUS
<1>2. i % n = i
  BY <1>1
<1> HIDE DEF i
<1>3. k \in computeAssignedHosts(i, count, n)
  BY Zenon, <1>2 DEF computeAssignedHosts, i
<1> QED
  BY Zenon, <1>1, <1>3

LEMMA TypeGivesShares == AssignmentTypeOK => SharesAreEven
<1> SUFFICES ASSUME AssignmentTypeOK PROVE SharesAreEven
  BY Zenon
<1> DEFINE n == hosts
           count == config.count
           Share(i) == Cardinality(computeAssignedHosts(i, count, n))
<1>1. n \in Nat \ {0} /\ count \in Nat \ {0}
  BY AssignmentAssumption DEF AssignmentTypeOK, Configs
<1> HIDE DEF n, count
<1>2. ASSUME NEW i \in 0..count - 1, NEW j \in 0..count - 1
      PROVE  Share(i) - Share(j) <= 1
  <2>1. CASE n < count
    <3>1. Share(i) = 1 /\ Share(j) = 1
      BY Zenon, <1>1, <2>1, ShareOfFew
    <3> HIDE DEF Share
    <3> QED
      BY <3>1
  <2>2. CASE count <= n
    <3> DEFINE a == n - 1 - i
               b == n - 1 - j
    <3>1. Share(i) = a \div count + 1 /\ Share(j) = b \div count + 1
      BY Zenon, <1>1, <2>2, ShareOfMany
    <3>2. a \in Nat /\ b \in Nat /\ a < b + count
      BY <1>1, <2>2
    <3> HIDE DEF a, b, Share
    <3>3. a \div count \in Nat /\ b \div count \in Nat /\ a \div count <= b \div count + 1
      BY Zenon, <1>1, <3>2, CloseQuotients
    <3> QED
      BY <3>1, <3>3
  <2> QED
    BY <1>1, <2>1, <2>2
<1> QED
  BY Zenon, <1>1, <1>2, HostIsServed DEF SharesAreEven, n, count

\* For any number of hosts and instances, and at every refresh, the instances
\* together serve every host and none serves two hosts more than another
\* (computeAssignedHosts).
THEOREM SharesStayEven == AssignmentSpec => []SharesAreEven
  BY TypeCorrect, TypeGivesShares, PTL
=============================================================================
