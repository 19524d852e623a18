# Verification of the ZDM proxy

TLA+ models of the ZDM proxy (`src/proxy`), a proxy that sits between CQL
clients and two Cassandra clusters, *origin* and *target*, while data is
migrated from one to the other. TLC checks the models on small instances and
TLAPS proves the safety properties of all components but one for every value
of the constants.
`PROJECT.json` lists the runs, the source lines behind every definition, a
mutant for every checked property, the hazards and the theorems.

- [1. The system](#1-the-system)
- [2. The modules and the code](#2-the-modules-and-the-code)
- [3. The runs](#3-the-runs)
- [4. Assumptions of the runs](#4-assumptions-of-the-runs)
- [5. Fairness](#5-fairness)
- [6. The proofs](#6-the-proofs)
- [7. Where code and expectation differ](#7-where-code-and-expectation-differ)
- [8. Not modelled](#8-not-modelled)
- [9. Plan](#9-plan)

To check a run, `tlc -config <cfg> <module>` in this directory; to check the
proofs of a module, `tlapm <module>.tla`. The modules use the standard and the
community modules only.

## 1. The system

Every client connection gets a `ClientHandler` with a `ClientConnector` towards
the client and one `ClusterConnector` each towards origin and target; with dual
reads a third, asynchronous one. A write is forwarded to both clusters and
acknowledged only when both have accepted it, a read goes to the primary
cluster and, with dual reads, also to the other one, whose answer is thrown
away.

| Part | State | Operations | Interacts with |
|---|---|---|---|
| stream ids (`streamidmapper.go`) | channel of free ids, map, gauge | `GetNewIdFor`, `ReleaseId`, `Close` | every connector |
| write coalescer (`coalescer.go`, `scheduler.go`) | queue, buffer, tasks of the pool | `Enqueue`, `EnqueueAsync`, write loop, `Close` | connectors, connections |
| client handler (`clienthandler.go`, `requestcontext.go`, `clientconn.go`) | request contexts, holders by stream id, wait groups, contexts | request loop, forwarding, timers, response loop, shutdown | all connectors |
| handshake (`clienthandler.go`, `startup.go`, `auth.go`) | startup response, credentials, state of the secondary handshake | `handleHandshakeRequest`, `handleSecondaryHandshakeStartup` | both clusters, asynchronous connector |
| asynchronous connector (`clusterconn.go`, `pendingrequests.go`) | pending requests, ids, wait group | send, timer, response, PREPARE after UNPREPARED, cancellation | request loop, shutdown of the handler |
| prepared statements (`pscache.go`, `clienthandler.go`, `queryinspector.go`) | cache by origin id, index by target id, intercepted statements, current keyspace | PREPARE, EXECUTE, BATCH, USE, UNPREPARED | all clients, both clusters |
| statements (`antlr`, `queryinspector.go`, `cqlparser.go`) | none: a parse tree and what is kept of it | parse, inspect, route | request loop, prepared statements |
| now() replacement (`querymodifier.go`, `parametermodifier.go`) | terms of a statement, columns, values | rewrite, hide columns in PREPARED, add values on EXECUTE | statements, prepared statements |
| system tables (`nativeprotocol.go`, `host.go`) | virtual hosts, names and data of columns | answer queries on `system.local` and `system.peers` | control connection, request loop |
| control connection (`controlconn.go`) | connection, topology, failure counter, debouncer | open, heartbeat, events, refresh, observers | client handlers, health check |
| host assignment (`controlconn.go`) | assigned hosts, counter | `NextAssignedHost`, refresh, virtual hosts | control connection, new clients |
| process (`proxy.go`, `launch.go`) | listener, count of clients, wait groups, schedulers | start with retries, accept, `Shutdown` | everything |

Behaviours that are hard to get right: the two responses, the timeout and the
cancellation of one request are processed by different goroutines; stream ids
and request contexts are reused; shutdown closes channels that other goroutines
still write to; what was prepared is known to the proxy and to nodes that may
forget it; the topology is refreshed by two goroutines; every error path has to
leave a wait group exactly once. The properties below are about these; the list
of hazards with their source lines is in `PROJECT.json`.

## 2. The modules and the code

Each component has one module; `MC*` modules hold the constants for TLC and
`*Proofs` modules the theorems (`ControlConnProofs` has those of `ControlConn` and
of `HostAssignment`, which is why the latter's definitions have names of their
own, `AssignmentInit` and so on). An action is what one goroutine does between
two points at which others can interfere: a critical section, an operation on a
channel, a wait group or an atomic, or a whole handler where nothing of it is
shared.

**StreamIdMapper.** `clusterIds`, `idMapper` and `metrics` are the fields of
`streamIdMapper`. `GetNewIdFor` is the receive from the channel, then the gauge
(`CountUsed`), then the insertion under the mutex; `ReleaseId` is the critical
section, then the send back to the channel, then the gauge (`CountFree`). `Send`
puts the request under its synthetic id on the wire, or fails to. `Response` is
the cluster's answer to it, `StrayResponse` one that answers no request, with any
id. `asked` and `misled` are history: what the client of the response that is
being read had asked under, and whether a stray response took an id in use.

**WriteCoalescer** and **FrameStream.** A coalescer takes a first frame from its
queue, schedules a task that encodes frames into the buffer on a shared worker,
and writes the buffer. `FrameStream` is the abstract specification: per
connection, a sequence of accepted frames of which a growing prefix has been
written, and nothing after a failure. `InOrder` states the refinement. Frames have
sizes, and the limit of the buffer counts bytes, as `writeBufferSizeBytes` does. A
frame whose encoding fails leaves nothing in the buffer of the model; the bytes it
leaves in that of the code are never written, because the coalescer drains from
then on.

**Handshake.** `TakeRequest`, `Forward`, `AwaitResponse`, `StartHandshakes` and
`Finish` are the request loop; `Attempt` and `Receive` are the loop of
`handleSecondaryHandshakeStartup`, for the secondary cluster and for the
asynchronous connector. Servers answer anything their state allows, an error,
or nothing. A token is credentials or a mechanism. An answer that comes after its
request has timed out finds no request context and changes nothing, so it is not
a step. `IsAuthEnabled` has an error for a cluster of which nothing is known yet;
it is not taken, because `NewControlConn` sets the value (`controlconn.go:69`)
before any client can connect.

**ClientHandler.** A request passes through listener, request loop and a worker
(`rpc`); the two responses and the timeout are messages (`mpc`) that workers
process through `holder[stream]`, as the code does, so a late response may find
the context of another request. `ctx` and `got` are the request context, `wg`
the wait group of requests. The second half of the module is the shutdown: the
request loop, both connectors, the response channel, the client connection. A
peer that stops reading (`Stall`) fills its write queue in the end, and from then
on a worker that sends to it blocks in `Enqueue` (`QueueBlocks`), until the
connection is closed.

**AsyncConnector.** A job is a request or the PREPARE that answers UNPREPARED.
It passes through sending, pending, response, timeout or cancellation, each a
step of its own. The mapper here is `internalStreamIdMapper`. `raced` is history: it
becomes true when a request is completed by its timer or by a cancellation while
its sender is still at work on it, or when a response is given to a request that
reuses its stream id. A panic ends the process.

**PreparedStatements.** Several clients with one request each at a time over the
shared cache. A prepared id is a record of cluster, statement and keyspace: what
the cluster's hash depends on. `buildRequestInfo`, `executeRequest`,
`RequestTo` (ids rewritten for a cluster), `Store`, `processPreparedResponse`
and `aggregateAndTrackResponses` keep their names. Nodes are external: they
know a set of prepared ids and forget it when they restart.

**Statements** and the modules it is built on follow one request from its text to
what is sent, or to the answer the proxy makes itself.

- **CqlGrammar** has one definition for each rule function of the generated
  parser, with its name: the alternatives in their order and what each matches.
  `Parse` is the ANTLR runtime, which is external: its adaptive prediction takes
  the first alternative with which the rest of the statement can be read. A text
  is a sequence of tokens, each with its type, its text and its place. It has all
  rules because `RewrittenAsRead` inspects statements of every kind, with calls in
  every place where the grammar has a term.
- **QueryInspector** is `cqlListener`: what `inspectCqlQuery` keeps of the tree
  (statement type, table, keyspace, select clause, terms, markers, whether
  now() is called), and `replaceFunctionCalls`, which puts a text together again
  from the slices between the calls. ANTLR counts the places of tokens in runes
  and Go slices strings by bytes: a token is one rune long, and one byte but for a
  text literal outside of ASCII, which has two (`Width`, `Bytes`).
- **NowReplacement** is the replacement of now() in the columns of a PREPARED
  result and in the values of an EXECUTE; markers are positional or named, and
  values are given by position or by name.
- **SystemTables** is the part of a refresh that makes virtual hosts of the rows
  of a cluster, and the rows of `system.local` and `system.peers` made of these:
  which columns, in which order, which of them null.
- In **Statements**, `inspectStatements`, `replaceQueryString`, `buildRequestInfo`,
  `processPreparedResponse` and `AddValuesToExecuteFrame` are steps of a request
  (QUERY, PREPARE or BATCH). An intercepted one reads the virtual hosts, the
  names of the columns and their data in steps of their own, with `Refresh`
  between them, as `handleInterceptedRequest` takes a lock for each.

`MCStatements` holds the statements: templates that between them use every rule
of the grammar, with holes that are filled with every term or marker of a small
set.

**ControlConn.** `LoopStep` is the goroutine of `Start` that opens and probes the
connection, `DebouncerStep` the one that refreshes after events, `ClientStep`
a client handler that picks a host and registers its observer. A topology is a
version in the history of the cluster; a query reads the current version and
the store happens in a later step, as in `RefreshHosts`. A new connection is opened
(`Connect`), goes through its handshake (`Initialize`) and subscribes, and is closed
when one of these fails (`Abandon`). `err` is the variable
that both goroutines share, and `crashed` the nil dereference of section 7.

**HostAssignment.** `IncCurrentAssignment` and `WrapCurrentAssignment` are the two
atomic steps of `incCurrentAssignmentCounter`, under the read lock that a
refresh takes exclusively; `computeAssignedHosts` and `Token` are pure.

**Proxy.** `MainStep` is `RunMain`, `RunWithRetries`, `Start` and `Shutdown`;
`AcceptStep` the accept loop; `TaskStep` `handleNewConnection` and
`NewClientHandler`; `EndStep` the end of a handler.

The modules meet at the interfaces the code has: `ClientHandler` abstracts the
mapper to a number of ids, which `StreamIdMapper` justifies (`OwnStreamId`: a
response comes back under the stream id of its request); it takes the order of
writes from `FrameStream`; `Handshake` and `ClientHandler` split the life of a
connection at "ready"; `ControlConn` abstracts the client handler to its
observer and `Proxy` to its goroutines; `PreparedStatements` takes from
`Statements` what is known of a statement (its route, whether it has generated
values) and that the values line up with the columns.

## 3. The runs

Twelve runs; all but `control_nil_conn` pass.

| Run | Module, cfg | Bounds | States | Properties |
|---|---|---|---|---|
| `stream_ids` | MCStreamIdMapper, StreamIdMapper | 3 goroutines, 2 ids, requests that are not sent, stray responses | 315,188 | no id lost or doubled (`IdsConserved`), a response is passed on under its client's stream id (`OwnStreamId`) |
| `coalescer` | MCWriteCoalescer, WriteCoalescer | 2 connections, 1 worker, queue of 2, buffer of 3 bytes, 4 frames of 1 to 4 bytes, failures, one connection that may block | 732,920 | `BufferBounded`, `NothingLost`, `InOrder` (refines FrameStream), `OthersProgress` |
| `handshake` | MCHandshake, Handshake | 3 client requests, 1 retry, all 16 combinations of who asks for credentials and what is known of it | 326,602 | `ReadyMeansBoth`, `CredentialsMeant`, `AuthErrorSticks`, `HandshakeEnds`, `AsyncIsolated` |
| `handler_safety` | MCClientHandler, ClientHandler | 2 requests, 1 or 2 client streams, 1 synthetic id, 5 decisions, protocol errors, shutdown | 2,377,132 | `WaitGroupExact`, `AnswersMatch`, `StreamIdHeld`, `CleanShutdown` |
| `handler_live` | MCClientHandler, ClientHandlerLive | 2 requests on 1 stream, one to both clusters, loss of a connection and shutdown, client and origin may stop reading | 222,452 | `RequestsComplete`, `ShutdownCompletes` |
| `async_connector` | MCAsyncConnector, AsyncConnector | 2 requests and their PREPAREs, 2 ids, queue of 1 | 2,949,324 | `WaitGroupSound`, `NeverStuck` |
| `prepared` | MCPreparedStatements, PreparedStatements | 2 clients, 4 statements, 4 requests, 1 restart | 1,572,198 | `OwnIds`, `AckedWritesOnBoth`, `UnpreparedNamesExecuted`, `RoutedAsPrepared`, `PreparingHeals` |
| `statements` | MCStatements, Statements | 2,492 requests, clusters of up to 3 rows, up to 3 instances, 2 refreshes | 115,149 | `RewrittenAsRead`, `ValuesLineUp`, `RowsMatchColumns`, `PeersAreTheOthers` |
| `control` | ControlConn, ControlConn | 2 hosts, 3 connections, 2 topology changes, 1 failure, 1 client | 450,948 | `NoLeakedConnections`, `NoHandlerOnRemovedHost`, `Reconnects`, `ShutdownEnds`, `TopologyCatchesUp` |
| `control_nil_conn` | ControlConn, ControlConnCrash | 2 hosts, 1 break, 1 client | | `ClientsSurviveReconnect` is violated: section 7 |
| `host_assignment` | HostAssignment, HostAssignment | 3 callers, up to 4 hosts and 3 instances, 2 refreshes | 87,344 | `Balanced`, `SharesAreEven`, `TokensDistinct` |
| `proxy` | Proxy, Proxy | 3 clients for 2 places, 1 worker, 2 attempts | 44,560 | `ClientsCounted`, `ShutdownInOrder`, `SignalEnds`, `TasksEnd` |

The type invariant of a module is a conjunct of one of these invariants
(`WaitGroupExact`, `WaitGroupSound`, `ReadyMeansBoth`, `OwnIds`,
`NoLeakedConnections`, `ClientsCounted`) or is proved (section 6). What each
property says, and of which code, is in the comment above its definition. In
short:

- *Ids and answers.* A synthetic id is in exactly one place (`IdsConserved`), and
  the response of a request gets the stream id of its client back however the ids
  are reused (`OwnStreamId`). An answer is made from
  the responses to its own request (`AnswersMatch`), whose stream id stays taken
  for exactly as long as the request is alive (`StreamIdHeld`).
- *Wait groups and shutdown.* The counter of requests is the number of requests
  under way (`WaitGroupExact`, `WaitGroupSound`); a shutdown sends on no closed
  channel and leaves nothing behind (`CleanShutdown`), takes nothing away from a
  goroutine that still uses it (`ShutdownInOrder`) and ends (`ShutdownCompletes`,
  `NeverStuck`, `ShutdownEnds`, `SignalEnds`).
- *Two clusters.* A client told READY is ready on both (`ReadyMeansBoth`) with the
  credentials meant for each (`CredentialsMeant`); an acknowledged write is on
  both with the same generated values (`AckedWritesOnBoth`, `ValuesLineUp`);
  prepared ids stay with their cluster (`OwnIds`) and a node that lost them is
  healed (`UnpreparedNamesExecuted`, `PreparingHeals`).
- *Statements.* A text with now() replaced is inspected to the same statement as
  before (`RewrittenAsRead`), and every marker of it gets its value
  (`ValuesLineUp`). A driver that asks for the nodes of the cluster gets rows
  that fit the columns (`RowsMatchColumns`) and every proxy instance but the one
  it asks (`PeersAreTheOthers`), also while the topology changes.
- *Topology.* `NoLeakedConnections`, `NoHandlerOnRemovedHost`, `Reconnects`,
  `TopologyCatchesUp`; hosts are handed out in turn and evenly (`Balanced`,
  `SharesAreEven`).

Why the bounds are enough to be of use: the races are between a request and the
one that reuses its stream id (two requests), between the messages of one
request (three, always there), between one goroutine that moves an id and two
that contend for it (three goroutines), between a refresh under way and an event
that arrives (two topology changes), between the last free place and one more
client (three clients for two places). A single worker, a single synthetic id
and queues of one or two frames make every "full" and "exhausted" branch
happen.
Every mutant in `PROJECT.json` is found within the bounds of its run.

`stream_ids`, `proxy` and `handler_live` do not check for deadlock: callers of the
mapper, a process that has ended and a handler that waits for a peer that does not
read may stop. In the other modules the states in which
everything has ended have a stuttering step of their own (`Terminated` and the
like), so a deadlock anywhere else is an error.

The runs are not exhaustive in the configuration settings: `handshake` has the
client's credentials meant for the target and the asynchronous connector on the
origin, `prepared` has the target as primary with dual reads, virtualization and
now() replacement switched on. The other combination of `handshake` (credentials
for the origin, connector on the target) passes with the same cfg and those two
constants changed.

## 4. Assumptions of the runs

Each of these is a constant of a module, or a condition of a property, so that
it can be lifted; where lifting it breaks a property, section 7 says how.

- **AsyncConnector.** Nothing is left out of the interleavings. `WaitGroupSound` is
  claimed until two parties meet over one request (`raced`): a sender that is
  overtaken by the request's timeout or by the cancellation of what is pending, or
  a worker whose response finds the request that has the id now. The ids are handed
  out in the order of their release, so for the latter a worker has to be overtaken
  by as many requests as there are ids, 2048 by default.
- **StreamIdMapper.** `OwnStreamId` is claimed until the cluster sends a response that
  answers no request under an id that is in use (`misled`). `IdsConserved` is not
  limited in this way.
- **WriteCoalescer.** `BufferBounded` is claimed while the connection works: the
  buffer of a draining coalescer grows (section 7).
- **ClientHandler.** Exactness of the counters and `AnswersMatch` are claimed until
  a protocol error is forwarded (`protocolErrOccurred`). From then on the client
  may reuse a stream id whose context is pending (section 7). `Events` has no
  connection loss in `handler_safety` and no protocol error in `handler_live`: all
  of them together are out of TLC's reach. `handler_safety` has no peer that stops
  reading (`Stalling`): a stall only takes steps away, and the proofs of the same
  properties cover it. In `handler_live` one cluster and the client may stall; the
  conditions of the two properties name what that breaks (section 7). A worker here
  belongs to one handler, but the pool of the code is shared by all of them:
  workers held by the stalled clients of other handlers are not modelled.
- **PreparedStatements.** One request per client at a time; both clusters have the
  same schema; a USE has one outcome on both clusters (`Failing` leaves it out);
  neither cluster hashes the keyspace of the connection into its ids
  (`HashKeyspace = {}`).
- **Statements.** `ValuesLineUp` is claimed of statements without markers inside
  the arguments of a function or a literal (`HiddenMarkers`), which inspection
  passes over, and not for values given by name to positional markers of a
  statement with now(); both it and `RewrittenAsRead` are claimed of statements
  without text outside of ASCII before a call of now() (`WideBefore`; section 7).
  The model cuts such a text between two halves of a token, which no rule reads;
  the cuts of the code fall on single bytes. A client sends
  values for its own markers whatever the PREPARED result shows. All rows of
  one result of a cluster have the same columns; the first refresh succeeds, or
  the proxy would not have started. System queries go to the target. Keyspaces
  that start with `system_` or `dse_` are represented by a set of names.
- **ControlConn.** One node never leaves, so that there is always a node to
  reconnect to; one fault per behaviour; a connection has one event queued at a
  time. The attempts to negotiate the protocol version are one step, `Initialize`,
  with an outcome: each attempt closes its connection before the next one opens
  another (`controlconn.go:387`).
  `TopologyCatchesUp` is claimed while the connection holds and no request times
  out.
- **Proxy.** `EarlyLeave = FALSE`: a client does not leave before `run` has started
  all goroutines of its handler. `SignalEnds` takes the end of a handler that was
  told to end as fair, which by `ShutdownCompletes` it is while its client reads.

The constants that only bound the model (`MaxRequests`, `MaxChanges`, `MaxFrames` and
the like) are marked as such where they are declared. `stream_ids`,
`handler_safety`, `async_connector` and `prepared` declare their goroutines,
requests or clients symmetric; no liveness property is checked under symmetry.

## 5. Fairness

Fairness is weak, and only for what the Go scheduler and the runtime's timers
guarantee: a goroutine that can go on eventually does.

| Module | Fair | Not fair |
|---|---|---|
| WriteCoalescer | write loops, start of tasks, writes of healthy connections | callers, `Close`, failures, writes to a connection in `Stuck` |
| Handshake | request loop, both handshake loops, end of the asynchronous connector; a server answers or its request times out | the client's next request, which answer a server gives |
| ClientHandler | every step of a loop or a worker, and the request timers | the client, both clusters, peers that stop reading and what then blocks, loss of connections, shutdown |
| ControlConn | control loop, debouncer, event handler, creation of a client handler | changes of the topology, faults, the operator's shutdown, clients that connect |
| Proxy | main goroutine, accept loop, tasks, end of handlers | clients, outcome of an attempt to start, signals |

`ClientHandler` has one weak fairness condition for all proxy steps together. It
is enough because every step brings some request or loop nearer to its end and
none can be repeated for ever, so that an enabled step is taken in the end.

`RequestsComplete` therefore holds with clusters that never answer: the timer
ends the request. It does not hold with peers that never read, because a write has
no deadline: both liveness properties of the handler say so. `HandshakeEnds` relies on the timeout of a handshake request.

## 6. The proofs

Constants are arbitrary up to the named assumption of the component's module
(`ConstantsAssumption`, `AssignmentAssumption`), which TLC evaluates in every run of
it. A result that needs more says so as a hypothesis of the theorem. Every
inductive invariant was an invariant of the component's run before it was proved.

| Theorem | Module | States | Hypothesis |
|---|---|---|---|
| `StreamIdsConserved`, `ResponsesFindTheirRequest`, `GaugeIsExact` | StreamIdMapperProofs | `IdsConserved`, `OwnStreamId`, `GaugeExact` | |
| `BufferIsBounded`, `CloseLosesNothing`, `CoalescersImplementStreams` | WriteCoalescerProofs | `BufferBounded`, `NothingLost`, `InOrder` | |
| `ReadyOnBoth`, `CredentialsReachTheirCluster`, `AuthErrorStays` | HandshakeProofs | `ReadyMeansBoth`, `CredentialsMeant`, `AuthErrorSticks` | |
| `StreamIdsAreHeld`, `AnswersAreTheirs`, `WaitGroupIsExact`, `ShutdownIsClean` | ClientHandlerProofs | `StreamIdHeld`, `AnswersMatch`, `WaitGroupExact`, `CleanShutdown` | |
| `WaitGroupIsSound` | AsyncConnectorProofs | `WaitGroupSound` | |
| `IdsAreTheClusters`, `ExecuteRoutedAsPrepared`, `AcknowledgedOnBoth` | PreparedStatementsProofs | `OwnIds`, `RoutedAsPrepared`, `AckedWritesOnBoth` | `UsesSucceed` |
| `UnpreparedNamesItsStatement` | PreparedStatementsProofs | `UnpreparedNamesExecuted` | `UsesSucceed`, `OneOrigin` |
| `PreparingAgainHeals` | PreparedStatementsProofs | `PreparingHeals` | `UsesSucceed`, `OneTarget` |
| `NothingIsLeaked`, `RemovedHostsAreLeft` | ControlConnProofs | `NoLeakedConnections`, `NoHandlerOnRemovedHost` | |
| `IndicesInRange`, `HostsAreBalanced`, `SharesStayEven`, `TokensAreDistinct` | ControlConnProofs | `IndexInRange`, `Balanced`, `SharesAreEven`, `TokensDistinct` | |
| `ClientsAreCounted` | ProxyProofs | `ClientsCounted` | |
| `ShutdownIsInOrder` | ProxyProofs | `ShutdownInOrder` | `EarlyLeave = FALSE` |

**StreamIdMapperProofs**, for any number of ids, callers and responses.
`IdsConserved` says that every id is in the channel, in the map or in the hands
of exactly one caller. It is not inductive by itself: `IInv` adds the types,
`Locals` (what a caller holds at each point of a call) and `NoIdDropped` (the two
branches that drop an id, the collision and the full channel, are never taken).
The core of the argument is that an id in a caller's hands is not in the channel,
whose capacity is the number of ids, so there is room for it.
`ResponsesFindTheirRequest` adds `WireInv`: a request that was sent and not answered
is in the map under its own stream id, no two under one synthetic id, and nobody
else has that id in hand. The mapping can go away only through the response or
through a stray one, which sets `misled`. `GaugeIsExact` needs
in addition `GaugeInv`: the gauge lags behind the channel by the callers that are
about to add or subtract.

**WriteCoalescerProofs**, for any set of connections and any sizes. The
inductive invariant says of each coalescer that written, buffered, first and
queued frames together are what was accepted and that the size before the last
frame was below the limit (`Good`), and that a coalescer
has at most one task, exactly when its loop waits for one (`TasksWait`). The last
theorem is the refinement of `FrameStream`: initial states map to initial states,
every step to a step or a stutter.

**HandshakeProofs**, for every configuration of clusters, connectors, retries and
credentials. Nothing that answers the client looks at the servers, so what an
answer means is carried along: from a server to its answer (`AcceptedInv`), from
there to what the loop keeps and to the end of the secondary handshake
(`EndedInv`), and for a request to both clusters from one answer to the other
(`BothInv`). `AuthErrorStays` is an action property; it follows from the same
invariant and `RefusedInv`, that after the error a request is only refused.

**ClientHandlerProofs**, for any number of requests, stream ids and workers.
`HandlerInv` is `StateInv`, which always holds, together with `QuietInv` until a
protocol error is forwarded. `StateInv` has that a holder keeps a context of its
own stream id, that a context is completed by the one message or cancellation
that took it out of "pending" (`OwnerInv`), and that the holder is filled exactly
while somebody is to clear it (`HeldInv`). `QuietInv` adds that the messages of a
request find only its own context, and counts the wait group and the in-flight
metrics by their owners. `StreamIdsAreHeld` needs `StateInv` only and so covers
protocol errors; the other three are about the time before one, as their
properties say.

**AsyncConnectorProofs**, for any number of requests, ids and queue slots.
The invariant holds until `raced`, and `raced` stays true. What a job has set at each
point of its way (`JobInv`) determines whether it owns a unit: its sender does until
the context is stored, then whoever takes the context out of "pending". A response
has its own context or none, else the step would have been a race. A pending
request has its context (`HolderInv`), and no request is being sent once the
request loop has ended (`LoopInv`). `CountInv` says that the wait group is the number
of owners and the in-flight metric the number of those it counts. Each step
changes what one job holds and moves the counters with it; that no unit is
released twice follows because an owner has exactly one way to leave. After a race
this is false (section 7).

**PreparedStatementsProofs**, for any clients, statements and keyspaces, either
primary cluster, any failures and restarts. `Inv` follows a request from what the
client asked to what each cluster was sent and answered, and says that the caches
hold what PREPARE found (`CacheInv`), across clients. `UsesSucceed`: no cluster
fails a USE, so the two connections of a client are in one keyspace. `OneOrigin`
and `OneTarget`: a cluster that hashes the keyspace of the connection into its ids
is not the only one; two clusters of one version satisfy both.

**ControlConnProofs**, for any cluster, any number of clients and any sequence of
failures. That nothing is leaked needs `ConnInv`: Open runs only while `cqlConn` is
nil, so `setConn` overwrites no connection. For the assignment, several callers may
decrement the counter after each other; that it does not become negative needs
`Covered`: it is at least the number of assigned hosts times the number of callers
that are about to take that number back. `HostsAreBalanced` needs `InTurn`: since
the last full round, the hosts that had a turn are the last `len` up to the
counter, each of them once. `SharesStayEven` counts the hosts i, i + count, i + 2 *
count and so on by a bijection with an interval. `TokensAreDistinct` assumes that
there are no more tokens than places on the ring.

**ProxyProofs**, for any number of clients, places and workers. A connection is
counted where it is accepted and taken off on one of its two ends, so the counter
is the number of clients between them (`CountInv`). The accept loop outlives its
tasks, so once it has ended no handler is made any more; the handlers there are
stay in the global wait group until their own goroutines have ended (`OrderInv`).

Only model-checked, because they are out of the prover's reach:

- liveness and ENABLED: `OthersProgress`, `HandshakeEnds`, `AsyncIsolated`,
  `RequestsComplete`, `ShutdownCompletes`, `NeverStuck`, `Reconnects`,
  `TopologyCatchesUp`, `ShutdownEnds`, `SignalEnds`, `TasksEnd`;
- induction over data: `RewrittenAsRead`, `ValuesLineUp`, `RowsMatchColumns` and
  `PeersAreTheOthers` of `Statements`, which rests on the recursive descent of the
  grammar and on RECURSIVE operators.

## 7. Where code and expectation differ

`control_nil_conn` is kept as a run that TLC refutes. The others were found while
modelling; each is reproduced with the named constant or property.

| Where | What the code does | To reproduce |
|---|---|---|
| `clienthandler.go:172` | `NewClientHandler` dereferences `cqlConn` of the control connection, which is nil from `Close` to the next `Open`; `proxy.go:519` means to serve such clients | run `control_nil_conn` |
| `clienthandler.go:1539` | a request that finds no stream id is answered OVERLOADED and its context stays stored: the retry meets "stream id collision" and is never answered | `RetryAccepted` as an invariant of `ClientHandler.cfg` |
| `clienthandler.go:618` | a protocol error is forwarded while the request stays pending: a new request on that stream id can meet the old responses, and the wait group is left twice or never | drop `protocolErrOccurred` from `WaitGroupExact` |
| `clusterconn.go:516` | "wg.Done will be called by caller", though the canceled or timed out context has already left the wait group: it can become negative | `WaitGroupSound` without `raced` |
| `clusterconn.go:275` | the id of an asynchronous request is free before its response is processed: a worker that is slow enough completes the context of the request that has the id now | `WaitGroupSound` without `raced` |
| `clienthandler.go:457`, `:700`, `:753`, `coalescer.go:179` | a write has no deadline: a worker that answers a client that does not read blocks on the full queue before it leaves the wait group, and the client's connection is closed only after the wait group is empty (`clientconn.go:116-125`). The handler never ends and the worker is lost to the pool; likewise in a graceful shutdown with a cluster that does not read (`clusterconn.go:410`) | drop the conditions on `stalled` from `RequestsComplete` and `ShutdownCompletes` |
| `clusterconn.go:509` | an asynchronous request that is given up keeps its stream id for good | `StreamIdsReturned` as an invariant of `AsyncConnector.cfg` |
| `clusterconn.go:534` | a heartbeat has stream id -1, which the mapper refuses: it is never sent | not modelled yet |
| `clienthandler.go:984` | a now() that becomes the last marker stays visible in the PREPARED result | `GeneratedRemoved` as an invariant of `Statements.cfg` |
| `clienthandler.go:1016` | `sort.SearchStrings` is used as a membership test: named columns of the client are removed | `OwnMarkersShown` as an invariant of `Statements.cfg` |
| `queryinspector.go:622` | markers inside function calls and collections are not counted: values are shifted | `ValuesLineUp` without `HiddenMarkers` |
| `queryinspector.go:826`, `:852` | the text is sliced by bytes at indices that count runes (`:773`): with text outside of ASCII before a call of now() the new statement is cut at the wrong places | `RewrittenAsRead` without `WideBefore` |
| `parametermodifier.go:232` | values given by name for positional markers: a generated marker has a column name and no value, and EXECUTE fails | `ValuesLineUp` without the condition on `byName` |
| `pscache.go:45` | two origin ids with one target id: UNPREPARED names the wrong one | `HashKeyspace <- JustOrigin` and one request more, `UnpreparedNamesExecuted` |
| `clienthandler.go:888` | a USE that succeeds on one cluster only leaves the connections in different keyspaces | `"use"` among `Failing`, `OwnIds` |
| `controlconn.go:525` | a refresh that read an older topology may be stored after a newer one | `TopologyCatchesUp` with `[](slows = 0)` as its only condition |
| `controlconn.go:199` | loop and debouncer share `err`: a failed heartbeat can pass for a success, and a failed refresh likewise | `HeartbeatFailureSeen` as an invariant of `ControlConn.cfg` |
| `clienthandler.go:197` | a client that leaves while `run` starts its goroutines ends the handler's wait group early | `EarlyLeave = TRUE`, `ShutdownInOrder` |

Smaller observations, without a property:

- a coalescer that drains after a failure still encodes the first frame of each
  iteration into its buffer, which is neither written nor reset any more;
- a query on a system table that the proxy answers itself gets no answer at all,
  only a line in the log, when its select clause could not be read or the rows
  of a result differ in their columns (`handleInterceptedRequest`; `NoAnswer`);
- the positional indices that `replaceFunctionCalls` gives the terms after a
  marker it has put in are those of the old text; nothing uses them afterwards;
- a client whose secondary cluster refuses a request of the handshake may be left
  without an answer;
- `forwardToBoth` ignores an error of the send to the target
  (`clienthandler.go:1500`): only the timeout ends that request;
- the asynchronous connector uses the protocol version of the origin's control
  connection whichever cluster it is on (`clienthandler.go:237`);
- the readiness probe fails when the counter reaches the threshold, the reference
  says "exceeded".

## 8. Not modelled

- The generated lexer (a table), TLS, contact points and the metadata service,
  configuration parsing, metrics registration, HTTP handlers: I/O, data or
  generated code.
- The filter of events to clients, and partition key indices of PREPARED results.
- Values in the rows of system tables are abstracted to the instance they are of.
- Time uuids (`PreparedStatements` takes each call to return a new value), the CQL
  connection under the control connection, heartbeats of request connections:
  planned.
- Contents of frames, compression and SASL text. Tokens, statements and ids are
  abstract values.

## 9. Plan

Done: the modules of section 2, and the proofs of section 6. Left, in this
order:

1. An abstract specification of the handler, "each request is answered at most
   once and from its own responses", refined by ClientHandler. `AnswersAreTheirs`
   is the core of it.
2. Modules: heartbeats of request connections, the time uuid generator, the CQL
   connection with its event loop, aggregation of responses.
3. PreparedStatements with outcomes of USE that differ and with several requests
   per client; partition key indices and BATCH in NowReplacement.
4. A composition of ControlConn and HostAssignment: refreshes that remove the host
   a caller was just assigned.
