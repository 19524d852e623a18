------------------------------ MODULE Handshake ------------------------------
(***************************************************************************)
(* The handshake of a client connection (handleHandshakeRequest and        *)
(* handleSecondaryHandshakeStartup).  The client performs the handshake    *)
(* with one cluster, the primary of the handshake; when it is done the     *)
(* proxy performs the handshake with the other cluster, the secondary, and *)
(* with the asynchronous connector, and only then answers the client.      *)
(*                                                                         *)
(* A step of the request loop stands for the task that the loop schedules  *)
(* in the pool and whose result it waits for.                              *)
(***************************************************************************)
EXTENDS Naturals, FiniteSets

CONSTANTS
    None,
    ForwardClientCredentialsToOrigin,   \* the configuration setting
    AsyncCluster,       \* cluster of the asynchronous connector, or None
    MaxAuthRetries,     \* maxAuthRetries
    MaxRequests         \* bound: requests of the client

Clusters == {"origin", "target"}
Conns == Clusters \union (IF AsyncCluster = None THEN {} ELSE {"async"})

ClusterOf(conn) == IF conn = "async" THEN AsyncCluster ELSE conn

\* Credentials: the client's, and those that the proxy has for each cluster.
Creds == {"client"} \union Clusters

\* An AUTH_RESPONSE is named by its token: credentials, or a mechanism ("PLAIN").
ClientRequests == {"STARTUP", "OPTIONS", "REGISTER", "PLAIN", "client"}
Requests == ClientRequests \union Creds

\* "DSE" is an AUTHENTICATE of the DSE authenticator; "none" stands for an
\* answer that does not come before the request times out.
Replies == {"READY", "AUTHENTICATE", "DSE", "CHALLENGE", "BAD_CHALLENGE", "AUTH_SUCCESS",
            "AUTH_ERROR", "ERROR", "SUPPORTED", "none"}

ASSUME ConstantsAssumption ==
    /\ ForwardClientCredentialsToOrigin \in BOOLEAN /\ AsyncCluster \in Clusters \union {None}
    /\ MaxAuthRetries \in Nat /\ MaxRequests \in Nat
    /\ None \notin Requests \union Replies \union {"auth", "other"}

VARIABLES
    authKnown,  \* what the control connections know: does a cluster ask for credentials
    auth,       \* does it really
    srv,        \* the state of the server's end of each connection
    out,        \* the request on each connection
    reply,      \* the answer on each connection
    loop,       \* the request loop
    ch,         \* the fields of the client handler
    hs,         \* the secondary and the asynchronous handshake
    async,      \* asyncConnectorState, and whether its context is canceled
    told,       \* the answer that the client got to its last request
    shut        \* clientHandlerContext is done

vars == <<authKnown, auth, srv, out, reply, loop, ch, hs, async, told, shut>>

Idle == [pc |-> "idle", req |-> None, to |-> {}, agg |-> None]
NoHandshake == [pc |-> "off", phase |-> 1, attempts |-> 0, last |-> None, err |-> None]
NoHandshakes == [k \in {"secondary", "async"} |-> NoHandshake]

Init ==
    /\ authKnown \in [Clusters -> BOOLEAN] /\ auth \in [Clusters -> BOOLEAN]
    /\ srv = [n \in Conns |-> "new"]
    /\ out = [n \in Conns |-> None] /\ reply = [n \in Conns |-> None]
    /\ loop = Idle
    /\ ch = [requests |-> 0, ready |-> FALSE, authError |-> FALSE, startup |-> None,
             secondary |-> None, async |-> None]
    /\ hs = NoHandshakes
    /\ async = [state |-> "handshake", canceled |-> FALSE]
    /\ told = None /\ shut = FALSE

-----------------------------------------------------------------------------
\* forwardAuthToTarget.  Its fallback, for a control connection that does not know,
\* is never taken: IsAuthEnabled has a value from the time a ControlConn is made.
ForwardAuthToTarget == ~authKnown["origin"] /\ authKnown["target"]

\* targetCredsOnClientRequest.
TargetCredsOnClientRequest ==
    IF authKnown["origin"] = authKnown["target"] THEN ~ForwardClientCredentialsToOrigin
    ELSE authKnown["target"]

Primary == IF ForwardAuthToTarget THEN "target" ELSE "origin"
Secondary == IF ForwardAuthToTarget THEN "origin" ELSE "target"

\* Mutant: the asynchronous connector gets the credentials of the client.
AsyncCredsOfClient == "client"

\* handleClientCredentials: the credentials of the asynchronous handshake.
AsyncCreds ==
    CASE AsyncCluster = "origin" /\ TargetCredsOnClientRequest -> "origin"
      [] AsyncCluster = "target" /\ ~TargetCredsOnClientRequest -> "target"
      [] OTHER -> "client"

\* handleClientCredentials: the credentials of the secondary handshake.
SecondaryCreds ==
    IF (Secondary = "target") = TargetCredsOnClientRequest THEN "client" ELSE Secondary

\* handleClientCredentials: the credentials that are forwarded to the primary.
PrimaryCreds ==
    IF (Primary = "target") = TargetCredsOnClientRequest THEN "client" ELSE Primary

\* buildRequestInfo for the requests of a handshake.
Destinations(q) == IF q \in {"PLAIN", "client"} THEN {Primary} ELSE Clusters

-----------------------------------------------------------------------------
\* The server's end of a connection: its next state and its answer.
Answers(s, q, asks) ==
    {<<s, "ERROR">>} \union
    CASE q = "STARTUP" /\ s = "new" ->
            IF asks THEN {<<"auth", "AUTHENTICATE">>, <<"auth", "DSE">>} ELSE {<<"ready", "READY">>}
      [] q = "OPTIONS" -> {<<s, "SUPPORTED">>}
      [] q = "REGISTER" /\ s = "ready" -> {<<s, "READY">>}
      [] q = "PLAIN" /\ s = "auth" -> {<<s, "CHALLENGE">>, <<s, "BAD_CHALLENGE">>}
      [] q \in Creds /\ s = "auth" ->
            {<<"ready", "AUTH_SUCCESS">>, <<s, "AUTH_ERROR">>, <<s, "CHALLENGE">>}
      [] OTHER -> {}

\* A server handles a request; its answer may not come in time.  A late one finds
\* no request: the client was not answered, so it does not use that stream id
\* again, and the other handshakes end with their first timeout.
Serve(n) ==
    /\ out[n] # None
    /\ \E a \in Answers(srv[n], out[n], auth[ClusterOf(n)]) :
          /\ srv' = [srv EXCEPT ![n] = a[1]]
          /\ \E r \in {a[2], "none"} : reply' = [reply EXCEPT ![n] = r]
    /\ out' = [out EXCEPT ![n] = None]
    /\ UNCHANGED <<authKnown, auth, loop, ch, hs, async, told, shut>>

\* The client handler is canceled: the client or a cluster disconnects.
Cancel ==
    /\ ~shut
    /\ shut' = TRUE
    /\ UNCHANGED <<authKnown, auth, srv, out, reply, loop, ch, hs, async, told>>

\* The connection of the asynchronous connector breaks.
AsyncBreaks ==
    /\ "async" \in Conns /\ ~async.canceled
    /\ async' = [async EXCEPT !.canceled = TRUE]
    /\ UNCHANGED <<authKnown, auth, srv, out, reply, loop, ch, hs, told, shut>>

\* The response loop of the asynchronous connector ends.
AsyncLoopEnds ==
    /\ "async" \in Conns /\ (async.canceled \/ shut) /\ async.state # "shutdown"
    /\ async' = [async EXCEPT !.state = "shutdown"]
    /\ UNCHANGED <<authKnown, auth, srv, out, reply, loop, ch, hs, told, shut>>

-----------------------------------------------------------------------------
(* The request loop. *)

\* The next request of the client, until the handshake is done.  The context that
\* refuses requests is canceled some time after that of the client handler.
TakeRequest(q) ==
    /\ loop.pc = "idle" /\ ~ch.ready /\ ch.requests < MaxRequests
    /\ ch' = [ch EXCEPT !.requests = @ + 1]
    /\ \/ shut /\ told' = "OVERLOADED" /\ UNCHANGED loop
       \/ loop' = [loop EXCEPT !.pc = "forward", !.req = q] /\ told' = None
    /\ UNCHANGED <<authKnown, auth, srv, out, reply, hs, async, shut>>

\* handleClientCredentials and forwardRequest.
ForwardRequest ==
    LET q == IF loop.req = "client" THEN PrimaryCreds ELSE loop.req
        to == Destinations(loop.req)
    IN  /\ out' = [n \in Conns |-> IF n \in to THEN q ELSE out[n]]
        /\ reply' = [n \in Conns |-> IF n \in to THEN None ELSE reply[n]]
        /\ loop' = [loop EXCEPT !.pc = "response", !.to = to]
        /\ ch' = IF loop.req = "client"
                 THEN [ch EXCEPT !.secondary = SecondaryCreds, !.async = AsyncCreds] ELSE ch

\* Mutant: the authentication error of the secondary is not remembered.
ForwardAnyway ==
    /\ loop.pc = "forward" /\ ForwardRequest
    /\ UNCHANGED <<authKnown, auth, srv, hs, async, told, shut>>

\* The first task: the request is forwarded, with other credentials if the
\* client's are not meant for the primary, or it is refused.
Forward ==
    /\ loop.pc = "forward"
    /\ IF ch.authError
       THEN loop' = Idle /\ told' = "AUTH_ERROR" /\ UNCHANGED <<out, reply, ch>>
       ELSE ForwardRequest /\ UNCHANGED told
    /\ UNCHANGED <<authKnown, auth, srv, hs, async, shut>>

\* aggregateAndTrackResponses; a STARTUP is answered with the response of the primary.
Aggregated ==
    CASE loop.req = "STARTUP" \/ loop.to = {Primary} -> reply[Primary]
      [] \E n \in loop.to : reply[n] = "ERROR" -> "ERROR"
      [] OTHER -> reply["origin"]

\* validateSecondaryStartupResponse.
ValidStartupResponse(r) ==
    r \in {"AUTHENTICATE", "DSE", "CHALLENGE", "BAD_CHALLENGE", "READY", "AUTH_SUCCESS"}

\* The loop waits for the response; without one, or when the secondary refuses
\* the STARTUP, the client is not answered.  An answer that comes after the loop
\* gave up is read by nobody.
AwaitResponse ==
    /\ loop.pc = "response"
    /\ out' = [n \in Conns |-> IF n \in loop.to THEN None ELSE out[n]]
    /\ reply' = [n \in Conns |-> IF n \in loop.to THEN None ELSE reply[n]]
    /\ \/ shut /\ loop' = Idle /\ UNCHANGED <<ch, told>>
       \/ /\ \A n \in loop.to : reply[n] # None
          /\ IF \E n \in loop.to : reply[n] = "none"
             THEN loop' = Idle /\ UNCHANGED <<ch, told>>
             ELSE /\ ch' = IF loop.req = "STARTUP" THEN [ch EXCEPT !.startup = reply[Secondary]] ELSE ch
                  /\ IF loop.req = "STARTUP" /\ ~ValidStartupResponse(reply[Secondary])
                     THEN loop' = Idle /\ UNCHANGED told
                     ELSE IF Aggregated \in {"READY", "AUTH_SUCCESS"}
                          THEN loop' = [loop EXCEPT !.pc = "start", !.agg = Aggregated] /\ UNCHANGED told
                          ELSE loop' = Idle /\ told' = Aggregated
    /\ UNCHANGED <<authKnown, auth, srv, hs, async, shut>>

\* The second task, and startSecondaryHandshake.
StartHandshakes ==
    /\ loop.pc = "start"
    /\ IF ch.startup = None
       THEN loop' = Idle /\ UNCHANGED hs
       ELSE /\ hs' = [k \in {"secondary", "async"} |->
                         IF k = "secondary" \/ "async" \in Conns
                         THEN [NoHandshake EXCEPT !.pc = "run"] ELSE NoHandshake]
            /\ loop' = [loop EXCEPT !.pc = "handshakes"]
    /\ UNCHANGED <<authKnown, auth, srv, out, reply, ch, async, told, shut>>

HandshakesEnded == loop.pc = "handshakes" /\ \A k \in DOMAIN hs : hs[k].pc \in {"off", "done"}

\* Mutant: the client is answered whatever became of the secondary handshake.
AnswerAnyway ==
    ch' = [ch EXCEPT !.ready = TRUE] /\ told' = loop.agg /\ UNCHANGED shut

\* What the result of the secondary handshake means for the client.
AnswerClient ==
    \/ /\ hs["secondary"].err = "auth"
       /\ ch' = [ch EXCEPT !.authError = TRUE] /\ told' = "AUTH_ERROR"
       /\ UNCHANGED shut
    \/ /\ hs["secondary"].err = "other"
       /\ shut' = TRUE /\ UNCHANGED <<ch, told>>
    \/ /\ hs["secondary"].err = None
       /\ ch' = [ch EXCEPT !.ready = TRUE] /\ told' = loop.agg
       /\ UNCHANGED shut

\* Mutant: the asynchronous connector is not shut down when its handshake fails.
FinishKeepsAsync ==
    /\ HandshakesEnded /\ AnswerClient /\ loop' = Idle /\ hs' = NoHandshakes
    /\ UNCHANGED <<authKnown, auth, srv, out, reply, async>>

\* The third task, when both handshakes have ended.
Finish ==
    /\ HandshakesEnded
    /\ async' = IF hs["async"].err # None THEN [async EXCEPT !.canceled = TRUE] ELSE async
    /\ AnswerClient
    /\ loop' = Idle
    /\ hs' = NoHandshakes
    /\ UNCHANGED <<authKnown, auth, srv, out, reply>>

-----------------------------------------------------------------------------
(* handleSecondaryHandshakeStartup, for the secondary and for the asynchronous
   connector. *)

ConnOf(k) == IF k = "async" THEN "async" ELSE Secondary

CredsOf(k) == IF k = "async" THEN ch.async ELSE ch.secondary

\* There is no authenticator, or it does not know the challenge.
AuthenticatorFails(k) == CredsOf(k) = None \/ hs[k].last = "BAD_CHALLENGE"

\* performHandshakeStep: the token that answers the last response.
Token(k) == IF hs[k].last = "DSE" THEN "PLAIN" ELSE CredsOf(k)

Failed(r, e) == [r EXCEPT !.pc = "done", !.err = e]

Done(r) == r \in {"READY", "AUTH_SUCCESS"}

\* SetReady succeeds unless the connector was shut down.
SetReady == async.state = "handshake"

\* handleSecondaryHandshakeResponse.
HandleResponse(k, h, r) ==
    /\ hs' = [hs EXCEPT ![k] =
                CASE Done(r) -> IF k = "async" /\ ~SetReady THEN Failed(h, "other")
                                ELSE [h EXCEPT !.pc = "done"]
                  [] r \in {"AUTHENTICATE", "DSE"} -> [h EXCEPT !.pc = "run", !.phase = 2, !.last = r]
                  [] r \in {"CHALLENGE", "BAD_CHALLENGE"} -> [h EXCEPT !.pc = "run", !.last = r]
                  [] r = "AUTH_ERROR" -> Failed(h, "auth")
                  [] OTHER -> Failed(h, "other")]
    /\ async' = IF k = "async" /\ Done(r) /\ SetReady THEN [async EXCEPT !.state = "ready"] ELSE async

\* executeRequest; validateAsyncStateForRequest discards the request of an
\* asynchronous connector that is shut down.
SendRequest(k, h, q) ==
    IF k = "async" /\ async.state = "shutdown"
    THEN hs' = [hs EXCEPT ![k] = Failed(h, "other")] /\ UNCHANGED <<out, reply>>
    ELSE /\ hs' = [hs EXCEPT ![k] = [h EXCEPT !.pc = "sent"]]
         /\ out' = [out EXCEPT ![ConnOf(k)] = q] /\ reply' = [reply EXCEPT ![ConnOf(k)] = None]

RetriesExhausted(h) == h.attempts > MaxAuthRetries

\* Mutant: attempts are not counted.
SameAttempt(h) == h

NextAttempt(h) == [h EXCEPT !.attempts = @ + 1]

\* One iteration of the loop up to the request that it sends.  The secondary has
\* already answered the STARTUP of the client.
Attempt(k) ==
    /\ hs[k].pc = "run"
    /\ LET h == NextAttempt(hs[k])
       IN  IF RetriesExhausted(hs[k]) \/ (h.phase = 2 /\ AuthenticatorFails(k))
           THEN hs' = [hs EXCEPT ![k] = Failed(@, "other")] /\ UNCHANGED <<out, reply, async>>
           ELSE IF h.phase = 1 /\ k = "secondary"
           THEN HandleResponse(k, h, ch.startup) /\ UNCHANGED <<out, reply>>
           ELSE SendRequest(k, h, IF h.phase = 1 THEN "STARTUP" ELSE Token(k)) /\ UNCHANGED async
    /\ UNCHANGED <<authKnown, auth, srv, loop, ch, told, shut>>

\* The response comes, or the client handler is canceled.
Receive(k) ==
    /\ hs[k].pc = "sent"
    /\ out' = [out EXCEPT ![ConnOf(k)] = None]
    /\ reply' = [reply EXCEPT ![ConnOf(k)] = None]
    /\ \/ /\ reply[ConnOf(k)] # None
          /\ HandleResponse(k, hs[k], reply[ConnOf(k)])
       \/ /\ shut
          /\ hs' = [hs EXCEPT ![k] = Failed(@, "other")]
          /\ UNCHANGED async
    /\ UNCHANGED <<authKnown, auth, srv, loop, ch, told, shut>>

Terminated ==
    /\ loop.pc = "idle" /\ (ch.ready \/ ch.requests = MaxRequests)
    /\ UNCHANGED vars

LoopStep == Forward \/ AwaitResponse \/ StartHandshakes \/ Finish

HandshakeStep(k) == Attempt(k) \/ Receive(k)

ProxyStep ==
    LoopStep \/ AsyncLoopEnds \/ \E k \in {"secondary", "async"} : HandshakeStep(k)

Next ==
    \/ \E q \in ClientRequests : TakeRequest(q)
    \/ ProxyStep
    \/ \E n \in Conns : Serve(n)
    \/ Cancel \/ AsyncBreaks
    \/ Terminated

Spec == Init /\ [][Next]_vars

\* The goroutines of the proxy run; a request is answered or times out.  No
\* behaviour repeats a state, so that none of them can starve another.
FairSpec == Spec /\ WF_vars(ProxyStep \/ \E n \in Conns : Serve(n))

-----------------------------------------------------------------------------
\* The range of every variable of the handshake.
TypeOK ==
    /\ authKnown \in [Clusters -> BOOLEAN] /\ auth \in [Clusters -> BOOLEAN]
    /\ srv \in [Conns -> {"new", "auth", "ready"}]
    /\ out \in [Conns -> Requests \union {None}] /\ reply \in [Conns -> Replies \union {None}]
    /\ loop \in [pc : {"idle", "forward", "response", "start", "handshakes"},
                 req : ClientRequests \union {None}, to : SUBSET Clusters,
                 agg : Replies \union {None}]
    /\ ch \in [requests : 0..MaxRequests, ready : BOOLEAN, authError : BOOLEAN,
               startup : Replies \union {None}, secondary : Creds \union {None},
               async : Creds \union {None}]
    /\ hs \in [{"secondary", "async"} ->
                  [pc : {"off", "run", "sent", "done"}, phase : {1, 2},
                   attempts : 0..MaxAuthRetries + 1, last : Replies \union {None},
                   err : {None, "auth", "other"}]]
    /\ async \in [state : {"handshake", "ready", "shutdown"}, canceled : BOOLEAN]
    /\ told \in Replies \union {"OVERLOADED", None} /\ shut \in BOOLEAN

\* The client is told that its connection is usable only when the servers of both
\* clusters have accepted the connections of the proxy, whatever the client sends
\* and the servers answer, and the asynchronous connector forwards requests only
\* on a connection that its server has accepted.
ReadyMeansBoth ==
    /\ TypeOK
    /\ (told \in {"READY", "AUTH_SUCCESS"} \/ ch.ready) =>
          /\ ch.ready /\ srv["origin"] = "ready" /\ srv["target"] = "ready"
    /\ "async" \in Conns /\ async.state = "ready" => srv["async"] = "ready"

\* The cluster that the credentials of the client are meant for: the only cluster
\* that asks for them, or else the one that the configuration names.
MeantFor ==
    CASE authKnown["origin"] /\ ~authKnown["target"] -> "origin"
      [] authKnown["target"] /\ ~authKnown["origin"] -> "target"
      [] OTHER -> IF ForwardClientCredentialsToOrigin THEN "origin" ELSE "target"

\* No server gets credentials of the other cluster: the client's reach only the
\* cluster they are meant for and the configured ones only their own cluster, also
\* when a cluster asks for credentials that the control connection saw not asking.
CredentialsMeant ==
    \A n \in Conns :
        out[n] \in Creds => ClusterOf(n) = (IF out[n] = "client" THEN MeantFor ELSE out[n])

\* When the secondary has refused the credentials, nothing is forwarded on this
\* connection any more and it never becomes ready.
AuthErrorSticks ==
    [][ch.authError => ch'.authError /\ ~ch'.ready /\ \A n \in Clusters : out'[n] \in {out[n], None}]_vars

\* Every request of the client comes to an end, also when a server goes on
\* asking, answers with errors or does not answer.
HandshakeEnds == loop.pc # "idle" ~> loop.pc = "idle"

\* The client does not depend on the asynchronous connector: when the secondary
\* handshake succeeds the client becomes ready, and a failed asynchronous
\* connector is shut down.
AsyncIsolated ==
    /\ (loop.pc = "handshakes" /\ hs["secondary"].pc = "done" /\ hs["secondary"].err = None) ~> ch.ready
    /\ hs["async"].err # None ~> async.state = "shutdown"
=============================================================================
