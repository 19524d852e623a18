--------------------------- MODULE HandshakeProofs ---------------------------
(***************************************************************************)
(* The handshake for every configuration: which cluster is the primary,    *)
(* where the asynchronous connector goes, how often authentication is      *)
(* retried and how many requests the client sends are those of any         *)
(* configuration and any client.                                           *)
(*                                                                         *)
(* Nothing that answers the client looks at the servers, so that what an   *)
(* answer means has to be carried along: from a server to its answer       *)
(* (AcceptedInv), from the answer to the STARTUP that the loop keeps and    *)
(* to the end of the secondary handshake (EndedInv), and for a request to   *)
(* both clusters from the answer of one to that of the other (BothInv).    *)
(***************************************************************************)
EXTENDS Handshake, TLAPS

\* The loop has a request of a client that is not ready and waits for the
\* clusters it was sent to; the handshakes run only while it waits for them.
LoopInv ==
    /\ loop.pc # "idle" => loop.req \in ClientRequests /\ ~ch.ready
    /\ loop.pc = "response" => loop.to = Destinations(loop.req)
    /\ loop.pc # "handshakes" => hs = NoHandshakes
    /\ loop.pc = "handshakes" => hs["secondary"].pc # "off"
    /\ hs["async"].pc # "off" => "async" \in Conns

\* After an authentication error of the secondary a request is only refused.
RefusedInv == ch.authError => ~ch.ready /\ loop.pc \in {"idle", "forward"}

\* A server that answered READY or AUTH_SUCCESS has accepted the connection.
AcceptedInv == \A n \in Conns : reply[n] \in {"READY", "AUTH_SUCCESS"} => srv[n] = "ready"

\* The answers to a request that both clusters get are of one kind.
BothInv ==
    loop.pc = "response" /\ loop.req \in {"REGISTER", "OPTIONS"} =>
        \A n \in Clusters :
            /\ out[n] \in {None, loop.req}
            /\ reply[n] \in {None, "none", "ERROR", IF loop.req = "OPTIONS" THEN "SUPPORTED" ELSE "READY"}

\* What the loop and the handshakes remember of the servers.
EndedInv ==
    /\ ch.startup \in {"READY", "AUTH_SUCCESS"} => srv[Secondary] = "ready"
    /\ loop.pc \in {"start", "handshakes"} => srv[Primary] = "ready"
    /\ hs["secondary"].pc = "done" /\ hs["secondary"].err = None => srv[Secondary] = "ready"

\* The credentials that are kept for the other connections.
CredsInv == ch.secondary \in {None, SecondaryCreds} /\ ch.async \in {None, AsyncCreds}

HandshakeInv ==
    /\ TypeOK /\ LoopInv /\ RefusedInv /\ AcceptedInv /\ BothInv /\ EndedInv /\ CredsInv
    /\ ReadyMeansBoth /\ CredentialsMeant

-----------------------------------------------------------------------------
(* The steps, one case for each way through an action. *)

Handshakes == {"secondary", "async"}

Status == [pc : {"off", "run", "sent", "done"}, phase : {1, 2},
           attempts : 0..MaxAuthRetries + 1, last : Replies \union {None},
           err : {None, "auth", "other"}]

\* The loop gives up its request.
GiveUp == loop.pc = "response" /\ loop' = Idle /\ UNCHANGED <<ch, told>>

\* The loop has an answer of every cluster that it sent the request to.
Heard ==
    /\ loop.pc = "response"
    /\ \A n \in loop.to : reply[n] \notin {None, "none"}
    /\ ch' = IF loop.req = "STARTUP" THEN [ch EXCEPT !.startup = reply[Secondary]] ELSE ch

\* What it does with the answer.
Pass ==
    /\ Aggregated \in {"READY", "AUTH_SUCCESS"}
    /\ loop' = [loop EXCEPT !.pc = "start", !.agg = Aggregated] /\ UNCHANGED told
Tell == Aggregated \notin {"READY", "AUTH_SUCCESS"} /\ loop' = Idle /\ told' = Aggregated
Drop == loop' = Idle /\ UNCHANGED told

Reset ==
    /\ out' = [n \in Conns |-> IF n \in loop.to THEN None ELSE out[n]]
    /\ reply' = [n \in Conns |-> IF n \in loop.to THEN None ELSE reply[n]]

\* The loop waits for an answer (AwaitResponse): it gives up, or hears the answer.
LEMMA AwaitCases ==
  ASSUME AwaitResponse PROVE Reset /\ (GiveUp \/ (Heard /\ (Pass \/ Tell \/ Drop)))
<1>1. CASE shut /\ loop' = Idle /\ UNCHANGED <<ch, told>>
  BY <1>1 DEF AwaitResponse, Reset, GiveUp
<1>2. CASE /\ \A n \in loop.to : reply[n] # None
           /\ \E n \in loop.to : reply[n] = "none"
           /\ loop' = Idle /\ UNCHANGED <<ch, told>>
  BY <1>2 DEF AwaitResponse, Reset, GiveUp
<1>3. CASE /\ \A n \in loop.to : reply[n] # None
           /\ ~\E n \in loop.to : reply[n] = "none"
           /\ ch' = IF loop.req = "STARTUP" THEN [ch EXCEPT !.startup = reply[Secondary]] ELSE ch
           /\ Pass \/ Tell \/ Drop
  BY <1>3 DEF AwaitResponse, Reset, Heard
<1>. QED  BY <1>1, <1>2, <1>3 DEF AwaitResponse, Pass, Tell, Drop

\* A server answers (Serve): its connection stays accepted, and the answer says so.
Served(n, s, r) ==
    /\ srv' = [srv EXCEPT ![n] = s] /\ s \in {"new", "auth", "ready"}
    /\ reply' = [reply EXCEPT ![n] = r] /\ r \in Replies
    /\ srv[n] = "ready" \/ r \in {"READY", "AUTH_SUCCESS"} => s = "ready"
    /\ out[n] = "REGISTER" => r \in {"ERROR", "READY", "none"}
    /\ out[n] = "OPTIONS" => r \in {"ERROR", "SUPPORTED", "none"}

LEMMA AnswerFacts ==
  ASSUME NEW s \in {"new", "auth", "ready"}, NEW q \in Requests, NEW asks \in BOOLEAN,
         NEW a \in Answers(s, q, asks)
  PROVE  /\ a = <<a[1], a[2]>> /\ a[1] \in {"new", "auth", "ready"} /\ a[2] \in Replies \ {"none"}
         /\ s = "ready" \/ a[2] \in {"READY", "AUTH_SUCCESS"} => a[1] = "ready"
         /\ q = "REGISTER" => a[2] \in {"ERROR", "READY"}
         /\ q = "OPTIONS" => a[2] \in {"ERROR", "SUPPORTED"}
  BY DEF Answers, Replies, Requests, ClientRequests, Creds, Clusters

LEMMA ServeFacts ==
  ASSUME TypeOK, NEW n \in Conns, Serve(n)
  PROVE  /\ \E s, r : Served(n, s, r)
         /\ out' = [out EXCEPT ![n] = None]
         /\ UNCHANGED <<authKnown, auth, loop, ch, hs, async, told, shut>>
<1>1. srv[n] \in {"new", "auth", "ready"} /\ out[n] \in Requests
  BY DEF TypeOK, Serve
<1>2. ClusterOf(n) \in Clusters
  BY ConstantsAssumption DEF Conns, ClusterOf, Clusters
<1>3. auth[ClusterOf(n)] \in BOOLEAN
  BY <1>2 DEF TypeOK
<1>4. PICK a \in Answers(srv[n], out[n], auth[ClusterOf(n)]) :
        /\ srv' = [srv EXCEPT ![n] = a[1]]
        /\ \E r \in {a[2], "none"} : reply' = [reply EXCEPT ![n] = r]
  BY Zenon DEF Serve
<1>5. PICK r \in {a[2], "none"} : reply' = [reply EXCEPT ![n] = r]
  BY Zenon, <1>4
<1>6. /\ a[1] \in {"new", "auth", "ready"} /\ a[2] \in Replies
      /\ srv[n] = "ready" \/ a[2] \in {"READY", "AUTH_SUCCESS"} => a[1] = "ready"
      /\ out[n] = "REGISTER" => a[2] \in {"ERROR", "READY"}
      /\ out[n] = "OPTIONS" => a[2] \in {"ERROR", "SUPPORTED"}
  BY <1>1, <1>3, AnswerFacts
<1>7. Served(n, a[1], r)
  BY Zenon, <1>4, <1>5, <1>6 DEF Served, Replies
<1>. QED  BY <1>7 DEF Serve

\* A step of a handshake replaces its status by st.
Moved(k, st) ==
    /\ hs' = [hs EXCEPT ![k] = st] /\ st \in Status /\ st.pc # "off"
    /\ k = "secondary" /\ st.pc = "done" /\ st.err = None => srv[Secondary] = "ready"

\* What a step of a handshake does to the connection and to the connector.
Wrote(k) ==
    \/ UNCHANGED <<out, reply>>
    \/ \E q \in Requests \union {None} :
          /\ q \in Creds => q = CredsOf(k)
          /\ out' = [out EXCEPT ![ConnOf(k)] = q]
          /\ reply' = [reply EXCEPT ![ConnOf(k)] = None]

AsyncMoved(k) ==
    \/ UNCHANGED async
    \/ k = "async" /\ srv["async"] = "ready" /\ async' = [async EXCEPT !.state = "ready"]

LEMMA ResponseFacts ==
  ASSUME TypeOK, NEW k \in Handshakes, NEW h \in Status, NEW r \in Replies \union {None},
         Done(r) => srv[ConnOf(k)] = "ready", HandleResponse(k, h, r)
  PROVE  (\E st : Moved(k, st)) /\ AsyncMoved(k)
<1>. DEFINE st == CASE Done(r) -> IF k = "async" /\ ~SetReady THEN Failed(h, "other")
                                  ELSE [h EXCEPT !.pc = "done"]
                    [] r \in {"AUTHENTICATE", "DSE"} -> [h EXCEPT !.pc = "run", !.phase = 2, !.last = r]
                    [] r \in {"CHALLENGE", "BAD_CHALLENGE"} -> [h EXCEPT !.pc = "run", !.last = r]
                    [] r = "AUTH_ERROR" -> Failed(h, "auth")
                    [] OTHER -> Failed(h, "other")
<1>1. hs' = [hs EXCEPT ![k] = st]
  BY DEF HandleResponse
<1>2. st \in Status /\ st.pc # "off"
  BY ZenonT(60) DEF Status, Failed, Done, Replies
<1>3. st.pc = "done" /\ st.err = None => Done(r)
  BY ConstantsAssumption DEF Status, Failed, Done
<1>4. Moved(k, st)
  BY <1>1, <1>2, <1>3 DEF Moved, ConnOf
<1>5. AsyncMoved(k)
  BY DEF HandleResponse, AsyncMoved, ConnOf
<1>. QED  BY <1>4, <1>5

\* A step of a handshake (Attempt, Receive) is made while the loop waits for it.
LEMMA HandshakeFacts ==
  ASSUME TypeOK, LoopInv, AcceptedInv, EndedInv, NEW k \in Handshakes, HandshakeStep(k)
  PROVE  /\ loop.pc = "handshakes" /\ ConnOf(k) \in Conns
         /\ (\E st : Moved(k, st)) /\ AsyncMoved(k) /\ Wrote(k)
         /\ UNCHANGED <<authKnown, auth, srv, loop, ch, told, shut>>
<1>1. /\ hs[k] \in Status /\ hs[k].pc \in {"run", "sent"} /\ hs \in [Handshakes -> Status]
      /\ UNCHANGED <<authKnown, auth, srv, loop, ch, told, shut>>
  BY DEF HandshakeStep, Attempt, Receive, TypeOK, Handshakes, Status
<1>2. loop.pc = "handshakes"
  BY <1>1 DEF LoopInv, NoHandshakes, NoHandshake, Handshakes
<1>3. ConnOf(k) \in Conns
  BY <1>1 DEF LoopInv, ConnOf, Secondary, Conns, Clusters, Handshakes
<1>4. reply[ConnOf(k)] \in Replies \union {None} /\ ch.startup \in Replies \union {None}
  BY <1>3 DEF TypeOK
<1>5. Failed(hs[k], "other") \in Status /\ Failed(hs[k], "other").pc = "done"
      /\ Failed(hs[k], "other").err = "other"
  BY Zenon, <1>1 DEF Failed, Status
<1>6. hs' = [hs EXCEPT ![k] = Failed(@, "other")] => \E st : Moved(k, st)
  BY Zenon, <1>1, <1>5, ConstantsAssumption DEF Moved
<1>7. CASE Receive(k)
  <2>1. out' = [out EXCEPT ![ConnOf(k)] = None] /\ reply' = [reply EXCEPT ![ConnOf(k)] = None]
    BY <1>7 DEF Receive
  <2>2. Wrote(k)
    BY Zenon, <2>1, ConstantsAssumption DEF Wrote, Requests
  <2>3. CASE hs' = [hs EXCEPT ![k] = Failed(@, "other")] /\ UNCHANGED async
    BY <1>1, <1>2, <1>3, <1>6, <2>2, <2>3 DEF AsyncMoved
  <2>4. CASE HandleResponse(k, hs[k], reply[ConnOf(k)])
    <3>1. Done(reply[ConnOf(k)]) => srv[ConnOf(k)] = "ready"
      BY <1>3 DEF Done, AcceptedInv
    <3>. QED  BY <1>1, <1>2, <1>3, <1>4, <2>2, <2>4, <3>1, ResponseFacts
  <2>. QED  BY <1>7, <2>3, <2>4 DEF Receive
<1>8. CASE Attempt(k)
  <2>. DEFINE h == NextAttempt(hs[k])
  <2>1. CASE hs' = [hs EXCEPT ![k] = Failed(@, "other")] /\ UNCHANGED <<out, reply, async>>
    BY <1>1, <1>2, <1>3, <1>6, <2>1 DEF AsyncMoved, Wrote
  <2>2. ASSUME ~RetriesExhausted(hs[k])
        PROVE  h \in Status
    BY <1>1, <2>2, ConstantsAssumption DEF NextAttempt, RetriesExhausted, Status
  <2>3. CASE /\ ~RetriesExhausted(hs[k]) /\ k = "secondary"
             /\ HandleResponse(k, h, ch.startup) /\ UNCHANGED <<out, reply>>
    <3>1. Done(ch.startup) => srv[ConnOf(k)] = "ready"
      BY <2>3 DEF Done, EndedInv, ConnOf
    <3>. QED  BY <1>1, <1>2, <1>3, <1>4, <2>2, <2>3, <3>1, ResponseFacts DEF Wrote
  <2>4. CASE /\ ~RetriesExhausted(hs[k]) /\ ~(h.phase = 2 /\ AuthenticatorFails(k))
             /\ SendRequest(k, h, IF h.phase = 1 THEN "STARTUP" ELSE Token(k)) /\ UNCHANGED async
    <3>. DEFINE q == IF h.phase = 1 THEN "STARTUP" ELSE Token(k)
    <3>1. q \in Requests /\ (q \in Creds => q = CredsOf(k))
      <4>1. CredsOf(k) \in Creds \union {None}
        BY DEF TypeOK, CredsOf
      <4>2. h.phase \in {1, 2}
        BY <2>2, <2>4 DEF Status
      <4>. QED  BY <2>4, <4>1, <4>2 DEF Token, AuthenticatorFails, Requests, ClientRequests, Creds, Clusters
    <3>2. Failed(h, "other") \in Status /\ Failed(h, "other").pc = "done" /\ Failed(h, "other").err = "other"
          /\ [h EXCEPT !.pc = "sent"] \in Status /\ [h EXCEPT !.pc = "sent"].pc = "sent"
      BY Zenon, <2>2, <2>4 DEF Failed, Status
    <3>3. (\E st : Moved(k, st)) /\ Wrote(k)
      BY Zenon, <2>4, <3>1, <3>2, ConstantsAssumption DEF SendRequest, Moved, Wrote
    <3>. QED  BY <1>1, <1>2, <1>3, <2>4, <3>3 DEF AsyncMoved
  <2>. QED  BY <1>1, <1>8, <2>1, <2>3, <2>4 DEF Attempt, Handshakes
<1>. QED  BY <1>7, <1>8 DEF HandshakeStep

-----------------------------------------------------------------------------
(* The invariant is kept, conjunct by conjunct. *)

Known == TypeOK /\ LoopInv /\ RefusedInv /\ AcceptedInv /\ BothInv /\ EndedInv /\ CredsInv

\* Which cluster is the primary does not change during a handshake.
LEMMA SameClusters ==
  ASSUME Next \/ UNCHANGED vars
  PROVE  /\ authKnown' = authKnown /\ Primary' = Primary /\ Secondary' = Secondary
         /\ SecondaryCreds' = SecondaryCreds /\ AsyncCreds' = AsyncCreds /\ MeantFor' = MeantFor
         /\ \A q : Destinations(q)' = Destinations(q)
<1>1. authKnown' = authKnown
  BY Zenon DEF Next, vars, TakeRequest, ProxyStep, LoopStep, Forward, AwaitResponse, StartHandshakes,
         Finish, AsyncLoopEnds, HandshakeStep, Attempt, Receive, Serve, Cancel, AsyncBreaks, Terminated
<1>. QED  BY <1>1 DEF Primary, Secondary, SecondaryCreds, AsyncCreds, MeantFor, Destinations,
                      ForwardAuthToTarget, TargetCredsOnClientRequest

\* The clusters of a handshake, and the credentials that go to each.
LEMMA Meant ==
  ASSUME TypeOK
  PROVE  /\ Primary \in Clusters /\ Secondary \in Clusters /\ Primary # Secondary
         /\ Clusters \subseteq Conns /\ Clusters = {Primary, Secondary}
         /\ PrimaryCreds = IF Primary = MeantFor THEN "client" ELSE Primary
         /\ SecondaryCreds = IF Secondary = MeantFor THEN "client" ELSE Secondary
         /\ AsyncCluster \in Clusters => AsyncCreds = IF AsyncCluster = MeantFor THEN "client" ELSE AsyncCluster
         /\ {PrimaryCreds, SecondaryCreds, AsyncCreds} \subseteq Creds
<1>1. authKnown["origin"] \in BOOLEAN /\ authKnown["target"] \in BOOLEAN
  BY DEF TypeOK, Clusters
<1>2. /\ Primary \in Clusters /\ Secondary \in Clusters /\ Primary # Secondary
      /\ Clusters \subseteq Conns /\ Clusters = {Primary, Secondary}
  BY DEF Primary, Secondary, Clusters, Conns
<1>3. /\ MeantFor = IF TargetCredsOnClientRequest THEN "target" ELSE "origin"
      /\ TargetCredsOnClientRequest \in BOOLEAN
  BY Zenon, <1>1, ConstantsAssumption DEF MeantFor, TargetCredsOnClientRequest
<1>. QED  BY <1>2, <1>3 DEF PrimaryCreds, SecondaryCreds, AsyncCreds, Creds, Clusters

LoopType == [pc : {"idle", "forward", "response", "start", "handshakes"},
             req : ClientRequests \union {None}, to : SUBSET Clusters,
             agg : Replies \union {None}]

HandlerType == [requests : 0..MaxRequests, ready : BOOLEAN, authError : BOOLEAN,
                startup : Replies \union {None}, secondary : Creds \union {None},
                async : Creds \union {None}]

\* The variables keep their types.
LEMMA TypesStep ==
  ASSUME Known, Next \/ UNCHANGED vars PROVE TypeOK'
<1>. USE DEF Known
<1>0. loop \in LoopType /\ ch \in HandlerType /\ Idle \in LoopType
  BY DEF TypeOK, LoopType, HandlerType, Idle
<1>1. ASSUME NEW q \in ClientRequests, TakeRequest(q) PROVE TypeOK'
  <2>1. ch' \in HandlerType
    BY <1>0, <1>1, ConstantsAssumption DEF TakeRequest, HandlerType
  <2>2. loop' \in LoopType /\ told' \in {told, "OVERLOADED", None}
    BY Zenon, <1>0, <1>1 DEF TakeRequest, LoopType
  <2>. QED  BY <1>1, <2>1, <2>2 DEF TypeOK, TakeRequest, LoopType, HandlerType
<1>2. CASE Forward
  <2>1. CASE ch.authError
    BY <1>0, <1>2, <2>1 DEF TypeOK, Forward, LoopType, Replies
  <2>2. CASE ~ch.authError
    <3>1. Destinations(loop.req) \in SUBSET Clusters
      BY Meant DEF Destinations
    <3>2. loop' \in LoopType
      BY Zenon, <1>0, <1>2, <2>2, <3>1 DEF Forward, ForwardRequest, LoopType
    <3>3. ch' \in HandlerType
      BY Zenon, <1>0, <1>2, <2>2, Meant DEF Forward, ForwardRequest, HandlerType
    <3>4. out' \in [Conns -> Requests \union {None}] /\ reply' \in [Conns -> Replies \union {None}]
      BY <1>2, <2>2, Meant DEF TypeOK, LoopInv, Forward, ForwardRequest, Requests
    <3>. QED  BY <1>2, <2>2, <3>2, <3>3, <3>4 DEF TypeOK, Forward, LoopType, HandlerType
  <2>. QED  BY <2>1, <2>2
<1>3. CASE AwaitResponse
  <2>1. Reset /\ (GiveUp \/ (Heard /\ (Pass \/ Tell \/ Drop)))
    BY <1>3, AwaitCases
  <2>2. reply[Secondary] \in Replies \union {None} /\ Aggregated \in Replies \union {None}
    BY Meant DEF TypeOK, Aggregated, Clusters
  <2>3. ch' \in HandlerType
    BY <1>0, <2>1, <2>2 DEF GiveUp, Heard, HandlerType
  <2>4. loop' \in LoopType /\ told' \in {told, Aggregated}
    BY Zenon, <1>0, <2>1, <2>2 DEF GiveUp, Pass, Tell, Drop, LoopType
  <2>5. out' \in [Conns -> Requests \union {None}] /\ reply' \in [Conns -> Replies \union {None}]
    BY <2>1 DEF TypeOK, Reset
  <2>. QED  BY <1>3, <2>2, <2>3, <2>4, <2>5 DEF TypeOK, AwaitResponse, LoopType, HandlerType
<1>4. CASE StartHandshakes
  BY <1>4, ConstantsAssumption DEF TypeOK, StartHandshakes, Idle, NoHandshake
<1>5. CASE Finish
  <2>1. ch' \in HandlerType
    BY Zenon, <1>0, <1>5 DEF Finish, AnswerClient, HandlerType
  <2>2. told' \in {told, "AUTH_ERROR", loop.agg} /\ shut' \in {shut, TRUE}
    BY Zenon, <1>5 DEF Finish, AnswerClient
  <2>3. loop.agg \in Replies \union {None} /\ "AUTH_ERROR" \in Replies
    BY DEF TypeOK, Replies
  <2>4. hs' \in [Handshakes -> Status]
    BY <1>5, ConstantsAssumption DEF Finish, NoHandshakes, NoHandshake, Handshakes, Status
  <2>5. async' \in [state : {"handshake", "ready", "shutdown"}, canceled : BOOLEAN]
    BY Zenon, <1>5 DEF TypeOK, Finish
  <2>. QED
    BY ZenonT(60), <1>0, <1>5, <2>1, <2>2, <2>3, <2>4, <2>5
       DEF TypeOK, Finish, LoopType, HandlerType, Handshakes, Status
<1>6. CASE AsyncLoopEnds \/ Cancel \/ AsyncBreaks \/ Terminated \/ UNCHANGED vars
  BY ZenonT(60), <1>6 DEF TypeOK, AsyncLoopEnds, Cancel, AsyncBreaks, Terminated, vars
<1>7. ASSUME NEW k \in Handshakes, HandshakeStep(k) PROVE TypeOK'
  BY <1>7, HandshakeFacts DEF TypeOK, Moved, AsyncMoved, Wrote, Status, Handshakes
<1>8. ASSUME NEW n \in Conns, Serve(n) PROVE TypeOK'
  BY <1>8, ServeFacts DEF TypeOK, Served
<1>. QED
  BY <1>1, <1>2, <1>3, <1>4, <1>5, <1>6, <1>7, <1>8 DEF Next, ProxyStep, LoopStep, Handshakes

\* The loop and the handshakes keep in step.
LEMMA LoopStepKept ==
  ASSUME Known, Next \/ UNCHANGED vars PROVE LoopInv' /\ RefusedInv'
<1>. USE DEF Known
<1>0. loop \in LoopType /\ ch \in HandlerType
  BY DEF TypeOK, LoopType, HandlerType
<1>1. ASSUME NEW q \in ClientRequests, TakeRequest(q) PROVE LoopInv' /\ RefusedInv'
  BY Zenon, <1>1 DEF TypeOK, LoopInv, RefusedInv, TakeRequest
<1>2. CASE Forward
  <2>1. \A q : Destinations(q)' = Destinations(q)
    BY SameClusters
  <2>2. CASE ch.authError
    BY <1>2, <2>2 DEF LoopInv, RefusedInv, Forward, Idle
  <2>3. CASE ~ch.authError
    BY ZenonT(60), <1>0, <1>2, <2>1, <2>3 DEF LoopInv, RefusedInv, Forward, ForwardRequest, LoopType, HandlerType
  <2>. QED  BY <2>2, <2>3
<1>3. CASE AwaitResponse
  <2>1. GiveUp \/ (Heard /\ (Pass \/ Tell \/ Drop))
    BY <1>3, AwaitCases
  <2>2. ch'.ready = ch.ready /\ ch'.authError = ch.authError /\ loop.pc = "response"
    BY <2>1 DEF TypeOK, GiveUp, Heard
  <2>3. loop'.pc \in {"idle", "start"} /\ (loop'.pc # "idle" => loop'.req = loop.req)
    <3>1. CASE loop' = Idle
      BY <3>1 DEF Idle
    <3>2. CASE Pass
      BY <1>0, <3>2 DEF Pass, LoopType
    <3>. QED  BY <2>1, <3>1, <3>2 DEF GiveUp, Tell, Drop
  <2>. QED  BY <1>3, <2>2, <2>3 DEF LoopInv, RefusedInv, AwaitResponse
<1>4. CASE StartHandshakes
  BY <1>4 DEF TypeOK, LoopInv, RefusedInv, StartHandshakes, Idle, NoHandshake, NoHandshakes
<1>5. CASE Finish
  BY <1>5 DEF TypeOK, LoopInv, RefusedInv, Finish, AnswerClient, HandshakesEnded, Idle,
              NoHandshakes, NoHandshake
<1>6. CASE AsyncLoopEnds \/ Cancel \/ AsyncBreaks \/ Terminated \/ UNCHANGED vars
  BY <1>6 DEF LoopInv, RefusedInv, AsyncLoopEnds, Cancel, AsyncBreaks, Terminated, vars,
              Destinations, Primary, ForwardAuthToTarget
<1>7. ASSUME NEW k \in Handshakes, HandshakeStep(k) PROVE LoopInv' /\ RefusedInv'
  <2>1. PICK st : Moved(k, st)
    BY <1>7, HandshakeFacts
  <2>2. hs[k].pc # "off"
    BY <1>7 DEF HandshakeStep, Attempt, Receive
  <2>. QED
    BY <1>7, <2>1, <2>2, HandshakeFacts DEF TypeOK, LoopInv, RefusedInv, Moved, Handshakes
<1>8. ASSUME NEW n \in Conns, Serve(n) PROVE LoopInv' /\ RefusedInv'
  BY <1>8 DEF LoopInv, RefusedInv, Serve, Destinations, Primary, ForwardAuthToTarget
<1>. QED
  BY <1>1, <1>2, <1>3, <1>4, <1>5, <1>6, <1>7, <1>8 DEF Next, ProxyStep, LoopStep, Handshakes

\* What an answer says of the server stays true: a server never takes it back.
LEMMA AcceptedStep ==
  ASSUME Known, Next \/ UNCHANGED vars
  PROVE  AcceptedInv' /\ \A n \in Conns : srv[n] = "ready" => srv'[n] = "ready"
<1>. USE DEF Known
<1>1. CASE UNCHANGED <<srv, reply>>
  BY <1>1 DEF AcceptedInv
<1>2. CASE Forward \/ AwaitResponse
  <2>1. UNCHANGED srv /\ \A n \in Conns : reply'[n] \in {reply[n], None}
    BY <1>2 DEF TypeOK, Forward, ForwardRequest, AwaitResponse
  <2>. QED  BY <2>1, ConstantsAssumption DEF AcceptedInv, Replies
<1>3. ASSUME NEW k \in Handshakes, HandshakeStep(k)
      PROVE  AcceptedInv' /\ \A n \in Conns : srv[n] = "ready" => srv'[n] = "ready"
  <2>1. UNCHANGED srv /\ \A n \in Conns : reply'[n] \in {reply[n], None}
    BY <1>3, HandshakeFacts DEF TypeOK, Wrote
  <2>. QED  BY <2>1, ConstantsAssumption DEF AcceptedInv, Replies
<1>4. ASSUME NEW n \in Conns, Serve(n)
      PROVE  AcceptedInv' /\ \A m \in Conns : srv[m] = "ready" => srv'[m] = "ready"
  BY <1>4, ServeFacts DEF TypeOK, AcceptedInv, Served
<1>. QED
  BY Zenon, <1>1, <1>2, <1>3, <1>4
     DEF Next, ProxyStep, LoopStep, Handshakes, TakeRequest, StartHandshakes, Finish, AsyncLoopEnds,
         Cancel, AsyncBreaks, Terminated, vars

\* Both clusters get a REGISTER or an OPTIONS and answer it in kind.
LEMMA BothStep ==
  ASSUME Known, Next \/ UNCHANGED vars PROVE BothInv'
<1>. USE DEF Known
<1>0. loop \in LoopType
  BY DEF TypeOK, LoopType
<1>1. CASE UNCHANGED <<loop, out, reply>>
  BY <1>1 DEF BothInv
<1>2. ASSUME NEW q \in ClientRequests, TakeRequest(q) PROVE BothInv'
  <2>1. loop'.pc # "response"
    BY Zenon, <1>0, <1>2 DEF TakeRequest, LoopType
  <2>. QED  BY <2>1 DEF BothInv
<1>3. CASE Forward
  <2>1. CASE loop' = Idle
    BY <2>1 DEF BothInv, Idle
  <2>2. CASE ForwardRequest /\ loop.req \in {"REGISTER", "OPTIONS"}
    <3>1. \A n \in Clusters : out'[n] = loop.req /\ reply'[n] = None
      BY <2>2, Meant DEF ForwardRequest, Destinations
    <3>. QED  BY <1>0, <2>2, <3>1 DEF BothInv, ForwardRequest, LoopType
  <2>3. CASE ForwardRequest /\ loop.req \notin {"REGISTER", "OPTIONS"}
    BY <1>0, <2>3 DEF BothInv, ForwardRequest, LoopType
  <2>. QED  BY <1>3, <2>1, <2>2, <2>3 DEF Forward
<1>4. CASE AwaitResponse \/ StartHandshakes \/ Finish
  <2>1. loop'.pc # "response"
    <3>1. CASE loop' = Idle
      BY <3>1 DEF Idle
    <3>2. CASE Pass
      BY <1>0, <3>2 DEF Pass, LoopType
    <3>3. CASE loop' = [loop EXCEPT !.pc = "handshakes"]
      BY <1>0, <3>3 DEF LoopType
    <3>. QED  BY <1>4, <3>1, <3>2, <3>3, AwaitCases DEF StartHandshakes, Finish, GiveUp, Tell, Drop
  <2>. QED  BY <2>1 DEF BothInv
<1>5. ASSUME NEW k \in Handshakes, HandshakeStep(k) PROVE BothInv'
  BY <1>5, HandshakeFacts DEF BothInv
<1>6. ASSUME NEW n \in Conns, Serve(n) PROVE BothInv'
  <2>1. PICK s, r : Served(n, s, r)
    BY <1>6, ServeFacts
  <2>2. /\ out' = [out EXCEPT ![n] = None] /\ UNCHANGED loop /\ out[n] # None
        /\ reply' = [reply EXCEPT ![n] = r]
    BY Zenon, <1>6, <2>1 DEF Serve, Served
  <2>3. ASSUME loop.pc = "response", loop.req \in {"REGISTER", "OPTIONS"}, NEW m \in Clusters
        PROVE  /\ out'[m] \in {None, loop.req}
               /\ reply'[m] \in {None, "none", "ERROR", IF loop.req = "OPTIONS" THEN "SUPPORTED" ELSE "READY"}
    <3>1. /\ out[m] \in {None, loop.req}
          /\ reply[m] \in {None, "none", "ERROR", IF loop.req = "OPTIONS" THEN "SUPPORTED" ELSE "READY"}
      BY <2>3 DEF BothInv
    <3>2. CASE m # n
      BY <2>2, <3>1, <3>2, Meant DEF TypeOK
    <3>3. CASE m = n
      <4>1. out'[m] = None /\ reply'[m] = r /\ out[n] = loop.req
        BY <2>2, <3>1, <3>3 DEF TypeOK
      <4>. QED  BY <2>1, <2>3, <4>1 DEF Served
    <3>. QED  BY <3>2, <3>3
  <2>. QED  BY <2>2, <2>3 DEF BothInv
<1>. QED
  BY <1>1, <1>2, <1>3, <1>4, <1>5, <1>6
     DEF Next, ProxyStep, LoopStep, Handshakes, AsyncLoopEnds, Cancel, AsyncBreaks, Terminated, vars

\* An answer that lets the second handshake begin says that the primary has
\* accepted the connection, also where it is the answer of the other cluster.
LEMMA PassMeansAccepted ==
  ASSUME Known, Heard, Pass PROVE srv[Primary] = "ready"
<1>. USE DEF Known
<1>1. Primary \in Conns /\ loop.req \in ClientRequests /\ loop.to = Destinations(loop.req)
  BY Meant DEF Heard, LoopInv
<1>2. CASE loop.req = "STARTUP" \/ loop.to = {Primary}
  BY <1>1, <1>2 DEF Pass, Aggregated, AcceptedInv
<1>3. CASE ~(loop.req = "STARTUP" \/ loop.to = {Primary})
  <2>1. loop.to = Clusters /\ loop.req \in {"REGISTER", "OPTIONS"}
    BY <1>1, <1>3 DEF Destinations, ClientRequests
  <2>2. reply["origin"] \in {"READY", "AUTH_SUCCESS"} /\ reply[Primary] # "ERROR"
    BY <1>3, <2>1, Meant DEF Pass, Aggregated
  <2>3. /\ reply["origin"] \in {None, "none", "ERROR", IF loop.req = "OPTIONS" THEN "SUPPORTED" ELSE "READY"}
        /\ reply[Primary] \in {None, "none", "ERROR", IF loop.req = "OPTIONS" THEN "SUPPORTED" ELSE "READY"}
    BY <2>1, Meant DEF BothInv, Heard, Clusters
  <2>4. loop.req = "REGISTER"
    BY <2>1, <2>2, <2>3, ConstantsAssumption DEF Replies
  <2>5. reply[Primary] \notin {None, "none"}
    BY <2>1, Meant DEF Heard
  <2>. QED  BY <1>1, <2>2, <2>3, <2>4, <2>5 DEF AcceptedInv
<1>. QED  BY <1>2, <1>3

\* What the loop and the handshakes remember of the servers is true.
LEMMA EndedStep ==
  ASSUME Known, Next \/ UNCHANGED vars PROVE EndedInv'
<1>. USE DEF Known
<1>0. loop \in LoopType /\ ch \in HandlerType
  BY DEF TypeOK, LoopType, HandlerType
<1>1. /\ Primary' = Primary /\ Secondary' = Secondary
      /\ srv[Primary] = "ready" => srv'[Primary] = "ready"
      /\ srv[Secondary] = "ready" => srv'[Secondary] = "ready"
  BY SameClusters, AcceptedStep, Meant
<1>2. CASE UNCHANGED <<loop, ch, hs>>
  BY <1>1, <1>2 DEF EndedInv
<1>3. ASSUME NEW q \in ClientRequests, TakeRequest(q) PROVE EndedInv'
  <2>1. loop'.pc \in {"idle", "forward"} /\ ch'.startup = ch.startup /\ UNCHANGED hs
    BY Zenon, <1>0, <1>3 DEF TakeRequest, LoopType, HandlerType
  <2>. QED  BY <1>1, <2>1 DEF EndedInv
<1>4. CASE Forward
  <2>1. loop'.pc \in {"idle", "response"} /\ ch'.startup = ch.startup /\ UNCHANGED hs
    <3>1. CASE loop' = Idle /\ UNCHANGED <<ch, hs>>
      BY <3>1 DEF Idle
    <3>2. CASE ForwardRequest /\ UNCHANGED hs
      BY <1>0, <3>2 DEF ForwardRequest, LoopType, HandlerType
    <3>. QED  BY <1>4, <3>1, <3>2 DEF Forward
  <2>. QED  BY <1>1, <2>1 DEF EndedInv
<1>5. CASE AwaitResponse
  <2>1. GiveUp \/ (Heard /\ (Pass \/ Tell \/ Drop))
    BY <1>5, AwaitCases
  <2>2. ch'.startup \in {ch.startup, reply[Secondary]}
    BY <1>0, <2>1 DEF GiveUp, Heard, HandlerType
  <2>3. reply[Secondary] \in {"READY", "AUTH_SUCCESS"} => srv[Secondary] = "ready"
    BY Meant DEF AcceptedInv
  <2>4. loop'.pc \in {"start", "handshakes"} => srv[Primary] = "ready"
    <3>1. CASE loop' = Idle
      BY <3>1 DEF Idle
    <3>2. CASE Heard /\ Pass
      BY <3>2, PassMeansAccepted
    <3>. QED  BY <2>1, <3>1, <3>2 DEF GiveUp, Tell, Drop
  <2>5. UNCHANGED hs
    BY <1>5 DEF AwaitResponse
  <2>. QED  BY <1>1, <2>2, <2>3, <2>4, <2>5 DEF EndedInv
<1>6. CASE StartHandshakes
  <2>1. ch' = ch /\ loop.pc = "start" /\ hs'["secondary"].pc # "done"
    <3>1. ch' = ch /\ loop.pc = "start" /\ hs = NoHandshakes
      BY <1>6 DEF StartHandshakes, LoopInv
    <3>2. CASE hs' = hs
      BY <3>1, <3>2 DEF NoHandshakes, NoHandshake
    <3>3. CASE hs'["secondary"] = [NoHandshake EXCEPT !.pc = "run"]
      BY <3>1, <3>3 DEF NoHandshake
    <3>. QED  BY <1>6, <3>1, <3>2, <3>3 DEF StartHandshakes
  <2>. QED  BY <1>1, <2>1 DEF EndedInv
<1>7. CASE Finish
  <2>1. ch'.startup = ch.startup /\ loop' = Idle /\ hs'["secondary"].pc = "off"
    BY <1>0, <1>7 DEF Finish, AnswerClient, NoHandshakes, NoHandshake, HandlerType
  <2>. QED  BY <1>1, <2>1 DEF EndedInv, Idle
<1>8. ASSUME NEW k \in Handshakes, HandshakeStep(k) PROVE EndedInv'
  <2>1. PICK st : Moved(k, st)
    BY <1>8, HandshakeFacts
  <2>2. UNCHANGED <<loop, ch, srv>>
    BY <1>8, HandshakeFacts
  <2>3. hs'["secondary"].pc = "done" /\ hs'["secondary"].err = None => srv[Secondary] = "ready"
    BY <2>1 DEF Moved, EndedInv, TypeOK, Handshakes
  <2>. QED  BY <1>1, <2>2, <2>3 DEF EndedInv
<1>. QED
  BY <1>2, <1>3, <1>4, <1>5, <1>6, <1>7, <1>8
     DEF Next, ProxyStep, LoopStep, Handshakes, Serve, AsyncLoopEnds, Cancel, AsyncBreaks, Terminated, vars

\* The kept credentials are those of their connection.
LEMMA CredsStep ==
  ASSUME Known, Next \/ UNCHANGED vars PROVE CredsInv'
<1>. USE DEF Known
<1>0. ch \in HandlerType
  BY DEF TypeOK, HandlerType
<1>1. SecondaryCreds' = SecondaryCreds /\ AsyncCreds' = AsyncCreds
  BY SameClusters
<1>2. /\ ch'.secondary \in {ch.secondary, SecondaryCreds}
      /\ ch'.async \in {ch.async, AsyncCreds}
  <2>1. CASE UNCHANGED ch
    BY <2>1
  <2>2. ASSUME NEW q \in ClientRequests, TakeRequest(q)
        PROVE  ch'.secondary = ch.secondary /\ ch'.async = ch.async
    BY <1>0, <2>2 DEF TakeRequest, HandlerType
  <2>3. CASE Forward
    BY ZenonT(60), <1>0, <2>3 DEF Forward, ForwardRequest, HandlerType
  <2>4. CASE AwaitResponse
    BY <1>0, <2>4, AwaitCases DEF GiveUp, Heard, HandlerType
  <2>5. CASE Finish
    BY <1>0, <2>5 DEF Finish, AnswerClient, HandlerType
  <2>6. ASSUME NEW k \in Handshakes, HandshakeStep(k) PROVE UNCHANGED ch
    BY <2>6, HandshakeFacts
  <2>. QED
    BY <2>1, <2>2, <2>3, <2>4, <2>5, <2>6
       DEF Next, ProxyStep, LoopStep, Handshakes, StartHandshakes, Serve, AsyncLoopEnds, Cancel,
           AsyncBreaks, Terminated, vars
<1>. QED  BY <1>1, <1>2 DEF CredsInv

\* The answers to the client and the state of the connector follow the servers.
LEMMA ReadyStep ==
  ASSUME Known, ReadyMeansBoth, Next \/ UNCHANGED vars PROVE ReadyMeansBoth'
<1>. USE DEF Known
<1>. DEFINE Good(x) == x \in {"READY", "AUTH_SUCCESS"}
<1>0. loop \in LoopType /\ ch \in HandlerType
  BY DEF TypeOK, LoopType, HandlerType
<1>1. TypeOK' /\ \A n \in Conns : srv[n] = "ready" => srv'[n] = "ready"
  BY TypesStep, AcceptedStep
<1>2. "async" \in Conns /\ async'.state = "ready" => srv'["async"] = "ready"
  <2>1. CASE async'.state = async.state
    BY <1>1, <2>1 DEF ReadyMeansBoth
  <2>2. CASE AsyncLoopEnds
    BY <2>2 DEF AsyncLoopEnds, TypeOK
  <2>3. CASE AsyncBreaks \/ Finish
    BY <2>1, <2>3 DEF AsyncBreaks, Finish, TypeOK
  <2>4. ASSUME NEW k \in Handshakes, HandshakeStep(k)
        PROVE  "async" \in Conns /\ async'.state = "ready" => srv'["async"] = "ready"
    BY <1>1, <2>1, <2>4, HandshakeFacts DEF AsyncMoved
  <2>. QED
    BY Zenon, <2>1, <2>2, <2>3, <2>4
       DEF Next, ProxyStep, LoopStep, Handshakes, TakeRequest, Forward, AwaitResponse, StartHandshakes,
           Serve, Cancel, Terminated, vars
<1>3. ASSUME ch'.ready = ch.ready, Good(told') => Good(told)
      PROVE  ReadyMeansBoth'
  <2>1. Good(told') \/ ch'.ready => ch'.ready /\ srv["origin"] = "ready" /\ srv["target"] = "ready"
    BY <1>3 DEF ReadyMeansBoth
  <2>. QED  BY <1>1, <1>2, <2>1, Meant DEF ReadyMeansBoth, Clusters
<1>4. CASE UNCHANGED <<ch, told>>
  BY <1>3, <1>4
<1>5. ASSUME NEW q \in ClientRequests, TakeRequest(q) PROVE ReadyMeansBoth'
  <2>1. ch'.ready = ch.ready /\ told' \in {"OVERLOADED", None}
    BY <1>0, <1>5 DEF TakeRequest, HandlerType
  <2>. QED  BY <1>3, <2>1, ConstantsAssumption DEF Replies
<1>6. CASE Forward
  <2>1. ch'.ready = ch.ready /\ told' \in {told, "AUTH_ERROR"}
    BY Zenon, <1>0, <1>6 DEF Forward, ForwardRequest, HandlerType
  <2>. QED  BY <1>3, <2>1
<1>7. CASE AwaitResponse
  <2>1. GiveUp \/ (Heard /\ (Pass \/ Tell \/ Drop))
    BY <1>7, AwaitCases
  <2>2. ch'.ready = ch.ready
    BY <1>0, <2>1 DEF GiveUp, Heard, HandlerType
  <2>3. Good(told') => Good(told)
    BY <2>1 DEF GiveUp, Pass, Tell, Drop
  <2>. QED  BY <1>3, <2>2, <2>3
<1>8. CASE Finish
  <2>1. CASE hs["secondary"].err = None /\ ch' = [ch EXCEPT !.ready = TRUE]
    <3>1. hs["secondary"].pc = "done" /\ loop.pc = "handshakes"
      BY <1>8 DEF Finish, HandshakesEnded, LoopInv, TypeOK
    <3>2. ch'.ready /\ srv[Primary] = "ready" /\ srv[Secondary] = "ready"
      BY <1>0, <2>1, <3>1 DEF EndedInv, HandlerType
    <3>3. srv'["origin"] = "ready" /\ srv'["target"] = "ready"
      BY <1>1, <3>2, Meant DEF Clusters
    <3>. QED  BY <1>1, <1>2, <3>2, <3>3 DEF ReadyMeansBoth
  <2>2. CASE ch' = [ch EXCEPT !.authError = TRUE] /\ told' = "AUTH_ERROR"
    BY <1>0, <1>3, <2>2 DEF HandlerType
  <2>. QED  BY <1>4, <1>8, <2>1, <2>2 DEF Finish, AnswerClient
<1>9. ASSUME NEW k \in Handshakes, HandshakeStep(k) PROVE ReadyMeansBoth'
  BY <1>4, <1>9, HandshakeFacts
<1>. QED
  BY <1>4, <1>5, <1>6, <1>7, <1>8, <1>9
     DEF Next, ProxyStep, LoopStep, Handshakes, StartHandshakes, Serve, AsyncLoopEnds, Cancel,
         AsyncBreaks, Terminated, vars

\* Credentials are written only to the connection they are for.
LEMMA MeantStep ==
  ASSUME Known, CredentialsMeant, Next \/ UNCHANGED vars PROVE CredentialsMeant'
<1>. USE DEF Known
<1>. DEFINE Right(n, q) == q \in Creds => ClusterOf(n) = (IF q = "client" THEN MeantFor ELSE q)
<1>0. MeantFor' = MeantFor /\ \A n \in Conns : Right(n, out[n]) /\ Right(n, None)
  BY SameClusters, ConstantsAssumption DEF CredentialsMeant, Requests
<1>1. ASSUME \A n \in Conns : Right(n, out'[n])
      PROVE  CredentialsMeant'
  BY <1>0, <1>1 DEF CredentialsMeant
<1>2. ASSUME \A n \in Conns : out'[n] \in {out[n], None}
      PROVE  CredentialsMeant'
  BY <1>0, <1>1, <1>2
<1>3. CASE UNCHANGED out
  BY <1>2, <1>3
<1>4. CASE Forward /\ ForwardRequest
  <2>1. CASE loop.req = "client"
    <3>1. \A n \in Conns : out'[n] = IF n = Primary THEN PrimaryCreds ELSE out[n]
      BY <1>4, <2>1 DEF ForwardRequest, Destinations
    <3>2. Right(Primary, PrimaryCreds)
      BY Meant DEF ClusterOf, Clusters
    <3>. QED  BY <1>0, <1>1, <3>1, <3>2
  <2>2. CASE loop.req # "client"
    <3>1. loop.req \in ClientRequests \ {"client"}
      BY <1>4, <2>2 DEF Forward, LoopInv
    <3>2. \A n \in Conns : out'[n] \in {out[n], loop.req}
      BY <1>4, <2>2 DEF ForwardRequest
    <3>. QED  BY <1>0, <1>1, <3>1, <3>2 DEF ClientRequests, Creds, Clusters
  <2>. QED  BY <2>1, <2>2
<1>5. CASE AwaitResponse
  BY <1>2, <1>5 DEF AwaitResponse
<1>6. ASSUME NEW k \in Handshakes, HandshakeStep(k) PROVE CredentialsMeant'
  <2>1. CASE UNCHANGED out
    BY <1>3, <2>1
  <2>2. ASSUME NEW q \in Requests \union {None}, q \in Creds => q = CredsOf(k),
               out' = [out EXCEPT ![ConnOf(k)] = q]
        PROVE  CredentialsMeant'
    <3>1. CredsOf(k) \in Creds => Right(ConnOf(k), CredsOf(k))
      <4>1. CASE k = "secondary"
        <5>1. CredsOf(k) \in {None, SecondaryCreds} /\ ConnOf(k) = Secondary
          BY <4>1 DEF CredsOf, CredsInv, ConnOf
        <5>2. ClusterOf(Secondary) = Secondary
          BY Meant DEF ClusterOf, Clusters
        <5>3. SecondaryCreds = IF Secondary = MeantFor THEN "client" ELSE Secondary
          BY Meant
        <5>4. Secondary # "client" /\ None \notin Creds
          BY Meant, ConstantsAssumption DEF Clusters, Requests
        <5>. QED  BY <5>1, <5>2, <5>3, <5>4
      <4>2. CASE k = "async"
        <5>1. CredsOf(k) \in {None, AsyncCreds} /\ ConnOf(k) = "async" /\ ConnOf(k) \in Conns
          BY <1>6, <4>2, HandshakeFacts DEF CredsOf, CredsInv, ConnOf
        <5>2. ClusterOf("async") = AsyncCluster /\ AsyncCluster \in Clusters
          BY <5>1, ConstantsAssumption DEF ClusterOf, Conns, Clusters
        <5>3. AsyncCreds = IF AsyncCluster = MeantFor THEN "client" ELSE AsyncCluster
          BY <5>2, Meant
        <5>4. AsyncCluster # "client" /\ None \notin Creds
          BY <5>2, ConstantsAssumption DEF Clusters, Requests
        <5>. QED  BY <5>1, <5>2, <5>3, <5>4
      <4>. QED  BY <4>1, <4>2 DEF Handshakes
    <3>2. \A n \in Conns : out'[n] = IF n = ConnOf(k) THEN q ELSE out[n]
      BY <2>2 DEF TypeOK
    <3>. QED  BY <1>0, <1>1, <2>2, <3>1, <3>2
  <2>. QED  BY <1>6, <2>1, <2>2, HandshakeFacts DEF Wrote
<1>7. ASSUME NEW n \in Conns, Serve(n) PROVE CredentialsMeant'
  BY <1>2, <1>7, ServeFacts DEF TypeOK
<1>. QED
  BY Zenon, <1>3, <1>4, <1>5, <1>6, <1>7
     DEF Next, ProxyStep, LoopStep, Handshakes, TakeRequest, Forward, StartHandshakes, Finish,
         AsyncLoopEnds, Cancel, AsyncBreaks, Terminated, vars

-----------------------------------------------------------------------------
(* The theorems. *)

LEMMA InvInit == ASSUME Init PROVE HandshakeInv
<1>1. TypeOK
  <2>1. loop \in LoopType
    BY DEF Init, LoopType, Idle
  <2>2. ch \in HandlerType
    BY ConstantsAssumption DEF Init, HandlerType
  <2>3. hs \in [Handshakes -> Status]
    BY ConstantsAssumption DEF Init, NoHandshakes, NoHandshake, Handshakes, Status
  <2>. QED  BY Zenon, <2>1, <2>2, <2>3 DEF Init, TypeOK, LoopType, HandlerType, Handshakes, Status
<1>2. LoopInv /\ RefusedInv
  BY DEF Init, LoopInv, RefusedInv, Idle, NoHandshakes, NoHandshake
<1>3. AcceptedInv /\ BothInv
  BY ConstantsAssumption DEF Init, AcceptedInv, BothInv, Idle, Replies
<1>4. EndedInv
  BY ConstantsAssumption DEF Init, EndedInv, Idle, NoHandshakes, NoHandshake, Replies
<1>5. CredsInv /\ CredentialsMeant
  BY ConstantsAssumption DEF Init, CredsInv, CredentialsMeant, Requests
<1>6. ReadyMeansBoth
  BY <1>1, ConstantsAssumption DEF Init, ReadyMeansBoth, Replies
<1>. QED  BY <1>1, <1>2, <1>3, <1>4, <1>5, <1>6 DEF HandshakeInv

LEMMA InvStep == ASSUME HandshakeInv, [Next]_vars PROVE HandshakeInv'
<1>1. Known /\ (Next \/ UNCHANGED vars) /\ ReadyMeansBoth /\ CredentialsMeant
  BY DEF HandshakeInv, Known
<1>. QED
  BY <1>1, TypesStep, LoopStepKept, AcceptedStep, BothStep, EndedStep, CredsStep, ReadyStep, MeantStep
     DEF HandshakeInv

LEMMA InvAlways == Spec => []HandshakeInv
  BY InvInit, InvStep, PTL DEF Spec

\* Whatever the client sends and the servers answer, the client is told that its
\* connection is usable only when both clusters have accepted the connections of
\* the proxy (handleHandshakeRequest), and the asynchronous connector forwards
\* requests only on an accepted connection (SetReady).
THEOREM ReadyOnBoth == Spec => []ReadyMeansBoth
<1>1. HandshakeInv => ReadyMeansBoth
  BY DEF HandshakeInv
<1>. QED  BY <1>1, InvAlways, PTL

\* No cluster gets credentials that are meant for the other one
\* (handleClientCredentials), in any configuration.
THEOREM CredentialsReachTheirCluster == Spec => []CredentialsMeant
<1>1. HandshakeInv => CredentialsMeant
  BY DEF HandshakeInv
<1>. QED  BY <1>1, InvAlways, PTL

\* Once the secondary has refused the credentials nothing is forwarded to a
\* cluster and the connection never becomes ready (handleHandshakeRequest answers
\* with the stored authentication error).
THEOREM AuthErrorStays == Spec => AuthErrorSticks
<1>. DEFINE Sticks == ch.authError =>
        ch'.authError /\ ~ch'.ready /\ \A n \in Clusters : out'[n] \in {out[n], None}
<1>1. ASSUME HandshakeInv, [Next]_vars PROVE [Sticks]_vars
  <2>. SUFFICES ASSUME Next, ch.authError
                PROVE  ch'.authError /\ ~ch'.ready /\ \A n \in Clusters : out'[n] \in {out[n], None}
    BY <1>1
  <2>0. Known /\ ~ch.ready /\ loop.pc \in {"idle", "forward"} /\ ch \in HandlerType
    BY <1>1 DEF HandshakeInv, Known, RefusedInv, TypeOK, HandlerType
  <2>1. CASE UNCHANGED <<ch, out>>
    BY <2>0, <2>1
  <2>2. ASSUME NEW q \in ClientRequests, TakeRequest(q)
        PROVE  ch'.authError /\ ~ch'.ready /\ UNCHANGED out
    BY <2>0, <2>2 DEF TakeRequest, HandlerType
  <2>3. CASE Forward
    BY <2>0, <2>1, <2>3 DEF Forward
  <2>4. ~AwaitResponse /\ ~StartHandshakes /\ ~Finish
    BY <2>0 DEF AwaitResponse, StartHandshakes, Finish, HandshakesEnded
  <2>5. ASSUME NEW k \in Handshakes, HandshakeStep(k) PROVE FALSE
    BY <2>0, <2>5, HandshakeFacts DEF Known
  <2>6. ASSUME NEW n \in Conns, Serve(n)
        PROVE  UNCHANGED ch /\ \A m \in Clusters : out'[m] \in {out[m], None}
    BY <2>0, <2>6, Meant DEF Serve, Known, TypeOK
  <2>. QED
    BY <2>0, <2>1, <2>2, <2>3, <2>4, <2>5, <2>6
       DEF Next, ProxyStep, LoopStep, Handshakes, AsyncLoopEnds, Cancel, AsyncBreaks, Terminated, vars
<1>. QED  BY <1>1, InvAlways, PTL DEF Spec, AuthErrorSticks
=============================================================================
