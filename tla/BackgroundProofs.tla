-------------------------- MODULE BackgroundProofs --------------------------
(***************************************************************************)
(* Safety of webhook authentication, the node registry, the process, event *)
(* webhooks and connections, each for every value of its constants.  A     *)
(* component's inductive invariant comes first, then one lemma per group   *)
(* of actions.                                                             *)
(***************************************************************************)
EXTENDS Integers, BackgroundServices, BackgroundSessions, FiniteSetTheorems, TLAPS
----------------------------------------------------------------------------
(* Webhook authentication.                                                 *)

\* A decision was taken after its request was sent, a request is at most a
\* timeout old, and so a cache entry expires in time.
AuthInv ==
    /\ A!TypeOK
    /\ cache # Nil => cache.expires <= cache.verdict.at + Timeout + CacheTTL
    /\ \A r \in Request :
         /\ pc[r] # "idle" => now <= asked[r] + Timeout
         /\ pc[r] = "reply" => verdict[r] \in A!Verdict /\ asked[r] <= verdict[r].at
    /\ AllowGrounded

\* The invariant holds at the start.
LEMMA AuthInit == A!AuthAssumption /\ A!Init => AuthInv
BY DEF A!AuthAssumption, A!Init, AuthInv, A!TypeOK, AllowGrounded, A!AllowGrounded, A!Verdict

\* The steps of Authenticate keep it.
LEMMA AuthRequest ==
    ASSUME A!AuthAssumption, AuthInv, NEW r \in Request,
           \/ A!Hit(r) \/ A!Miss(r) \/ A!Reply(r) \/ A!CallFails(r)
           \/ \E allowed \in BOOLEAN : A!Decide(r, allowed)
    PROVE  AuthInv'
<1> USE DEF A!AuthAssumption, AuthInv, A!TypeOK, A!Verdict, AllowGrounded, A!AllowGrounded
<1>1. CASE A!Hit(r)
  BY <1>1 DEF A!Hit, A!Fresh, A!Answer
<1>2. CASE A!Miss(r)
  BY <1>2 DEF A!Miss
<1>3. CASE A!Reply(r)
  BY <1>3 DEF A!Reply, A!Store, A!Answer, A!Finish
<1>4. CASE A!CallFails(r)
  BY <1>4 DEF A!CallFails, A!Answer, A!Finish
<1>5. ASSUME NEW allowed \in BOOLEAN, A!Decide(r, allowed) PROVE AuthInv'
  BY <1>5 DEF A!Decide
<1> QED
  BY <1>1, <1>2, <1>3, <1>4, <1>5, Zenon

\* So does the clock, which waits for the timeout of a call.
LEMMA AuthPass == A!AuthAssumption /\ AuthInv /\ A!Pass => AuthInv'
BY DEF A!AuthAssumption, AuthInv, A!TypeOK, A!Verdict, AllowGrounded, A!AllowGrounded, A!Pass

\* The invariant of webhook authentication.
LEMMA AuthInvariant == A!Spec => []AuthInv
<1> USE AuthAssumed
<1>1. A!Init => AuthInv
  BY AuthInit, Zenon
<1>2. AuthInv /\ [A!Next]_(A!vars) => AuthInv'
  <2> SUFFICES ASSUME AuthInv, [A!Next]_(A!vars) PROVE AuthInv'
    BY Zenon
  <2>1. CASE UNCHANGED A!vars
    BY <2>1, Zenon DEF A!vars, AuthInv, A!TypeOK, AllowGrounded, A!AllowGrounded
  <2> QED
    BY <2>1, AuthRequest, AuthPass, Zenon DEF A!Next
<1> QED
  BY <1>1, <1>2, PTL DEF A!Spec

\* A connection is let in only on a decision to allow it that is at most a timeout
\* and a cache TTL old, for any number of concurrent connections (Authenticate).
THEOREM AuthCorrect == A!Spec => []AllowGrounded
<1>1. AuthInv => AllowGrounded
  BY Zenon DEF AuthInv
<1> QED
  BY <1>1, AuthInvariant, PTL
----------------------------------------------------------------------------
(* The node registry.                                                      *)

\* The TTL outlives two heartbeats and a command, as nodeTTL (30 s) does with
\* heartbeatInterval (10 s) and opTimeout (5 s, the unit).
TTLSuffices == NodeTTL > 2 * HeartbeatInterval + 1

\* What is left of the key's TTL while the process is up and has lost m refreshes
\* in a row, and after it is gone; a command is over within a unit.
RegistryInv ==
    /\ R!TypeOK
    /\ state = "new" => set = "none" /\ missed = 0 /\ nextBeat = HeartbeatInterval
    /\ state = "up" =>
         /\ set # "orphan"
         /\ set = "sent" => nextBeat + age = HeartbeatInterval
         /\ set = "none" /\ missed = 0 => key + HeartbeatInterval >= NodeTTL + nextBeat
         /\ set = "none" /\ missed = 1 => key + 2 * HeartbeatInterval >= NodeTTL + nextBeat
         /\ set = "sent" /\ missed = 0 => key + 2 * HeartbeatInterval >= NodeTTL + nextBeat
         /\ set = "sent" /\ missed = 1 => key + 3 * HeartbeatInterval >= NodeTTL + nextBeat
    /\ state \notin {"closed", "dead"} => gone = 0
    /\ state \in {"closed", "dead"} =>
         /\ set # "none" => gone <= age
         /\ key > 0 => key + gone <= NodeTTL + 1

\* Every step of the heartbeat, of Close and of Redis keeps it.
LEMMA RegistryStep == R!RegistryAssumption /\ RegistryInv /\ [R!Next]_(R!vars) => RegistryInv'
<1> SUFFICES ASSUME R!RegistryAssumption, RegistryInv, [R!Next]_(R!vars) PROVE RegistryInv'
  BY Zenon
<1> USE DEF R!RegistryAssumption, RegistryInv, R!TypeOK
<1>1. CASE R!Join
  BY <1>1 DEF R!Join
<1>2. CASE R!Beat
  BY <1>2 DEF R!Beat
<1>3. CASE R!SetApplied
  BY <1>3 DEF R!SetApplied
<1>4. CASE R!SetFails
  BY <1>4 DEF R!SetFails
<1>5. CASE R!Die
  BY <1>5 DEF R!Die
<1>6. CASE R!Close
  BY <1>6, Zenon DEF R!Close
<1>7. CASE R!DeleteNode
  BY <1>7 DEF R!DeleteNode
<1>8. CASE R!Pass
  BY <1>8 DEF R!Pass
<1>9. CASE UNCHANGED R!vars
  BY <1>9, Zenon DEF R!vars
<1>10. CASE R!JoinFails
  BY <1>10 DEF R!JoinFails
<1> QED
  BY <1>1, <1>2, <1>3, <1>4, <1>5, <1>6, <1>7, <1>8, <1>9, <1>10, Zenon DEF R!Next

\* The invariant holds in every state.
LEMMA RegistryInvariant == R!Spec => []RegistryInv
<1> USE RegistryAssumed
<1>1. R!Init => RegistryInv
  BY DEF R!RegistryAssumption, R!Init, RegistryInv, R!TypeOK
<1>2. RegistryInv /\ [R!Next]_(R!vars) => RegistryInv'
  BY RegistryStep, Zenon
<1> QED
  BY <1>1, <1>2, PTL DEF R!Spec

\* The heartbeat keeps a process that is up in the registry, also when one refresh
\* got lost, for every TTL longer than two heartbeats and a command (heartbeatLoop).
THEOREM HeartbeatCorrect == TTLSuffices => (R!Spec => []LiveListed)
<1> SUFFICES ASSUME TTLSuffices PROVE R!Spec => []LiveListed
  BY Zenon
<1>1. RegistryInv => LiveListed
  BY RegistryAssumed DEF R!RegistryAssumption, TTLSuffices, RegistryInv, R!TypeOK, LiveListed, R!LiveListed
<1> QED
  BY <1>1, RegistryInvariant, PTL

\* A process that closed or died is off the registry a TTL after its last command,
\* for every TTL and interval (Close, register).
THEOREM ExpiryCorrect == R!Spec => []GoneDisappears
<1>1. RegistryInv => GoneDisappears
  BY RegistryAssumed DEF R!RegistryAssumption, RegistryInv, R!TypeOK, GoneDisappears, R!GoneDisappears
<1> QED
  BY <1>1, RegistryInvariant, PTL
----------------------------------------------------------------------------
(* The process.                                                            *)

\* What the process holds at each stage, and that run gets past Shutdown in time
\* only when no REST request is left.
ProcessInv ==
    /\ E!TypeOK
    /\ stage = "open" => store = "none"
    /\ stage \in {"auth", "join", "listen", "running", "draining", "close", "leave"} =>
         store = "open"
    /\ stage = "release" => store # "none"
    /\ stage \in {"open", "auth", "join", "release"} => ~node
    /\ stage \in {"leave", "release"} => cancelled
    /\ stage \in {"open", "auth", "join", "listen"} => job = [j \in E!Job |-> "none"]
    /\ stage \in {"close", "leave", "release"} /\ ~gaveUp =>
         \A j \in Rest : job[j] \in {"none", "done"}
    /\ Released
    /\ RestServed

\* run's own steps keep it.
LEMMA ProcessRun == ProcessInv /\ E!Run => ProcessInv'
<1> SUFFICES ASSUME ProcessInv, E!Run PROVE ProcessInv'
  BY Zenon
<1> USE DEF ProcessInv, E!TypeOK, E!Stages, E!Job, E!Goto, E!jobVars,
            Released, E!Released, RestServed, E!RestServed
<1>1. CASE E!OpenStore
  <2>1. CASE stage' = "auth"
    BY <1>1, <2>1, Zenon DEF E!OpenStore
  <2>2. CASE stage' = "failed"
    <3>1. E!TypeOK'
      BY <1>1, <2>2, Zenon DEF E!OpenStore
    <3>2. Released'
      BY <1>1, <2>2, Zenon DEF E!OpenStore
    <3> QED
      BY <1>1, <2>2, <3>1, <3>2, Zenon DEF E!OpenStore
  <2> QED
    BY <1>1, <2>1, <2>2, Zenon DEF E!OpenStore
<1>2. CASE E!ConfigureAuth
  BY <1>2, Zenon DEF E!ConfigureAuth
<1>3. CASE E!JoinCluster
  <2>1. CASE stage' = "listen"
    <3>1. E!TypeOK'
      BY <1>3, <2>1, Zenon DEF E!JoinCluster
    <3> QED
      BY <1>3, <2>1, <3>1, Zenon DEF E!JoinCluster
  <2>2. CASE stage' = "failed"
    BY <1>3, <2>2 DEF E!JoinCluster
  <2> QED
    BY <1>3, <2>1, <2>2, Zenon DEF E!JoinCluster
<1>4. CASE E!Listen
  BY <1>4, Zenon DEF E!Listen
<1>5. CASE E!Shutdown
  BY <1>5, Zenon DEF E!Shutdown
<1>6. CASE E!ShutdownTimesOut
  BY <1>6, Zenon DEF E!ShutdownTimesOut
<1>7. CASE E!Cancel
  BY <1>7, Zenon DEF E!Cancel
<1>8. CASE E!LeaveCluster
  BY <1>8, Zenon DEF E!LeaveCluster
<1>9. CASE E!CloseStore
  BY <1>9, Zenon DEF E!CloseStore
<1>10. CASE E!StoreClosed
  BY <1>10, Zenon DEF E!StoreClosed
<1>11. CASE E!Exit
  BY <1>11, Zenon DEF E!Exit
<1> QED
  BY <1>1, <1>2, <1>3, <1>4, <1>5, <1>6, <1>7, <1>8, <1>9, <1>10, <1>11, Zenon DEF E!Run

\* So do the signals, and a listener that breaks.
LEMMA ProcessSignal ==
    ProcessInv /\ (E!Signal \/ E!ServeFails \/ E!HardExit) => ProcessInv'
BY Zenon DEF ProcessInv, E!TypeOK, E!Stages, E!Job, E!Goto, E!jobVars,
       Released, E!Released, RestServed, E!RestServed, E!Signal, E!ServeFails, E!HardExit

\* And requests and connections: a REST request never meets a store that is not
\* open unless run gave up.
LEMMA ProcessJob ==
    ASSUME ProcessInv, NEW j \in E!Job,
           E!Accept(j) \/ E!Read(j) \/ E!Call(j) \/ E!CallEnds(j) \/ E!Return(j)
    PROVE  ProcessInv'
<1> USE ProcessAssumed DEF ProcessInv, E!ProcessAssumption, E!TypeOK, E!Stages, E!Job,
            E!Up, Released, E!Released, RestServed, E!RestServed
<1>1. CASE E!Accept(j)
  BY <1>1, Zenon DEF E!Accept
<1>2. CASE E!Call(j)
  BY <1>2 DEF E!Call
<1>3. CASE E!CallEnds(j)
  BY <1>3, Zenon DEF E!CallEnds
<1>4. CASE E!Return(j)
  BY <1>4, Zenon DEF E!Return
<1>5. CASE E!Read(j)
  BY <1>5, Zenon DEF E!Read
<1> QED
  BY <1>1, <1>2, <1>3, <1>4, <1>5, Zenon

\* The invariant holds in every state.
LEMMA ProcessInvariant == E!Spec => []ProcessInv
<1>1. E!Init => ProcessInv
  <2> SUFFICES ASSUME E!Init PROVE ProcessInv
    BY Zenon
  <2>1. E!TypeOK
    <3>1. cancelled \in BOOLEAN /\ node \in BOOLEAN /\ stopped \in BOOLEAN /\ gaveUp \in BOOLEAN
      BY Zenon DEF E!Init
    <3>2. jobCalls \in [E!Job -> 0..MaxCalls]
      BY ProcessAssumed DEF E!ProcessAssumption, E!Init
    <3> QED
      BY <3>1, <3>2, Zenon DEF E!Init, E!TypeOK, E!Stages
  <2>2. RestServed /\ Released
    BY Zenon DEF E!Init, Released, E!Released, RestServed, E!RestServed
  <2> QED
    BY <2>1, <2>2, Zenon DEF E!Init, ProcessInv
<1>2. ProcessInv /\ [E!Next]_(E!vars) => ProcessInv'
  <2> SUFFICES ASSUME ProcessInv, [E!Next]_(E!vars) PROVE ProcessInv'
    BY Zenon
  <2>1. CASE UNCHANGED E!vars
    BY <2>1, Zenon DEF E!vars, ProcessInv, E!TypeOK, Released, E!Released, RestServed, E!RestServed
  <2> QED
    BY <2>1, ProcessRun, ProcessSignal, ProcessJob, Zenon DEF E!Next
<1> QED
  BY <1>1, <1>2, PTL DEF E!Spec

\* A REST request that was accepted meets an open store unless run gave up, for any
\* number of requests and connections and any store (run).
THEOREM ShutdownCorrect == E!Spec => []RestServed
<1>1. ProcessInv => RestServed
  BY Zenon DEF ProcessInv
<1> QED
  BY <1>1, ProcessInvariant, PTL

\* A process that failed to start or exited holds nothing (newFromConfig, Close).
THEOREM ReleaseCorrect == E!Spec => []Released
<1>1. ProcessInv => Released
  BY Zenon DEF ProcessInv
<1> QED
  BY <1>1, ProcessInvariant, PTL
----------------------------------------------------------------------------
(* Event webhooks.                                                         *)

\* Webhook counts with the Cardinality of the library.
LEMMA WebhookCardinality == \A X : W!Cardinality(X) = Cardinality(X)
BY Zenon DEF W!Cardinality, Cardinality

\* The deliveries that were started and not counted as errors.
Uncounted == {e \in Event : delivery[e] \in {"post", "backoff", "ok"}}

\* Each attempt is handled at most once, by the endpoint, before the next begins.
WebhookInv ==
    /\ W!TypeOK
    /\ \A e \in Event :
         /\ delivery[e] = "none" => received[e] = 0
         /\ delivery[e] = "post" => received[e] < attempt[e]
         /\ delivery[e] = "backoff" => attempt[e] < W!Attempts
    /\ AttemptsExact
    /\ IsFiniteSet(Uncounted)
    /\ MetricsBalance

\* Emit keeps it, and counts a delivery.
LEMMA WebhookEmit ==
    ASSUME WebhookInv, NEW e \in Event, W!Emit(e)
    PROVE  WebhookInv'
<1> USE WebhookAssumed DEF W!WebhookAssumption, WebhookInv, W!TypeOK, W!Attempts, W!Emit
<1>1. Uncounted' = Uncounted \cup {e} /\ e \notin Uncounted
  BY Zenon DEF Uncounted
<1>2. IsFiniteSet(Uncounted') /\ Cardinality(Uncounted') = Cardinality(Uncounted) + 1
  BY <1>1, FS_AddElement, Zenon
<1>3. Cardinality(Uncounted) \in Nat
  BY FS_CardinalityType, Zenon
<1>4. MetricsBalance'
  BY <1>2, <1>3, WebhookCardinality DEF MetricsBalance, W!MetricsBalance, Uncounted
<1>5. AttemptsExact'
  BY DEF AttemptsExact, W!AttemptsExact
<1> QED
  BY <1>2, <1>4, <1>5

\* So do an attempt and the sleep before the next: a delivery leaves the uncounted
\* ones as an error is counted.
LEMMA WebhookDeliver ==
    ASSUME WebhookInv, NEW e \in Event, W!Deliver(e)
    PROVE  WebhookInv'
<1> USE WebhookAssumed DEF W!WebhookAssumption, WebhookInv, W!TypeOK, W!Attempts
<1>1. Cardinality(Uncounted) \in Nat
  BY FS_CardinalityType, Zenon
<1>2. CASE W!PostFails(e) /\ W!Exhausted(attempt[e])
  <2> USE <1>2 DEF W!PostFails, W!Exhausted
  <2>1. Uncounted' = Uncounted \ {e} /\ e \in Uncounted
    BY Zenon DEF Uncounted
  <2>2. IsFiniteSet(Uncounted') /\ Cardinality(Uncounted') = Cardinality(Uncounted) - 1
    BY <2>1, FS_RemoveElement, Zenon
  <2>3. MetricsBalance'
    BY <1>1, <2>2, WebhookCardinality DEF MetricsBalance, W!MetricsBalance, Uncounted
  <2>4. AttemptsExact'
    BY DEF AttemptsExact, W!AttemptsExact
  <2>5. W!TypeOK'
    OBVIOUS
  <2> QED
    BY <2>2, <2>3, <2>4, <2>5, Zenon
<1>3. CASE \/ W!PostSucceeds(e)
           \/ W!PostFails(e) /\ ~W!Exhausted(attempt[e])
           \/ W!Retry(e)
  <2> USE <1>3 DEF W!PostSucceeds, W!PostFails, W!Exhausted, W!Retry
  <2>1. Uncounted' = Uncounted
    BY Zenon DEF Uncounted
  <2>2. MetricsBalance'
    BY <2>1, Zenon DEF MetricsBalance, W!MetricsBalance, Uncounted
  <2>3. AttemptsExact'
    BY DEF AttemptsExact, W!AttemptsExact
  <2>4. W!TypeOK'
    BY DEF AttemptsExact, W!AttemptsExact
  <2> QED
    BY <2>1, <2>2, <2>3, <2>4 DEF AttemptsExact, W!AttemptsExact
<1> QED
  BY <1>2, <1>3, Zenon DEF W!Deliver

\* The invariant holds in every state.
LEMMA WebhookInvariant == W!Spec => []WebhookInv
<1>1. W!Init => WebhookInv
  <2> SUFFICES ASSUME W!Init PROVE WebhookInv
    BY Zenon
  <2>1. Uncounted = {}
    BY Zenon DEF W!Init, Uncounted
  <2>2. IsFiniteSet(Uncounted) /\ MetricsBalance
    BY <2>1, FS_EmptySet, WebhookCardinality DEF W!Init, MetricsBalance, W!MetricsBalance, Uncounted
  <2> QED
    BY <2>2, WebhookAssumed DEF W!Init, WebhookInv, W!TypeOK, W!WebhookAssumption, W!Attempts,
       AttemptsExact, W!AttemptsExact
<1>2. WebhookInv /\ [W!Next]_(W!vars) => WebhookInv'
  <2> SUFFICES ASSUME WebhookInv, [W!Next]_(W!vars) PROVE WebhookInv'
    BY Zenon
  <2>1. CASE UNCHANGED W!vars
    BY <2>1, Zenon DEF W!vars, WebhookInv, W!TypeOK, AttemptsExact, W!AttemptsExact, Uncounted,
       MetricsBalance, W!MetricsBalance
  <2> QED
    BY <2>1, WebhookEmit, WebhookDeliver, Zenon DEF W!Next
<1> QED
  BY <1>1, <1>2, PTL DEF W!Spec

\* A delivery is given up after MaxRetries + 1 attempts and no earlier, and the
\* endpoint handles an event at most that often, for every MaxRetries (deliver).
THEOREM RetriesCorrect == W!Spec => []AttemptsExact
<1>1. WebhookInv => AttemptsExact
  BY Zenon DEF WebhookInv
<1> QED
  BY <1>1, WebhookInvariant, PTL

\* The webhook metrics account for every delivery, for any events (Emit, deliver).
THEOREM MetricsCorrect == W!Spec => []MetricsBalance
<1>1. WebhookInv => MetricsBalance
  BY Zenon DEF WebhookInv
<1> QED
  BY <1>1, WebhookInvariant, PTL
----------------------------------------------------------------------------
(* Connections and sessions.  The inductive invariant ties what a          *)
(* connection noted to what it used, and the hub, the events and the gauge *)
(* to what it noted.                                                       *)

\* Sessions counts with the Cardinality of the library.
LEMMA SessionsCardinality == \A X : S!Cardinality(X) = Cardinality(X)
BY Zenon DEF S!Cardinality, Cardinality

\* The connections that are served.
Served == {c \in Conn : connPhase[c] \notin {"new", "gone"}}

\* Connection c is between handleSubscribe's note and the hub, for document d.
Subscribing(c, d) == call[c] # NoSession /\ call[c].type = "subscribe" /\ call[c].doc = d

\* The session noted for a document is one that was used for it, and a subscribe
\* under way has noted its own.
Noting(c, d) ==
    /\ \/ subs[c][d] \in used[c][d]
       \/ subs[c][d] = NoSession /\ used[c][d] = {}
    /\ Subscribing(c, d) => subs[c][d] = call[c].session

\* The hub and the connected events follow the notes, and only a connection that
\* ended has disconnected events, for the sessions it ends with.
Ending(c, d) ==
    /\ c \in hubDocs[d] =>
         subs[c][d] # NoSession /\ connPhase[c] \notin {"deregistered", "gone"}
    /\ \A s \in Session : <<c, d, s>> \in connected =>
         subs[c][d] # NoSession /\ (<<c, d, subs[c][d]>> \in connected \/ Subscribing(c, d))
    /\ \A s \in Session : <<c, d, s>> \in disconnected <=>
         connPhase[c] = "gone" /\ subs[c][d] = s

\* A broadcast is that of the sync its connection is handling.
Casting(d) ==
    bc[d] # NoSession =>
        call[bc[d].by] # NoSession /\ call[bc[d].by].type = "sync" /\ call[bc[d].by].doc = d

\* The gauge.
Gauged == IsFiniteSet(Served) /\ active = Cardinality(Served)

SessionsInv ==
    /\ S!TypeOK
    /\ \A c \in Conn : connPhase[c] \in {"new", "deregistered", "gone"} => call[c] = NoSession
    /\ \A c \in Conn, d \in Doc : Noting(c, d) /\ Ending(c, d)
    /\ \A d \in Doc : Casting(d)
    /\ Gauged
    /\ NoEcho

\* The invariant is what the two properties need.
LEMMA SessionsImplies == SessionsInv => NoEcho /\ TornDown
<1> SUFFICES ASSUME SessionsInv PROVE TornDown
  BY Zenon DEF SessionsInv
<1>1. \A c \in Conn : connPhase[c] \in {"deregistered", "gone"} =>
        \A d \in Doc : c \notin hubDocs[d]
  BY Zenon DEF SessionsInv, Ending
<1>2. ASSUME NEW c \in Conn, NEW d \in Doc, connPhase[c] = "gone"
      PROVE  LET ended == {s \in Session : <<c, d, s>> \in disconnected} IN
             /\ ended \subseteq {subs[c][d]}
             /\ (\E s \in Session : <<c, d, s>> \in connected) =>
                    ended # {} /\ <<c, d, subs[c][d]>> \in connected
  <2> DEFINE ended == {s \in Session : <<c, d, s>> \in disconnected}
  <2>1. subs[c][d] \in Session \cup {NoSession}
    BY Zenon DEF SessionsInv, S!TypeOK
  <2>2. ended \subseteq {subs[c][d]}
    BY <1>2, Zenon DEF SessionsInv, Ending
  <2>4. ASSUME NEW s \in Session, <<c, d, s>> \in connected
        PROVE  ended # {} /\ <<c, d, subs[c][d]>> \in connected
    <3>1. subs[c][d] # NoSession /\ <<c, d, subs[c][d]>> \in connected
      BY <1>2, <2>4, Zenon DEF SessionsInv, Ending, Subscribing
    <3>2. <<c, d, subs[c][d]>> \in disconnected
      BY <1>2, <2>1, <3>1, Zenon DEF SessionsInv, Ending
    <3> QED
      BY <2>1, <3>1, <3>2, Zenon
  <2> QED
    BY <2>2, <2>4, Zenon
<1>3. active = Cardinality({c \in Conn : connPhase[c] \notin {"new", "gone"}})
  BY Zenon DEF SessionsInv, Gauged, Served
<1> QED
  BY <1>1, <1>2, <1>3, SessionsCardinality, Zenon DEF TornDown, S!TornDown

\* Serve and the end of a connection move the gauge with the served connections;
\* nothing else touches either.
LEMMA GaugeStep == SessionsInv /\ [S!Next]_(S!vars) => Gauged'
<1> SUFFICES ASSUME SessionsInv, [S!Next]_(S!vars) PROVE Gauged'
  BY Zenon
<1> USE DEF Gauged, SessionsInv, S!TypeOK, S!Goto
<1>1. Cardinality(Served) \in Nat
  BY FS_CardinalityType, Zenon
<1>2. ASSUME NEW c \in Conn, S!Serve(c) PROVE Gauged'
  <2>1. Served' = Served \cup {c} /\ c \notin Served
    BY <1>2, Zenon DEF S!Serve, Served
  <2> QED
    BY <1>1, <1>2, <2>1, FS_AddElement, Zenon DEF S!Serve
<1>3. ASSUME NEW c \in Conn, S!FireDisconnected(c) PROVE Gauged'
  <2>1. Served' = Served \ {c} /\ c \in Served
    BY <1>3, Zenon DEF S!FireDisconnected, Served
  <2> QED
    BY <1>1, <1>3, <2>1, FS_RemoveElement, Zenon DEF S!FireDisconnected
<1>4. ASSUME NEW c \in Conn, S!Close(c) \/ S!Deregister(c) PROVE Gauged'
  <2>1. Served' = Served
    BY <1>4, Zenon DEF S!Close, S!Deregister, Served
  <2> QED
    BY <1>4, <2>1, Zenon DEF S!Close, S!Deregister
<1>5. CASE UNCHANGED <<connPhase, active>>
  BY <1>5, Zenon DEF Served
<1>6. ASSUME NEW c \in Conn, S!HubSubscribe(c) \/ S!SubmitFails(c) \/ S!Broadcast(c)
      PROVE  Gauged'
  BY <1>5, <1>6, Zenon DEF S!HubSubscribe, S!SubmitFails, S!Broadcast
<1>7. ASSUME NEW c \in Conn, NEW d \in Doc, S!Visit(d, c) PROVE Gauged'
  BY <1>5, <1>7, Zenon DEF S!Visit
<1>8. ASSUME NEW c \in Conn, NEW d \in Doc, NEW s \in Session,
             S!HandleSubscribe(c, d, s) \/ S!HandleSync(c, d, s)
      PROVE  Gauged'
  BY <1>5, <1>8, Zenon DEF S!HandleSubscribe, S!HandleSync
<1>9. ASSUME NEW d \in Doc, S!BroadcastDone(d) PROVE Gauged'
  BY <1>5, <1>9, Zenon DEF S!BroadcastDone
<1>10. CASE UNCHANGED S!vars
  BY <1>5, <1>10, Zenon DEF S!vars
<1> HIDE DEF Gauged, SessionsInv, S!TypeOK, S!Goto
<1> QED
  BY <1>2, <1>3, <1>4, <1>6, <1>7, <1>8, <1>9, <1>10, Zenon DEF S!Next

\* A message notes its session, if only a sync's where there was none yet.
LEMMA MessageStep ==
    ASSUME SessionsInv, NEW c \in Conn, NEW d \in Doc, NEW s \in Session,
           S!HandleSubscribe(c, d, s) \/ S!HandleSync(c, d, s),
           NEW b \in Conn, NEW e \in Doc
    PROVE  Noting(b, e)' /\ Ending(b, e)'
<1> USE SessionsAssumed DEF S!SessionsAssumption
<1>1. Noting(b, e) /\ Ending(b, e) /\ subs[b][e] \in Session \cup {NoSession}
  BY DEF SessionsInv, S!TypeOK
<1>2. UNCHANGED <<connPhase, hubDocs, connected, disconnected>>
  BY Zenon DEF S!HandleSubscribe, S!HandleSync
<1>3. connPhase[c] = "open" /\ call[c] = NoSession
  BY Zenon DEF S!HandleSubscribe, S!HandleSync, S!Message
<1>4. CASE b = c /\ e = d
  <2>1. /\ used'[b][e] = used[b][e] \cup {s}
        /\ call'[b].session = s /\ call'[b].doc = d /\ call'[b] # NoSession
    BY <1>4 DEF S!HandleSubscribe, S!HandleSync, S!Message, SessionsInv, S!TypeOK
  <2>2. CASE S!HandleSubscribe(c, d, s)
    <3>1. subs'[b][e] = s /\ call'[b].type = "subscribe"
      BY <1>4, <2>2, Zenon DEF S!HandleSubscribe, S!Message, SessionsInv, S!TypeOK
    <3> QED
      BY <1>1, <1>2, <1>3, <1>4, <2>1, <3>1, Zenon DEF Noting, Ending, Subscribing
  <2>3. CASE S!HandleSync(c, d, s)
    <3>1. /\ subs'[b][e] = IF subs[b][e] = NoSession THEN s ELSE subs[b][e]
          /\ call'[b].type = "sync"
      BY <1>4, <2>3, Zenon DEF S!HandleSync, S!Message, SessionsInv, S!TypeOK
    <3> QED
      BY <1>1, <1>2, <1>3, <1>4, <2>1, <3>1, Zenon DEF Noting, Ending, Subscribing
  <2> QED
    BY <2>2, <2>3, Zenon
<1>5. CASE ~(b = c /\ e = d)
  <2>1. subs'[b][e] = subs[b][e] /\ used'[b][e] = used[b][e]
    BY <1>5 DEF S!HandleSubscribe, S!HandleSync, S!Message, SessionsInv, S!TypeOK
  <2>2. ~Subscribing(b, e)' \/ call'[b] = call[b]
    BY <1>5 DEF S!HandleSubscribe, S!HandleSync, S!Message, SessionsInv, S!TypeOK, Subscribing
  <2>3. Subscribing(b, e) => Subscribing(b, e)'
    BY <1>3, <1>5, Zenon DEF S!HandleSubscribe, S!HandleSync, S!Message, SessionsInv, S!TypeOK, Subscribing
  <2> QED
    BY <1>1, <1>2, <2>1, <2>2, <2>3, Zenon DEF Noting, Ending, Subscribing
<1> QED
  BY <1>4, <1>5, Zenon

\* A subscribe that reaches the hub fires the event for the session it noted.
LEMMA HubStep ==
    ASSUME SessionsInv, NEW c \in Conn, S!HubSubscribe(c), NEW b \in Conn, NEW e \in Doc
    PROVE  Noting(b, e)' /\ Ending(b, e)'
<1> USE SessionsAssumed DEF S!SessionsAssumption
<1>1. Noting(b, e) /\ Ending(b, e) /\ subs[b][e] \in Session \cup {NoSession}
  BY DEF SessionsInv, S!TypeOK
<1>2. call[c].doc \in Doc /\ call[c].session \in Session /\ Subscribing(c, call[c].doc)
  BY Zenon DEF SessionsInv, S!TypeOK, S!HubSubscribe, Subscribing
<1>3. subs[c][call[c].doc] = call[c].session /\ connPhase[c] \notin {"deregistered", "gone"}
  BY <1>2, Zenon DEF SessionsInv, Noting, S!HubSubscribe
<1>4. UNCHANGED <<connPhase, subs, used, disconnected>>
  BY Zenon DEF S!HubSubscribe
<1>5. connected' = connected \cup {<<c, call[c].doc, call[c].session>>}
  BY Zenon DEF S!HubSubscribe
<1>6. /\ b = c => call'[b] = NoSession
      /\ b # c => call'[b] = call[b]
      /\ hubDocs'[e] = IF e = call[c].doc THEN hubDocs[e] \cup {c} ELSE hubDocs[e]
  BY <1>2, Zenon DEF S!HubSubscribe, S!Return, SessionsInv, S!TypeOK
<1>7. Noting(b, e)'
  BY <1>1, <1>4, <1>6, Zenon DEF Noting, Subscribing
<1>8. CASE b = c /\ e = call[c].doc
  BY <1>1, <1>2, <1>3, <1>4, <1>5, <1>6, <1>7, <1>8, Zenon DEF Ending
<1>9. CASE ~(b = c /\ e = call[c].doc)
  BY <1>1, <1>4, <1>5, <1>6, <1>7, <1>9, Zenon DEF Ending, Subscribing
<1> QED
  BY <1>8, <1>9, Zenon

\* A sync writes no notes and fires no events.
LEMMA SyncStep ==
    ASSUME SessionsInv,
           \/ \E c \in Conn : S!SubmitFails(c) \/ S!Broadcast(c)
           \/ \E d \in Doc, c \in Conn : S!Visit(d, c)
           \/ \E d \in Doc : S!BroadcastDone(d),
           NEW b \in Conn, NEW e \in Doc
    PROVE  Noting(b, e)' /\ Ending(b, e)'
<1>1. Noting(b, e) /\ Ending(b, e)
  BY Zenon DEF SessionsInv
<1>2. UNCHANGED <<connPhase, subs, hubDocs, used, connected, disconnected>>
  BY Zenon DEF S!SubmitFails, S!Broadcast, S!Visit, S!BroadcastDone
<1>3. /\ call'[b] \in {call[b], NoSession}
      /\ Subscribing(b, e) => call'[b] = call[b]
  <2>1. ASSUME NEW d \in Doc, S!BroadcastDone(d)
        PROVE  call'[b] \in {call[b], NoSession} /\ (Subscribing(b, e) => call'[b] = call[b])
    BY <2>1, Zenon DEF S!BroadcastDone, S!Return, SessionsInv, S!TypeOK, Casting, Subscribing
  <2> QED
    BY <2>1, Zenon DEF S!SubmitFails, S!Broadcast, S!Visit, S!Submitting, S!Return,
       SessionsInv, S!TypeOK, Subscribing
<1> QED
  BY <1>1, <1>2, <1>3, Zenon DEF Noting, Ending, Subscribing

\* The end of a connection changes its phase, its place in the hub and, last, its
\* disconnected events.
LEMMA LifeStep ==
    ASSUME SessionsInv, NEW c \in Conn,
           S!Serve(c) \/ S!Close(c) \/ S!Deregister(c) \/ S!FireDisconnected(c),
           NEW b \in Conn, NEW e \in Doc
    PROVE  Noting(b, e)' /\ Ending(b, e)'
<1> USE SessionsAssumed DEF S!SessionsAssumption
<1>1. Noting(b, e) /\ Ending(b, e) /\ subs[b][e] \in Session \cup {NoSession}
  BY DEF SessionsInv, S!TypeOK
<1>2. UNCHANGED <<subs, used, call, connected>>
  BY Zenon DEF S!Serve, S!Close, S!Deregister, S!FireDisconnected
<1>3. Noting(b, e)'
  BY <1>1, <1>2, Zenon DEF Noting, Subscribing
<1>4. b # c => connPhase'[b] = connPhase[b]
  BY Zenon DEF S!Serve, S!Close, S!Deregister, S!FireDisconnected, S!Goto, SessionsInv, S!TypeOK
<1>5. CASE S!Serve(c) \/ S!Close(c)
  <2>1. connPhase[c] \notin {"deregistered", "gone"} /\ connPhase'[c] \in {"open", "closed"}
    BY <1>5, Zenon DEF S!Serve, S!Close, S!Goto, SessionsInv, S!TypeOK
  <2>2. UNCHANGED <<hubDocs, disconnected>>
    BY <1>5, Zenon DEF S!Serve, S!Close
  <2> QED
    BY <1>1, <1>2, <1>3, <1>4, <2>1, <2>2, Zenon DEF Ending, Subscribing
<1>6. CASE S!Deregister(c)
  <2>1. connPhase[c] = "closed" /\ connPhase'[c] = "deregistered" /\ UNCHANGED disconnected
    BY <1>6, Zenon DEF S!Deregister, S!Goto, SessionsInv, S!TypeOK
  <2>2. hubDocs'[e] = IF subs[c][e] # NoSession THEN hubDocs[e] \ {c} ELSE hubDocs[e]
    BY <1>6, Zenon DEF S!Deregister, S!Subscriptions
  <2> QED
    BY <1>1, <1>2, <1>3, <1>4, <2>1, <2>2, Zenon DEF Ending, Subscribing
<1>7. CASE S!FireDisconnected(c)
  <2>1. connPhase[c] = "deregistered" /\ connPhase'[c] = "gone" /\ UNCHANGED hubDocs
    BY <1>7, Zenon DEF S!FireDisconnected, S!Goto, SessionsInv, S!TypeOK
  <2>2. ASSUME NEW s \in Session
        PROVE  <<b, e, s>> \in disconnected' <=>
                   <<b, e, s>> \in disconnected \/ (b = c /\ subs[b][e] = s)
    BY <1>7, Zenon DEF S!FireDisconnected, S!Subscriptions
  <2> QED
    BY <1>1, <1>2, <1>3, <1>4, <2>1, <2>2, Zenon DEF Ending, Subscribing
<1> QED
  BY <1>5, <1>6, <1>7, Zenon

\* What a step leaves of the types, of calls and broadcasts, and that a broadcast
\* spares whoever noted the author's session.
LEMMA CallStep ==
    ASSUME SessionsInv, S!Next
    PROVE  /\ S!TypeOK'
           /\ \A c \in Conn : connPhase'[c] \in {"new", "deregistered", "gone"} => call'[c] = NoSession
           /\ \A d \in Doc : Casting(d)'
           /\ NoEcho'
<1> DEFINE Idle == \A c \in Conn : connPhase[c] \in {"new", "deregistered", "gone"} => call[c] = NoSession
           Goal == S!TypeOK' /\ Idle' /\ (\A d \in Doc : Casting(d)') /\ NoEcho'
<1> USE SessionsAssumed DEF S!SessionsAssumption
<1>0. S!TypeOK /\ Idle /\ (\A d \in Doc : Casting(d)) /\ NoEcho
  BY Zenon DEF SessionsInv
<1>1. ASSUME NEW c \in Conn, S!Serve(c) \/ S!Close(c) \/ S!Deregister(c) PROVE Goal
  <2>1. CASE S!Serve(c)
    BY <1>0, <2>1 DEF S!Serve, S!Goto, S!TypeOK, Casting, NoEcho, S!NoEcho
  <2>2. CASE S!Close(c)
    BY <1>0, <2>2, Zenon DEF S!Close, S!Goto, S!TypeOK, Casting, NoEcho, S!NoEcho
  <2>3. CASE S!Deregister(c)
    <3>1. S!TypeOK'
      BY <1>0, <2>3, Zenon DEF S!Deregister, S!Goto, S!TypeOK
    <3> QED
      BY <1>0, <2>3, <3>1 DEF S!Deregister, S!Goto, S!TypeOK, Casting, NoEcho, S!NoEcho
  <2> QED
    BY <1>1, <2>1, <2>2, <2>3, Zenon
<1>2. ASSUME NEW c \in Conn, S!FireDisconnected(c) PROVE Goal
  <2>1. c \in Served /\ active # 0
    <3>1. c \in Served /\ IsFiniteSet(Served) /\ active = Cardinality(Served)
      BY <1>2, Zenon DEF S!FireDisconnected, Served, SessionsInv, Gauged
    <3> QED
      BY <3>1, FS_EmptySet, Zenon
  <2>2. disconnected' \subseteq S!Events
    BY <1>0, <1>2 DEF S!FireDisconnected, S!TypeOK, S!Events, S!Subscriptions
  <2>3. active' \in Nat
    <3>1. active \in Nat /\ active' = active - 1
      BY <1>0, <1>2, Zenon DEF S!FireDisconnected, S!TypeOK
    <3> QED
      BY <2>1, <3>1
  <2>4. S!TypeOK'
    BY <1>0, <1>2, <2>2, <2>3, Zenon DEF S!FireDisconnected, S!Goto, S!TypeOK
  <2> QED
    BY <1>0, <1>2, <2>4 DEF S!FireDisconnected, S!Goto, S!TypeOK, Casting, NoEcho, S!NoEcho
<1>3. ASSUME NEW c \in Conn, S!HubSubscribe(c) PROVE Goal
  <2>1. call[c].doc \in Doc /\ call[c].session \in Session
    BY <1>0, <1>3, Zenon DEF S!HubSubscribe, S!TypeOK
  <2>2. S!TypeOK'
    BY <1>0, <1>3, <2>1 DEF S!HubSubscribe, S!Return, S!TypeOK, S!Events
  <2>3. ASSUME NEW d \in Doc PROVE Casting(d)'
    BY <1>0, <1>3 DEF S!HubSubscribe, S!Return, S!TypeOK, Casting
  <2> QED
    BY <1>0, <1>3, <2>2, <2>3, Zenon DEF S!HubSubscribe, S!Return, S!TypeOK, NoEcho, S!NoEcho
<1>4. ASSUME NEW c \in Conn, S!SubmitFails(c) PROVE Goal
  <2>1. S!TypeOK' /\ Idle'
    BY <1>0, <1>4, Zenon DEF S!SubmitFails, S!Return, S!TypeOK
  <2>2. ASSUME NEW d \in Doc PROVE Casting(d)'
    BY <1>0, <1>4 DEF S!SubmitFails, S!Submitting, S!Return, S!TypeOK, Casting
  <2> QED
    BY <1>0, <1>4, <2>1, <2>2, Zenon DEF S!SubmitFails, NoEcho, S!NoEcho
<1>5. ASSUME NEW c \in Conn, S!Broadcast(c) PROVE Goal
  <2>1. call[c].doc \in Doc /\ call[c] # NoSession /\ call[c].type = "sync"
    BY <1>0, <1>5, Zenon DEF S!Broadcast, S!Submitting, S!TypeOK
  <2>2. S!TypeOK'
    BY <1>0, <1>5, <2>1, Zenon DEF S!Broadcast, S!TypeOK
  <2>3. ASSUME NEW d \in Doc PROVE Casting(d)'
    BY <1>0, <1>5, <2>1, Zenon DEF S!Broadcast, S!TypeOK, Casting
  <2> QED
    BY <1>0, <1>5, <2>2, <2>3, Zenon DEF S!Broadcast, NoEcho, S!NoEcho
<1>6. ASSUME NEW d \in Doc, NEW c \in Conn, S!Visit(d, c) PROVE Goal
  <2>1. Noting(c, d)
    BY Zenon DEF SessionsInv
  <2>2. echoed' = echoed
    BY <1>6, <2>1, Zenon DEF S!Visit, Noting
  <2>3. S!TypeOK'
    BY <1>0, <1>6, <2>2 DEF S!Visit, S!TypeOK
  <2>4. ASSUME NEW e \in Doc PROVE Casting(e)'
    BY <1>0, <1>6 DEF S!Visit, S!TypeOK, Casting
  <2> QED
    BY <1>0, <1>6, <2>2, <2>3, <2>4, Zenon DEF S!Visit, NoEcho, S!NoEcho
<1>7. ASSUME NEW d \in Doc, S!BroadcastDone(d) PROVE Goal
  <2>1. S!TypeOK' /\ Idle'
    BY <1>0, <1>7, Zenon DEF S!BroadcastDone, S!Return, S!TypeOK
  <2>2. ASSUME NEW e \in Doc PROVE Casting(e)'
    BY <1>0, <1>7 DEF S!BroadcastDone, S!Return, S!TypeOK, Casting
  <2> QED
    BY <1>0, <1>7, <2>1, <2>2, Zenon DEF S!BroadcastDone, NoEcho, S!NoEcho
<1>8. ASSUME NEW c \in Conn, NEW d \in Doc, NEW s \in Session,
             S!HandleSubscribe(c, d, s) \/ S!HandleSync(c, d, s)
      PROVE  Goal
  <2>1. S!TypeOK'
    <3>1. CASE S!HandleSubscribe(c, d, s)
      BY <1>0, <3>1 DEF S!HandleSubscribe, S!Message, S!TypeOK
    <3>2. CASE S!HandleSync(c, d, s)
      BY <1>0, <3>2 DEF S!HandleSync, S!Message, S!TypeOK
    <3> QED
      BY <1>8, <3>1, <3>2, Zenon
  <2>2. connPhase[c] = "open" /\ call[c] = NoSession /\ UNCHANGED <<connPhase, bc>>
    BY <1>8, Zenon DEF S!HandleSubscribe, S!HandleSync, S!Message
  <2>3. \A b \in Conn : b # c => call'[b] = call[b]
    BY <1>0, <1>8, Zenon DEF S!HandleSubscribe, S!HandleSync, S!Message, S!TypeOK
  <2>4. Idle'
    BY <1>0, <2>2, <2>3, Zenon
  <2>5. ASSUME NEW e \in Doc PROVE Casting(e)'
    BY <1>0, <2>2, <2>3 DEF S!TypeOK, Casting
  <2> QED
    BY <1>0, <1>8, <2>1, <2>4, <2>5, Zenon DEF S!HandleSubscribe, S!HandleSync, NoEcho, S!NoEcho
<1> HIDE DEF Idle
<1>9. Goal
  BY <1>1, <1>2, <1>3, <1>4, <1>5, <1>6, <1>7, <1>8, Zenon DEF S!Next
<1> QED
  BY <1>9, Zenon DEF Idle

\* The invariant holds in every state.
LEMMA SessionsInvariant == S!Spec => []SessionsInv
<1>1. S!Init => SessionsInv
  <2> SUFFICES ASSUME S!Init PROVE SessionsInv
    BY Zenon
  <2>1. Served = {}
    BY Zenon DEF S!Init, Served
  <2>2. Gauged
    BY <2>1, FS_EmptySet, Zenon DEF S!Init, Gauged
  <2>3. S!TypeOK
    BY SessionsAssumed DEF S!SessionsAssumption, S!Init, S!TypeOK
  <2>4. ASSUME NEW c \in Conn, NEW d \in Doc PROVE Noting(c, d) /\ Ending(c, d)
    BY SessionsAssumed, Zenon DEF S!SessionsAssumption, S!Init, Noting, Ending, Subscribing
  <2> QED
    BY <2>2, <2>3, <2>4, Zenon DEF S!Init, SessionsInv, Casting, NoEcho, S!NoEcho
<1>2. SessionsInv /\ [S!Next]_(S!vars) => SessionsInv'
  <2> SUFFICES ASSUME SessionsInv, [S!Next]_(S!vars) PROVE SessionsInv'
    BY Zenon
  <2>1. CASE UNCHANGED S!vars
    <3> USE <2>1 DEF S!vars
    <3>1. S!TypeOK'
      BY Zenon DEF SessionsInv, S!TypeOK
    <3>2. \A c \in Conn, d \in Doc : Noting(c, d)' /\ Ending(c, d)'
      <4> SUFFICES ASSUME NEW c \in Conn, NEW d \in Doc PROVE Noting(c, d)' /\ Ending(c, d)'
        BY Zenon
      <4>1. Noting(c, d) /\ Ending(c, d)
        BY Zenon DEF SessionsInv
      <4>2. /\ subs' = subs /\ used' = used /\ call' = call /\ hubDocs' = hubDocs
            /\ connPhase' = connPhase /\ connected' = connected /\ disconnected' = disconnected
        BY Zenon
      <4>3. Noting(c, d)'
        BY <4>1, <4>2, Zenon DEF Noting, Subscribing
      <4>4. Ending(c, d)'
        BY <4>1, <4>2, Zenon DEF Ending, Subscribing
      <4> QED
        BY <4>3, <4>4, Zenon
    <3>3. \A d \in Doc : Casting(d)'
      BY Zenon DEF SessionsInv, Casting
    <3>4. Gauged' /\ NoEcho'
      BY Zenon DEF SessionsInv, Gauged, Served, NoEcho, S!NoEcho
    <3> QED
      BY <3>1, <3>2, <3>3, <3>4, Zenon DEF SessionsInv
  <2>2. CASE S!Next
    <3>1. ASSUME NEW b \in Conn, NEW e \in Doc PROVE Noting(b, e)' /\ Ending(b, e)'
      BY <2>2, MessageStep, HubStep, SyncStep, LifeStep, Zenon DEF S!Next
    <3> QED
      BY <2>2, <3>1, CallStep, GaugeStep, Zenon DEF SessionsInv
  <2> QED
    BY <2>1, <2>2, Zenon
<1> QED
  BY <1>1, <1>2, PTL DEF S!Spec

\* No connection is sent a change of the only session it used for a document, for
\* any number of connections, documents and sessions (Broadcast, handleSync).
THEOREM EchoCorrect == S!Spec => []NoEcho
BY SessionsInvariant, SessionsImplies, PTL

\* A connection that ended is in no document's subscribers, its connected events
\* have their disconnected ones and the gauge no longer counts it (deregister,
\* fireDisconnected).
THEOREM TeardownCorrect == S!Spec => []TornDown
BY SessionsInvariant, SessionsImplies, PTL
=============================================================================
