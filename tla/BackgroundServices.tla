------------------------- MODULE BackgroundServices -------------------------
(***************************************************************************)
(* The node registry, event webhooks, webhook authentication and the       *)
(* process as MCBackground composes them: the names of their state there,  *)
(* and what each promises.                                                 *)
(***************************************************************************)
CONSTANTS
    NodeTTL, HeartbeatInterval, MaxMissed,    \* Registry
    Event, Configured, MaxRetries,            \* Webhook
    Request, Nil, CacheTTL, Timeout, MaxTime, \* AuthCache
    Rest, Socket, ClusterMode, CloseWaits,    \* Process
    MaxCalls

VARIABLES
    state, key, nextBeat, set, age, missed, gone,
    delivery, attempt, received, calls, errors,
    now, cache, pc, asked, verdict, answer,
    stage, waits, cancelled, store, node, job, jobCalls, stopped, gaveUp, refused

R == INSTANCE Registry
W == INSTANCE Webhook WITH state <- delivery
A == INSTANCE AuthCache
E == INSTANCE Process WITH calls <- jobCalls

ASSUME RegistryAssumed == R!RegistryAssumption
ASSUME WebhookAssumed == W!WebhookAssumption
ASSUME AuthAssumed == A!AuthAssumption
ASSUME ProcessAssumed == E!ProcessAssumption
----------------------------------------------------------------------------
(* Properties.                                                             *)

\* A process that is up is listed, also when one refresh got lost
\* (heartbeatLoop).
LiveListed == R!LiveListed

\* A process that closed or died is off the registry one TTL later (Close,
\* register).
GoneDisappears == R!GoneDisappears

\* A delivery is given up after MaxRetries + 1 attempts and no earlier, and the
\* endpoint handles an event at most that often (deliver).
AttemptsExact == W!AttemptsExact

\* The webhook metrics account for every delivery (Emit, deliver).
MetricsBalance == W!MetricsBalance

\* A connection is let in only on a decision to allow it that is at most a
\* timeout and a cache TTL old (Authenticate).
AllowGrounded == A!AllowGrounded

\* A REST request that was accepted meets an open store unless the shutdown
\* timeout passed or the listener broke (run).
RestServed == E!RestServed

\* A process that failed to start, or exited, released what it had acquired
\* (newFromConfig, Close).
Released == E!Released
=============================================================================
