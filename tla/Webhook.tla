------------------------------- MODULE Webhook ------------------------------
(***************************************************************************)
(* Delivery of event webhooks (internal/webhook/dispatcher.go): Emit       *)
(* starts a goroutine per event that posts it, with retries, to an         *)
(* endpoint that may answer, refuse, hang, or answer too late.             *)
(***************************************************************************)
EXTENDS Naturals, FiniteSets

CONSTANTS
    Event,        \* the events emitted in a run
    Configured,   \* those that have a URL
    MaxRetries    \* Config.MaxRetries

WebhookAssumption == Configured \subseteq Event /\ MaxRetries \in Nat

VARIABLES
    state,     \* a delivery: "none", "post", "backoff", "ok", "failed"
    attempt,   \* deliver's loop variable
    received,  \* the endpoint: how often it handled the event
    calls,     \* metrics: WebhookCall
    errors     \* metrics: WebhookError

vars == <<state, attempt, received, calls, errors>>

Attempts == MaxRetries + 1

TypeOK ==
    /\ state \in [Event -> {"none", "post", "backoff", "ok", "failed"}]
    /\ attempt \in [Event -> 0..Attempts]
    /\ received \in [Event -> Nat]
    /\ calls \in Nat
    /\ errors \in Nat

Init ==
    /\ state = [e \in Event |-> "none"]
    /\ attempt = [e \in Event |-> 0]
    /\ received = [e \in Event |-> 0]
    /\ calls = 0
    /\ errors = 0

\* Emit skips an event without a URL; otherwise deliver starts.
Emit(e) ==
    /\ state[e] = "none"
    /\ e \in Configured
    /\ state' = [state EXCEPT ![e] = "post"]
    /\ attempt' = [attempt EXCEPT ![e] = 1]
    /\ calls' = calls + 1
    /\ UNCHANGED <<received, errors>>

\* A 2xx within the timeout ends the delivery.
PostSucceeds(e) ==
    /\ state[e] = "post"
    /\ received' = [received EXCEPT ![e] = @ + 1]
    /\ state' = [state EXCEPT ![e] = "ok"]
    /\ UNCHANGED <<attempt, calls, errors>>

\* Mutant: one retry too few.
ExhaustedEarly(n) == n >= MaxRetries

\* The last attempt.
Exhausted(n) == n = Attempts

\* Mutant: an exhausted delivery is only logged.
PostFailsUncounted(e) ==
    /\ state[e] = "post"
    /\ received' \in {received, [received EXCEPT ![e] = @ + 1]}
    /\ state' = [state EXCEPT ![e] = IF Exhausted(attempt[e]) THEN "failed" ELSE "backoff"]
    /\ UNCHANGED <<attempt, calls, errors>>

\* A transport error, a timeout or another status, whether or not the endpoint
\* handled the event.
PostFails(e) ==
    /\ state[e] = "post"
    /\ received' \in {received, [received EXCEPT ![e] = @ + 1]}
    /\ IF Exhausted(attempt[e])
       THEN /\ state' = [state EXCEPT ![e] = "failed"]
            /\ errors' = errors + 1
       ELSE /\ state' = [state EXCEPT ![e] = "backoff"]
            /\ UNCHANGED errors
    /\ UNCHANGED <<attempt, calls>>

\* Mutant: the loop ends one attempt early, with neither outcome.
RetryShort(e) ==
    /\ state[e] = "backoff"
    /\ attempt[e] + 1 < Attempts
    /\ state' = [state EXCEPT ![e] = "post"]
    /\ attempt' = [attempt EXCEPT ![e] = @ + 1]
    /\ UNCHANGED <<received, calls, errors>>

\* The sleep is over.
Retry(e) ==
    /\ state[e] = "backoff"
    /\ state' = [state EXCEPT ![e] = "post"]
    /\ attempt' = [attempt EXCEPT ![e] = @ + 1]
    /\ UNCHANGED <<received, calls, errors>>

Deliver(e) == PostSucceeds(e) \/ PostFails(e) \/ Retry(e)

Next == \E e \in Event : Emit(e) \/ Deliver(e)

Spec == Init /\ [][Next]_vars
----------------------------------------------------------------------------
(* Properties.                                                             *)

\* A delivery is given up only after MaxRetries + 1 attempts, as the webhook
\* document has it, and the endpoint handles an event at most that often, at
\* least once when the delivery succeeded.
AttemptsExact ==
    \A e \in Event :
        /\ state[e] = "failed" => attempt[e] = Attempts
        /\ received[e] <= attempt[e]
        /\ state[e] = "ok" => received[e] >= 1

\* The metrics account for every delivery: what was started succeeded, is
\* under way, or is counted as an error.
MetricsBalance ==
    calls = errors + Cardinality({e \in Event : state[e] \in {"post", "backoff", "ok"}})

\* Every delivery comes to an end, whatever the endpoint does.
DeliverySettles ==
    \A e \in Event : state[e] = "post" ~> state[e] \in {"ok", "failed"}
=============================================================================
