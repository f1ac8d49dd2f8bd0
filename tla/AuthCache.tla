------------------------------ MODULE AuthCache -----------------------------
(***************************************************************************)
(* Webhook authentication with its decision cache                          *)
(* (internal/auth/webhook.go), for one token and document.  Several        *)
(* connections authenticate at once; the developer's endpoint decides each *)
(* call it gets as it likes, and its answer may come late or not at all.   *)
(***************************************************************************)
EXTENDS Integers

CONSTANTS
    Request,   \* connections that may be in Authenticate
    Nil,
    CacheTTL,  \* cacheTTL, 0 disables the cache
    Timeout,   \* client.Timeout
    MaxTime    \* bound: the clock

AuthAssumption ==
    /\ CacheTTL \in Nat /\ Timeout \in Nat \ {0} /\ MaxTime \in Nat
    /\ Nil \notin [allowed : BOOLEAN, at : Nat]

VARIABLES
    now,      \* the clock
    cache,    \* the cache entry, or Nil
    pc,       \* "idle", "call" or "reply"
    asked,    \* when a request was sent to the endpoint
    verdict,  \* what the endpoint decided for it, and when
    answer    \* the last answer of Authenticate, with the decision it rests on

vars == <<now, cache, pc, asked, verdict, answer>>

Verdict == [allowed : BOOLEAN, at : 0..MaxTime]

TypeOK ==
    /\ now \in 0..MaxTime
    /\ cache \in [verdict : Verdict, expires : 0..(MaxTime + CacheTTL)] \cup {Nil}
    /\ pc \in [Request -> {"idle", "call", "reply"}]
    /\ asked \in [Request -> 0..now]
    /\ verdict \in [Request -> Verdict \cup {Nil}]
    /\ answer \in [allowed : BOOLEAN, verdict : Verdict \cup {Nil}, time : 0..MaxTime] \cup {Nil}

Init ==
    /\ now = 0
    /\ cache = Nil
    /\ pc = [r \in Request |-> "idle"]
    /\ asked = [r \in Request |-> 0]
    /\ verdict = [r \in Request |-> Nil]
    /\ answer = Nil

\* Authenticate returns, on the ground of verdict v (Nil: no decision).
Answer(allowed, v) == answer' = [allowed |-> allowed, verdict |-> v, time |-> now]

Finish(r) ==
    /\ pc' = [pc EXCEPT ![r] = "idle"]
    /\ asked' = [asked EXCEPT ![r] = 0]
    /\ verdict' = [verdict EXCEPT ![r] = Nil]

\* lookup: an entry is good until its expiry has passed.
Fresh == CacheTTL > 0 /\ cache # Nil /\ now <= cache.expires

Hit(r) ==
    /\ pc[r] = "idle"
    /\ Fresh
    /\ Answer(cache.verdict.allowed, cache.verdict)
    /\ UNCHANGED <<now, cache, pc, asked, verdict>>

\* Mutant: the deadline is kept where the start of the call belongs.
MissDeadline(r) ==
    /\ pc[r] = "idle"
    /\ ~Fresh
    /\ cache' = Nil
    /\ pc' = [pc EXCEPT ![r] = "call"]
    /\ asked' = [asked EXCEPT ![r] = now + Timeout]
    /\ UNCHANGED <<now, verdict, answer>>

\* Otherwise an expired entry is dropped and the endpoint is called.
Miss(r) ==
    /\ pc[r] = "idle"
    /\ ~Fresh
    /\ cache' = Nil
    /\ pc' = [pc EXCEPT ![r] = "call"]
    /\ asked' = [asked EXCEPT ![r] = now]
    /\ UNCHANGED <<now, verdict, answer>>

\* The endpoint decides.
Decide(r, allowed) ==
    /\ pc[r] = "call"
    /\ pc' = [pc EXCEPT ![r] = "reply"]
    /\ verdict' = [verdict EXCEPT ![r] = [allowed |-> allowed, at |-> now]]
    /\ UNCHANGED <<now, cache, asked, answer>>

\* store
Store(v) ==
    cache' = IF CacheTTL > 0 THEN [verdict |-> v, expires |-> now + CacheTTL] ELSE cache

\* The reply arrives: 200 with allowed, or a denial.  Both are cached.
Reply(r) ==
    /\ pc[r] = "reply"
    /\ Store(verdict[r])
    /\ Answer(verdict[r].allowed, verdict[r])
    /\ Finish(r)
    /\ UNCHANGED now

\* A transport error, the timeout, or a body that cannot be decoded: an error,
\* and nothing is cached.
CallFails(r) ==
    /\ pc[r] \in {"call", "reply"}
    /\ Answer(FALSE, Nil)
    /\ Finish(r)
    /\ UNCHANGED <<now, cache>>

\* Mutant: the client has no timeout.
PassUnbounded ==
    /\ now < MaxTime
    /\ now' = now + 1
    /\ UNCHANGED <<cache, pc, asked, verdict, answer>>

\* Time passes, up to the timeout of a call.
Pass ==
    /\ now < MaxTime
    /\ \A r \in Request : pc[r] # "idle" => now < asked[r] + Timeout
    /\ now' = now + 1
    /\ UNCHANGED <<cache, pc, asked, verdict, answer>>

Next ==
    \/ \E r \in Request :
         \/ Hit(r) \/ Miss(r) \/ Reply(r) \/ CallFails(r)
         \/ \E allowed \in BOOLEAN : Decide(r, allowed)
    \/ Pass

Spec == Init /\ [][Next]_vars
----------------------------------------------------------------------------
(* Properties.                                                             *)

\* A connection is let in only on a decision of the endpoint to allow it, taken
\* at most a call's timeout and a TTL ago: however replies overtake each other,
\* the cache cannot keep an older one alive.
AllowGrounded ==
    answer # Nil /\ answer.allowed =>
        /\ answer.verdict # Nil
        /\ answer.verdict.allowed
        /\ answer.time <= answer.verdict.at + Timeout + CacheTTL
=============================================================================
