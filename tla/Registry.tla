------------------------------ MODULE Registry ------------------------------
(***************************************************************************)
(* One process's entry in the Redis node registry (internal/cluster):      *)
(* register on joining, a heartbeat that refreshes the key before it       *)
(* expires, DEL on Close.  Time passes in units of opTimeout (5 seconds).  *)
(***************************************************************************)
EXTENDS Integers

CONSTANTS
    NodeTTL,            \* nodeTTL, in units
    HeartbeatInterval,  \* heartbeatInterval, in units
    MaxMissed           \* bound: commands in a row that are lost

\* A command is over within one unit (opTimeout), so a heartbeat ends before
\* the next one is due.
RegistryAssumption ==
    /\ NodeTTL \in Nat \ {0}
    /\ HeartbeatInterval \in Nat \ {0, 1}
    /\ MaxMissed \in Nat

VARIABLES
    state,    \* the process: "new", "up", "closing", "closed" or "dead"
    key,      \* units until the registry key expires, 0 when there is none
    nextBeat, \* units until the ticker fires
    set,      \* the SET under way: "none", "sent", or "orphan" after its sender left
    age,      \* how long it has been under way
    missed,   \* commands in a row that were lost
    gone      \* units since the process closed or died

vars == <<state, key, nextBeat, set, age, missed, gone>>

TypeOK ==
    /\ state \in {"new", "up", "closing", "closed", "dead"}
    /\ key \in 0..NodeTTL
    /\ nextBeat \in 0..HeartbeatInterval
    /\ set \in {"none", "sent", "orphan"}
    /\ age \in 0..1
    /\ missed \in 0..MaxMissed
    /\ gone \in 0..(NodeTTL + 1)

Init ==
    /\ state = "new"
    /\ key = 0
    /\ nextBeat = HeartbeatInterval
    /\ set = "none"
    /\ age = 0
    /\ missed = 0
    /\ gone = 0

\* New registers the node before it starts the heartbeat.
Join ==
    /\ state = "new"
    /\ state' = "up"
    /\ key' = NodeTTL
    /\ UNCHANGED <<nextBeat, set, age, missed, gone>>

\* Registering fails, and New gives up without a DEL: the SET may have taken effect,
\* its reply lost, or be on its way.
JoinFails ==
    /\ state = "new"
    /\ state' = "closed"
    /\ \/ key' = NodeTTL /\ UNCHANGED set
       \/ set' \in {"none", "orphan"} /\ UNCHANGED key
    /\ UNCHANGED <<nextBeat, age, missed, gone>>

\* The ticker fires: register sends SET with the TTL.
Beat ==
    /\ state = "up"
    /\ nextBeat = 0
    /\ set = "none"
    /\ set' = "sent"
    /\ age' = 0
    /\ nextBeat' = HeartbeatInterval
    /\ UNCHANGED <<state, key, missed, gone>>

\* Mutant: the TTL of the key is the heartbeat's interval.
SetAppliedShort ==
    /\ set # "none"
    /\ key' = HeartbeatInterval
    /\ set' = "none"
    /\ age' = 0
    /\ missed' = 0
    /\ UNCHANGED <<state, nextBeat, gone>>

\* Redis executes the SET, whether or not its sender still waits.
SetApplied ==
    /\ set # "none"
    /\ key' = NodeTTL
    /\ set' = "none"
    /\ age' = 0
    /\ missed' = IF state = "up" THEN 0 ELSE missed
    /\ UNCHANGED <<state, nextBeat, gone>>

\* The SET is lost, at the latest when opTimeout is over: a warning is logged.
SetFails ==
    /\ set # "none"
    /\ missed < MaxMissed
    /\ set' = "none"
    /\ age' = 0
    /\ missed' = missed + 1
    /\ UNCHANGED <<state, key, nextBeat, gone>>

\* The process dies without a word.
Die ==
    /\ state \in {"up", "closing"}
    /\ state' = "dead"
    /\ set' = IF set = "sent" THEN "orphan" ELSE set
    /\ UNCHANGED <<key, nextBeat, age, missed, gone>>

\* Close cancels the context: the heartbeat loop ends, a SET it has sent may
\* still be on its way.
Close ==
    /\ state = "up"
    /\ state' = "closing"
    /\ set' = IF set = "sent" THEN "orphan" ELSE set
    /\ UNCHANGED <<key, nextBeat, age, missed, gone>>

\* Then it deletes the key, or fails to and only logs that.
DeleteNode ==
    /\ state = "closing"
    /\ state' = "closed"
    /\ \/ key' = 0 /\ UNCHANGED missed
       \/ missed < MaxMissed /\ missed' = missed + 1 /\ UNCHANGED key
    /\ UNCHANGED <<nextBeat, set, age, gone>>

\* Mutant: keys do not expire.
PassForever ==
    /\ set = "none" \/ age = 0
    /\ state = "up" => nextBeat > 0
    /\ state # "new"
    /\ nextBeat' = IF state = "up" THEN nextBeat - 1 ELSE nextBeat
    /\ age' = IF set = "none" THEN 0 ELSE age + 1
    /\ gone' = IF state \in {"closed", "dead"} /\ gone <= NodeTTL THEN gone + 1 ELSE gone
    /\ UNCHANGED <<state, key, set, missed>>

\* A unit of time.  What is due happens first: the ticker and the timeout.
Pass ==
    /\ set = "none" \/ age = 0
    /\ state = "up" => nextBeat > 0
    /\ state # "new"
    /\ key' = IF key > 0 THEN key - 1 ELSE 0
    /\ nextBeat' = IF state = "up" THEN nextBeat - 1 ELSE nextBeat
    /\ age' = IF set = "none" THEN 0 ELSE age + 1
    /\ gone' = IF state \in {"closed", "dead"} /\ gone <= NodeTTL THEN gone + 1 ELSE gone
    /\ UNCHANGED <<state, set, missed>>

Next ==
    \/ Join \/ JoinFails \/ Beat \/ SetApplied \/ SetFails \/ Die \/ Close \/ DeleteNode \/ Pass

Spec == Init /\ [][Next]_vars
----------------------------------------------------------------------------
(* Properties.                                                             *)

\* The heartbeat is fast enough: a process that is up is listed, also when one
\* refresh got lost.
LiveListed == state = "up" /\ missed <= 1 => key > 0

\* A process that is gone disappears from the registry, at the latest one TTL
\* after the last command it sent was over.
GoneDisappears == state \in {"closed", "dead"} /\ gone > NodeTTL => key = 0
=============================================================================
