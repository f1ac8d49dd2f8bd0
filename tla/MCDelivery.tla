----------------------------- MODULE MCDelivery -----------------------------
(* Instances of Delivery for TLC.                                          *)
EXTENDS Delivery, TLC

\* Clients are interchangeable.
Symmetry == Permutations(Client)

\* Storage answers and nothing limits the number of connections.
Plain == {[maxConns |-> 0, storageFails |-> FALSE, chatter |-> FALSE]}

\* That, or clients that come one at a time to storage that may fail.
Faulty == Plain \cup {[maxConns |-> 1, storageFails |-> TRUE, chatter |-> FALSE]}

\* Storage answers, or two clients that compete for one slot, with everything that
\* can happen to a connection.
Mixed == Plain \cup {[maxConns |-> 1, storageFails |-> TRUE, chatter |-> TRUE]}
=============================================================================
