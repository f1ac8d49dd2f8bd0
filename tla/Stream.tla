------------------------------- MODULE Stream -------------------------------
(***************************************************************************)
(* What Submit promises the Broadcaster (internal/sync/engine.go) about    *)
(* the operations of one document, and all that Delivery and Cluster       *)
(* assume of the engine: a process broadcasts one operation at a time, the *)
(* one it has just committed, and commits no other until Broadcast has     *)
(* returned.                                                               *)
(***************************************************************************)
EXTENDS Naturals

CONSTANT Node   \* server processes

VARIABLES
    len,     \* the length of the operation log
    sending  \* per process: the seqs it is broadcasting

vars == <<len, sending>>

Init ==
    /\ len = 0
    /\ sending = [n \in Node |-> {}]

\* AppendOp has committed on process n, which then broadcasts the operation.
Commit(n) ==
    /\ sending[n] = {}
    /\ len' = len + 1
    /\ sending' = [sending EXCEPT ![n] = {len + 1}]

\* AppendOp has committed and reported an error: nobody broadcasts the operation.
CommitReplyLost ==
    /\ len' = len + 1
    /\ UNCHANGED sending

\* Broadcast has returned, or the process has died.
Sent(n) ==
    /\ sending[n] # {}
    /\ sending' = [sending EXCEPT ![n] = {}]
    /\ UNCHANGED len

\* The document is deleted while no operation of it is being broadcast.
Delete ==
    /\ \A n \in Node : sending[n] = {}
    /\ len' = 0
    /\ UNCHANGED sending

Next == CommitReplyLost \/ Delete \/ \E n \in Node : Commit(n) \/ Sent(n)

Spec == Init /\ [][Next]_vars
=============================================================================
