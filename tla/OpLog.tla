------------------------------- MODULE OpLog --------------------------------
(***************************************************************************)
(* What storage.Store promises about one document                          *)
(* (internal/storage/interface.go): an operation log whose entries get the *)
(* seqs 1, 2, 3, ..., a documents row that comes with the first write or   *)
(* before it, and snapshots keyed by seq.  Every call takes effect at one  *)
(* instant.  A caller learns the seq of its operation when AppendOp        *)
(* returns, unless the reply is lost.  The Engine module uses storage at   *)
(* this level of abstraction.                                              *)
(***************************************************************************)
EXTENDS Naturals, Sequences

CONSTANTS
    Session,    \* goroutines that may be inside a storage call
    Change,
    Seqs,       \* the seqs callers may name for a snapshot
    None        \* no seq

VARIABLES
    exists,     \* is there a documents row?
    log,        \* the operations in seq order
    snaps,      \* the seqs of the snapshots
    due         \* the seq a session's AppendOp got and has not returned yet

vars == <<exists, log, snaps, due>>

Init ==
    /\ exists = FALSE
    /\ log = <<>>
    /\ snaps = {}
    /\ due = [s \in Session |-> None]

\* AppendOp takes effect; the document is created on first write.
AppendOp(s, c) ==
    /\ due[s] = None
    /\ log' = Append(log, c)
    /\ exists' = TRUE
    /\ due' = [due EXCEPT ![s] = Len(log) + 1]
    /\ UNCHANGED snaps

\* It returns the seq, or an error.
Return(s) ==
    /\ due[s] # None
    /\ due' = [due EXCEPT ![s] = None]
    /\ UNCHANGED <<exists, log, snaps>>

\* It takes effect and returns an error at once: the reply to the commit was lost.
AppendReplyLost(c) ==
    /\ log' = Append(log, c)
    /\ exists' = TRUE
    /\ UNCHANGED <<snaps, due>>

\* The goroutines of a process that dies learn nothing.
Die(S) ==
    /\ due' = [s \in Session |-> IF s \in S THEN None ELSE due[s]]
    /\ UNCHANGED <<exists, log, snaps>>

SaveSnapshot(n) ==
    /\ exists
    /\ snaps' = snaps \cup {n}
    /\ UNCHANGED <<exists, log, due>>

CreateDocument ==
    /\ ~exists
    /\ exists' = TRUE
    /\ UNCHANGED <<log, snaps, due>>

\* The document goes with all of its operations and snapshots.
DeleteDocument ==
    /\ exists
    /\ exists' = FALSE
    /\ log' = <<>>
    /\ snaps' = {}
    /\ UNCHANGED due

Next ==
    \/ \E s \in Session : Return(s) \/ \E c \in Change : AppendOp(s, c)
    \/ \E c \in Change : AppendReplyLost(c)
    \/ \E S \in SUBSET Session : Die(S)
    \/ \E n \in Seqs : SaveSnapshot(n)
    \/ CreateDocument
    \/ DeleteDocument

Spec == Init /\ [][Next]_vars
=============================================================================
