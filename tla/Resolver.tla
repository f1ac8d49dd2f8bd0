------------------------------ MODULE Resolver ------------------------------
(***************************************************************************)
(* A document with a conflict resolver (internal/sync/engine.go            *)
(* applyChange, internal/crdt/resolver.go, internal/crdt/automerge.go).    *)
(*                                                                         *)
(* A document is the set of Automerge changes it holds; a change depends   *)
(* on the heads its author saw and shows once everything it depends on is  *)
(* there.  The endpoint is asked when a change leaves more than one head,  *)
(* and any document it returns replaces the cached one, while the log and  *)
(* the broadcast carry the client's change.  A Submit holds the document's *)
(* mutex from the merge to the broadcast, so it is one step here, with the *)
(* outcome of each of its calls chosen; Engine has the interleavings.      *)
(***************************************************************************)
EXTENDS Naturals, FiniteSets, Sequences, Functions

CONSTANTS
    Client,
    Nil,
    SnapshotEvery,
    MaxChanges,     \* bound: changes clients make
    MaxOwn,         \* bound: changes the endpoint makes
    MaxSubmits      \* bound: Submit calls

ResolverAssumption ==
    /\ Nil \notin Client
    /\ SnapshotEvery \in Nat
    /\ MaxChanges \in Nat
    /\ MaxOwn \in Nat
    /\ MaxSubmits \in Nat

VARIABLES
    made,     \* the changes that exist: author (Nil: the endpoint) and deps
    seen,     \* per client: the number of log entries it has received
    doc,      \* the cached document, or Nil while it is not in memory
    log,      \* the op log
    snap,     \* the latest snapshot: its state and its sequence number
    submits,  \* Submit calls so far
    acked,    \* history: the changes whose Submit returned a sequence number
    leftOut   \* history: the changes that documents of the endpoint's left out of
              \* the cached document, and of the snapshot

vars == <<made, seen, doc, log, snap, submits, acked, leftOut>>

Change == DOMAIN made

\* The changes a document shows: the ones whose history it holds.
Shown(s) == {x \in s : made[x].past \subseteq s}

\* Doc.Heads: what is shown and nothing shown depends on.
Heads(s) == {x \in Shown(s) : \A y \in Shown(s) : x \notin made[y].past \/ x = y}

TypeOK ==
    /\ made \in Seq([author : Client \cup {Nil}, past : SUBSET Nat])
    /\ seen \in [Client -> 0..Len(log)]
    /\ doc = Nil \/ doc \subseteq Change
    /\ log \in Seq(Change)
    /\ snap.state \subseteq Change /\ snap.seq \in 0..Len(log)
    /\ submits \in 0..MaxSubmits
    /\ acked \subseteq Change
    /\ leftOut \in [doc : SUBSET Change, snap : SUBSET Change]

Init ==
    /\ made = <<>>
    /\ seen = [c \in Client |-> 0]
    /\ doc = Nil
    /\ log = <<>>
    /\ snap = [state |-> {}, seq |-> 0]
    /\ submits = 0
    /\ acked = {}
    /\ leftOut = [doc |-> {}, snap |-> {}]
----------------------------------------------------------------------------
(* Clients.                                                                *)

Own(c) == {x \in Change : made[x].author = c}

\* What a client's copy of the document holds.
View(c) == Own(c) \cup Range(SubSeq(log, 1, seen[c]))

\* A client edits its copy.
Edit(c) ==
    /\ Cardinality({x \in Change : made[x].author # Nil}) < MaxChanges
    /\ made' = Append(made, [author |-> c, past |-> Shown(View(c))])
    /\ UNCHANGED <<seen, doc, log, snap, submits, acked, leftOut>>

\* A client receives the rest of the log, by broadcast or by replay.
Receive(c) ==
    /\ seen[c] < Len(log)
    /\ seen' = [seen EXCEPT ![c] = Len(log)]
    /\ UNCHANGED <<made, doc, log, snap, submits, acked, leftOut>>
----------------------------------------------------------------------------
(* The server.                                                             *)

\* loadDoc and Rehydrate: the snapshot, and the ops after it.
Rehydrate == snap.state \cup Range(SubSeq(log, snap.seq + 1, Len(log)))

\* engine.state: the cached document, or what storage has.
State == IF doc = Nil THEN Rehydrate ELSE doc

\* applyChange asks the endpoint only about a change that leaves several heads
\* in a document that had some.
Consulted(before, x) ==
    /\ Heads(before) # {}
    /\ Cardinality(Heads(before \cup {x})) > 1

\* What the endpoint may do: fail, return bytes that are no document, or return a
\* document of any changes there are, with or without a new one of its own.  It need
\* not hold the change, nor what the server had.
Replies ==
    {[result |-> r, state |-> {}, own |-> FALSE] : r \in {"error", "garbage"}}
    \cup {r \in [result : {"document"}, state : SUBSET Change, own : BOOLEAN] :
             r.own => Cardinality(Own(Nil)) < MaxOwn}

\* Resolver.Resolve returns an error after a timeout, a status other than 2xx or a
\* reply it cannot decode, and crdt.Load one for bytes that are no document.
Resolve(reply) == reply.result # "error"
Load(reply) == reply.result # "garbage"

Resolved(before, x, reply) == Consulted(before, x) /\ Resolve(reply) /\ Load(reply)

\* The endpoint's document, and the change it may have made.
Returned(reply) ==
    IF reply.own
    THEN [state |-> reply.state \cup {Len(made) + 1},
          made |-> Append(made, [author |-> Nil, past |-> Shown(reply.state)])]
    ELSE [state |-> reply.state, made |-> made]

\* Mutant: a failed call falls back to the document before the change.
ApplyChangeRevert(before, x, reply) ==
    CASE Resolved(before, x, reply) -> Returned(reply)
      [] ~Consulted(before, x) -> [state |-> before \cup {x}, made |-> made]
      [] OTHER -> [state |-> before, made |-> made]

\* applyChange merges the change; what the endpoint returns then replaces the
\* document, unless the call or the load fails.
ApplyChange(before, x, reply) ==
    IF Resolved(before, x, reply)
    THEN Returned(reply)
    ELSE [state |-> before \cup {x}, made |-> made]

\* History: what is left out of State, and of the document after a Submit.
Missing == IF doc = Nil THEN leftOut.snap ELSE leftOut.doc

LeftOut(x, reply) ==
    IF Resolved(State, x, reply)
    THEN (Missing \cup State \cup {x}) \ reply.state
    ELSE Missing \ {x}

\* Submit of a change, for the first time or again, whose AppendOp fails, before
\* the commit or after it, its reply lost: the document keeps the merge.
SubmitFails(x, reply) ==
    LET applied == ApplyChange(State, x, reply) IN
    /\ submits < MaxSubmits
    /\ submits' = submits + 1
    /\ doc' = applied.state
    /\ made' = applied.made
    /\ log' \in {log, Append(log, x)}
    /\ leftOut' = [leftOut EXCEPT !.doc = LeftOut(x, reply)]
    /\ UNCHANGED <<seen, snap, acked>>

\* Submit that commits: the log has the client's change, the snapshot, when one
\* is due and is saved, has the document.
Submit(x, reply, saved) ==
    LET seq == Len(log) + 1
        due == SnapshotEvery > 0 /\ seq % SnapshotEvery = 0
        applied == ApplyChange(State, x, reply)
        out == LeftOut(x, reply) IN
    /\ submits < MaxSubmits
    /\ submits' = submits + 1
    /\ doc' = applied.state
    /\ made' = applied.made
    /\ log' = Append(log, x)
    /\ snap' = IF due /\ saved THEN [state |-> doc', seq |-> seq] ELSE snap
    /\ leftOut' = [doc |-> out, snap |-> IF due /\ saved THEN out ELSE leftOut.snap]
    /\ acked' = acked \cup {x}
    /\ UNCHANGED seen

\* The process restarts, or the document is forgotten.
Restart ==
    /\ doc # Nil
    /\ doc' = Nil
    /\ leftOut' = [leftOut EXCEPT !.doc = {}]
    /\ UNCHANGED <<made, seen, log, snap, submits, acked>>

Next ==
    \/ \E c \in Client : Edit(c) \/ Receive(c)
    \/ \E x \in Change, reply \in Replies :
         /\ made[x].author # Nil
         /\ SubmitFails(x, reply) \/ \E saved \in BOOLEAN : Submit(x, reply, saved)
    \/ Restart

Spec == Init /\ [][Next]_vars
----------------------------------------------------------------------------
\* A change whose Submit returned is in the log, whatever the endpoint did.  If its
\* history was submitted as well it shows in the document the server has in memory,
\* unless a document the endpoint returned left it or its history out and it was
\* not submitted again since; and it shows in the document a restart would load,
\* unless such a document was snapshotted.
AckedShown ==
    \A x \in acked :
        LET needed == {x} \cup made[x].past IN
        /\ x \in Range(log)
        /\ needed \subseteq acked /\ needed \cap leftOut.doc = {} /\ doc # Nil => x \in Shown(doc)
        /\ needed \subseteq acked /\ needed \cap leftOut.snap = {} => x \in Shown(Rehydrate)
=============================================================================
