------------------------------ MODULE Delivery ------------------------------
(***************************************************************************)
(* How committed operations reach WebSocket clients on one server process, *)
(* for one document: the hub (internal/server/hub.go), a connection's read *)
(* and write loops (internal/server/connection.go), the admission of       *)
(* connections (internal/server/server.go) and Engine.Replay               *)
(* (internal/sync/replay.go).                                              *)
(*                                                                         *)
(* Submit is reduced to what the Engine module shows of it: operations get *)
(* consecutive seqs, and the mutex of the document is held from the commit *)
(* to the end of the broadcast.  A client device has one connection at a   *)
(* time, uses one session id, and remembers across connections which       *)
(* operations of others it got and the highest seq among them (its         *)
(* cursor); an ack does not move the cursor.                               *)
(***************************************************************************)
EXTENDS Naturals, Sequences, FiniteSets, FiniteSetsExt

CONSTANTS
    Client,        \* client devices; also their session ids
    Nil,
    QueueSize,     \* sendQueueSize
    ReplayBatch,   \* Options.ReplayBatchSize
    Setups,        \* the setups a behaviour may have, see setup
    MaxOps         \* bound: operations committed

ASSUME DeliveryNil ==
    /\ Nil \notin Client /\ \A T \in SUBSET Client : Nil # T
    /\ Nil \notin [by : Client, seq : Nat, targets : (SUBSET Client) \cup {Nil}]
ASSUME QueueSizeAssumption == QueueSize \in Nat \ {0}
ASSUME ReplayBatchAssumption == ReplayBatch \in Nat \ {0}
ASSUME SetupsAssumption ==
    Setups \subseteq [maxConns : Nat, storageFails : BOOLEAN, chatter : BOOLEAN]
ASSUME MaxOpsAssumption == MaxOps \in Nat

VARIABLES
    setup,     \* fixed: limits.MaxConnections (0 = unlimited), whether storage
               \* calls may fail, whether clients send pings and malformed messages
    log,       \* the committed operations: log[i] is the author of seq i, or Nil if
               \* its Submit returned an error all the same
    bc,        \* the Broadcast in progress, or Nil: [by, seq, targets]
    hubDocs,   \* hub.docs[doc]: the subscribed connections
    active,    \* hub.active
    phase,     \* a client's connection: "away", "auth" or "open"
    done,      \* conn.done is closed
    subs,      \* conn.subs[doc]: the session, or Nil
    queue,     \* conn.send
    pc,        \* where the connection's read loop is
    todo,      \* the operations a Replay read and the next batch to deliver
    seen,      \* the client: seqs it got in sync and replay frames
    base,      \* last_seq of its last subscribe on this connection
    lastLive,  \* the last live seq it got on this connection
    owed       \* is the client promised everything after base?

connVars   == <<phase, done, subs, queue, pc, todo>>
clientVars == <<seen, base, lastLive, owed>>
vars == <<setup, log, bc, hubDocs, active, connVars, clientVars>>

Seqs == 1..MaxOps

Frame ==
    [type : {"sync"}, seq : Seqs]
        \cup [type : {"replay"}, ops : SUBSET Seqs, done : BOOLEAN]
        \cup [type : {"ack", "error", "other"}]

TypeOK ==
    /\ setup \in Setups
    /\ log \in Seq(Client \cup {Nil}) /\ Len(log) <= MaxOps
    /\ bc = Nil \/ bc \in [by : Client, seq : Seqs, targets : (SUBSET Client) \cup {Nil}]
    /\ hubDocs \subseteq Client
    /\ active \in Nat
    /\ phase \in [Client -> {"away", "auth", "open"}]
    /\ done \in [Client -> BOOLEAN]
    /\ subs \in [Client -> Client \cup {Nil}]
    /\ queue \in [Client -> Seq(Frame)]
    /\ \A c \in Client : Len(queue[c]) <= QueueSize
    /\ pc \in [Client -> {"read", "load", "replay", "submit", "broadcast", "ack"}]
    /\ todo \in [Client -> [ops : Seq(Seqs), batch : Nat]]
    /\ seen \in [Client -> SUBSET Seqs]
    /\ base \in [Client -> 0..MaxOps]
    /\ lastLive \in [Client -> 0..MaxOps]
    /\ owed \in [Client -> BOOLEAN]

NoReplay == [ops |-> <<>>, batch |-> 0]

Init ==
    /\ setup \in Setups
    /\ log = <<>>
    /\ bc = Nil
    /\ hubDocs = {}
    /\ active = 0
    /\ phase = [c \in Client |-> "away"]
    /\ done = [c \in Client |-> FALSE]
    /\ subs = [c \in Client |-> Nil]
    /\ queue = [c \in Client |-> <<>>]
    /\ pc = [c \in Client |-> "read"]
    /\ todo = [c \in Client |-> NoReplay]
    /\ seen = [c \in Client |-> {}]
    /\ base = [c \in Client |-> 0]
    /\ lastLive = [c \in Client |-> 0]
    /\ owed = [c \in Client |-> FALSE]

\* The highest seq the client has: what it sends as last_seq.
Cursor(c) == Max(seen[c] \cup {0})
----------------------------------------------------------------------------
(* Admission and teardown.                                                 *)

\* tryRegister reserves a slot before authentication.
TryRegister(c) ==
    /\ phase[c] = "away"
    /\ setup.maxConns > 0 => active < setup.maxConns
    /\ active' = active + 1
    /\ phase' = [phase EXCEPT ![c] = "auth"]
    /\ UNCHANGED <<setup, log, bc, hubDocs, done, subs, queue, pc, todo, clientVars>>

\* Authentication or the upgrade fails: the deferred release returns the slot.
Release(c) ==
    /\ phase[c] = "auth"
    /\ active' = IF active > 0 THEN active - 1 ELSE active
    /\ phase' = [phase EXCEPT ![c] = "away"]
    /\ UNCHANGED <<setup, log, bc, hubDocs, done, subs, queue, pc, todo, clientVars>>

Accept(c) ==
    /\ phase[c] = "auth"
    /\ phase' = [phase EXCEPT ![c] = "open"]
    /\ UNCHANGED <<setup, log, bc, hubDocs, active, done, subs, queue, pc, todo, clientVars>>

\* conn.close, for a reason other than a full queue: the client left, a write
\* failed or a pong is missing.
Drop(c) ==
    /\ phase[c] = "open"
    /\ ~done[c]
    /\ done' = [done EXCEPT ![c] = TRUE]
    /\ UNCHANGED <<setup, log, bc, hubDocs, active, phase, subs, queue, pc, todo, clientVars>>

\* The broadcast under way, with the targets T still to visit.
Aimed(T) == [by |-> bc.by, seq |-> bc.seq, targets |-> T]

\* A connection that is gone is only a dead pointer in a broadcast's targets.
DropTarget(c) ==
    IF bc # Nil /\ bc.targets # Nil
    THEN Aimed(bc.targets \ {c})
    ELSE bc

\* Mutant: the connection stays in the hub.
DeregisterKeepsHub(c) ==
    /\ phase[c] = "open"
    /\ done[c]
    /\ pc[c] = "read"
    /\ active' = IF active > 0 THEN active - 1 ELSE active
    /\ phase' = [phase EXCEPT ![c] = "away"]
    /\ done' = [done EXCEPT ![c] = FALSE]
    /\ subs' = [subs EXCEPT ![c] = Nil]
    /\ queue' = [queue EXCEPT ![c] = <<>>]
    /\ bc' = DropTarget(c)
    /\ UNCHANGED <<setup, log, hubDocs, pc, todo, clientVars>>

\* The read loop sees the closed context and returns: serve deregisters.
Deregister(c) ==
    /\ phase[c] = "open"
    /\ done[c]
    /\ pc[c] = "read"
    /\ hubDocs' = IF subs[c] # Nil THEN hubDocs \ {c} ELSE hubDocs
    /\ active' = IF active > 0 THEN active - 1 ELSE active
    /\ phase' = [phase EXCEPT ![c] = "away"]
    /\ done' = [done EXCEPT ![c] = FALSE]
    /\ subs' = [subs EXCEPT ![c] = Nil]
    /\ queue' = [queue EXCEPT ![c] = <<>>]
    /\ bc' = DropTarget(c)
    /\ base' = [base EXCEPT ![c] = 0]
    /\ lastLive' = [lastLive EXCEPT ![c] = 0]
    /\ owed' = [owed EXCEPT ![c] = FALSE]
    /\ UNCHANGED <<setup, log, pc, todo, seen>>
----------------------------------------------------------------------------
(* The send queue.                                                         *)

\* Mutant: off by one.
FullLate(c) == ~done[c] /\ Len(queue[c]) > QueueSize

\* enqueueErr: after close nothing is queued; a full queue closes.
Full(c) == ~done[c] /\ Len(queue[c]) = QueueSize

\* Mutant: a slow client loses the frame and stays connected.
EnqueueDrops(c, frame) ==
    /\ queue' = IF done[c] \/ Full(c) THEN queue
                ELSE [queue EXCEPT ![c] = Append(@, frame)]
    /\ UNCHANGED done

\* Mutant: the send waits for room in the queue.
EnqueueBlocks(c, frame) ==
    /\ ~Full(c)
    /\ queue' = IF done[c] THEN queue ELSE [queue EXCEPT ![c] = Append(@, frame)]
    /\ UNCHANGED done

Enqueue(c, frame) ==
    /\ done' = [done EXCEPT ![c] = @ \/ Full(c)]
    /\ queue' = IF done[c] \/ Full(c) THEN queue
                ELSE [queue EXCEPT ![c] = Append(@, frame)]

\* The seqs a frame carries.
Carried(f) ==
    IF f.type = "sync" THEN {f.seq} ELSE IF f.type = "replay" THEN f.ops ELSE {}

\* The write loop hands the head of the queue to the client.
Write(c) ==
    LET f == Head(queue[c]) IN
    /\ phase[c] = "open"
    /\ ~done[c]
    /\ queue[c] # <<>>
    /\ queue' = [queue EXCEPT ![c] = Tail(@)]
    /\ seen' = [seen EXCEPT ![c] = @ \cup Carried(f)]
    /\ lastLive' = [lastLive EXCEPT ![c] = IF f.type = "sync" THEN f.seq ELSE @]
    /\ UNCHANGED <<setup, log, bc, hubDocs, active, phase, done, subs, pc, todo, base, owed>>
----------------------------------------------------------------------------
(* The read loop.                                                          *)

Reading(c) == phase[c] = "open" /\ ~done[c] /\ pc[c] = "read"

\* A ping is answered; a message that cannot be decoded or lacks its doc_id
\* gets an error.
HandleOther(c) ==
    /\ setup.chatter
    /\ Reading(c)
    /\ Enqueue(c, [type |-> "other"])
    /\ UNCHANGED <<setup, log, bc, hubDocs, active, phase, subs, pc, todo, clientVars>>

\* handleSubscribe up to Replay: subs, then hub.subscribe.  Nothing can see
\* the one without the other, since broadcasts start from hub.docs.
HandleSubscribe(c) ==
    /\ Reading(c)
    /\ subs' = [subs EXCEPT ![c] = c]
    /\ hubDocs' = hubDocs \cup {c}
    /\ pc' = [pc EXCEPT ![c] = "load"]
    /\ base' = [base EXCEPT ![c] = Cursor(c)]
    /\ owed' = [owed EXCEPT ![c] = TRUE]
    /\ UNCHANGED <<setup, log, bc, active, phase, done, queue, todo, seen, lastLive>>

\* Mutant: a subscriber that is up to date gets no batch.
ReplayLoadSilent(c) ==
    /\ pc[c] = "load"
    /\ todo' = [todo EXCEPT ![c] =
         [ops |-> [i \in 1..(IF base[c] < Len(log) THEN Len(log) - base[c] ELSE 0)
                     |-> base[c] + i],
          batch |-> 0]]
    /\ pc' = [pc EXCEPT ![c] = IF base[c] < Len(log) THEN "replay" ELSE "read"]
    /\ UNCHANGED <<setup, log, bc, hubDocs, active, phase, done, subs, queue, clientVars>>

\* Replay reads the operations after last_seq ...
ReplayLoad(c) ==
    /\ pc[c] = "load"
    /\ todo' = [todo EXCEPT ![c] =
         [ops |-> [i \in 1..(IF base[c] < Len(log) THEN Len(log) - base[c] ELSE 0)
                     |-> base[c] + i],
          batch |-> 0]]
    /\ pc' = [pc EXCEPT ![c] = "replay"]
    /\ UNCHANGED <<setup, log, bc, hubDocs, active, phase, done, subs, queue, clientVars>>

\* ... or fails to: the client is told, and stays subscribed.
ReplayFails(c) ==
    /\ setup.storageFails
    /\ pc[c] = "load"
    /\ Enqueue(c, [type |-> "error"])
    /\ pc' = [pc EXCEPT ![c] = "read"]
    /\ owed' = [owed EXCEPT ![c] = FALSE]
    /\ UNCHANGED <<setup, log, bc, hubDocs, active, phase, subs, todo, seen, base, lastLive>>

\* The number of batches: at least one, so that there is a done batch.
Total(n) ==
    LET total == (n + ReplayBatch - 1) \div ReplayBatch IN
    IF total = 0 THEN 1 ELSE total

\* The batch with index b of the operations s.
Batch(s, b) == SubSeq(s, b * ReplayBatch + 1, Min({(b + 1) * ReplayBatch, Len(s)}))

\* What a Replay still has to deliver.
Remaining(c) == Range(SubSeq(todo[c].ops, todo[c].batch * ReplayBatch + 1, Len(todo[c].ops)))

\* One deliver call.  A full queue has closed the connection and ends Replay.
ReplayDeliver(c) ==
    LET b == todo[c].batch
        last == b = Total(Len(todo[c].ops)) - 1 IN
    /\ pc[c] = "replay"
    /\ Enqueue(c, [type |-> "replay", ops |-> Range(Batch(todo[c].ops, b)), done |-> last])
    /\ IF last \/ Full(c)
       THEN pc' = [pc EXCEPT ![c] = "read"] /\ todo' = [todo EXCEPT ![c] = NoReplay]
       ELSE todo' = [todo EXCEPT ![c] = [ops |-> todo[c].ops, batch |-> b + 1]] /\ UNCHANGED pc
    /\ UNCHANGED <<setup, log, bc, hubDocs, active, phase, subs, clientVars>>

\* handleSync: the session is noted, the connection is not added to the hub.
HandleSync(c) ==
    /\ Reading(c)
    /\ Len(log) + Cardinality({d \in Client : pc[d] = "submit"}) < MaxOps
    /\ subs' = [subs EXCEPT ![c] = IF @ = Nil THEN c ELSE @]
    /\ pc' = [pc EXCEPT ![c] = "submit"]
    /\ UNCHANGED <<setup, log, bc, hubDocs, active, phase, done, queue, todo, clientVars>>

\* Submit returns an error.  When the reply to the commit was lost, the operation is
\* in the log, and nobody broadcasts it.
SubmitFails(c) ==
    /\ setup.storageFails
    /\ pc[c] = "submit"
    /\ \/ UNCHANGED log
       \/ bc = Nil /\ log' = Append(log, Nil)
    /\ Enqueue(c, [type |-> "error"])
    /\ pc' = [pc EXCEPT ![c] = "read"]
    /\ UNCHANGED <<setup, bc, hubDocs, active, phase, subs, todo, clientVars>>

\* Submit commits under the document's mutex and goes on to Broadcast.
Commit(c) ==
    /\ pc[c] = "submit"
    /\ bc = Nil
    /\ log' = Append(log, c)
    /\ bc' = [by |-> c, seq |-> Len(log) + 1, targets |-> Nil]
    /\ pc' = [pc EXCEPT ![c] = "broadcast"]
    /\ UNCHANGED <<setup, hubDocs, active, phase, done, subs, queue, todo, clientVars>>

\* hub.Broadcast copies the subscriber set under hub.mu ...
CopyTargets ==
    /\ bc # Nil
    /\ bc.targets = Nil
    /\ bc' = Aimed(hubDocs)
    /\ UNCHANGED <<setup, log, hubDocs, active, connVars, clientVars>>

\* Mutant: a target is visited again.
FanRepeats(c) ==
    /\ bc # Nil
    /\ bc.targets # Nil
    /\ c \in bc.targets
    /\ \/ bc' = Aimed(bc.targets \ {c})
       \/ UNCHANGED bc
    /\ IF subs[c] = log[bc.seq]
       THEN UNCHANGED <<done, queue>>
       ELSE Enqueue(c, [type |-> "sync", seq |-> bc.seq])
    /\ UNCHANGED <<setup, log, hubDocs, active, phase, subs, pc, todo, clientVars>>

\* ... and then queues the frame to one target after another, skipping the
\* author's session.
Fan(c) ==
    /\ bc # Nil
    /\ bc.targets # Nil
    /\ c \in bc.targets
    /\ bc' = Aimed(bc.targets \ {c})
    /\ IF subs[c] = log[bc.seq]
       THEN UNCHANGED <<done, queue>>
       ELSE Enqueue(c, [type |-> "sync", seq |-> bc.seq])
    /\ UNCHANGED <<setup, log, hubDocs, active, phase, subs, pc, todo, clientVars>>

\* Broadcast returns: the mutex is released.
BroadcastDone ==
    /\ bc # Nil
    /\ bc.targets = {}
    /\ bc' = Nil
    /\ pc' = [pc EXCEPT ![bc.by] = "ack"]
    /\ UNCHANGED <<setup, log, hubDocs, active, phase, done, subs, queue, todo, clientVars>>

\* handleSync queues the ack.
Ack(c) ==
    /\ pc[c] = "ack"
    /\ Enqueue(c, [type |-> "ack"])
    /\ pc' = [pc EXCEPT ![c] = "read"]
    /\ UNCHANGED <<setup, log, bc, hubDocs, active, phase, subs, todo, clientVars>>
----------------------------------------------------------------------------
\* The steps of the server's goroutines on behalf of one connection.
ServerStep(c) ==
    \/ ReplayLoad(c) \/ ReplayFails(c) \/ ReplayDeliver(c)
    \/ SubmitFails(c) \/ Commit(c) \/ Ack(c) \/ Fan(c) \/ Deregister(c)

Next ==
    \/ \E c \in Client :
         \/ TryRegister(c) \/ Release(c) \/ Accept(c) \/ Drop(c)
         \/ Write(c) \/ HandleOther(c) \/ HandleSubscribe(c) \/ HandleSync(c)
         \/ ServerStep(c)
    \/ CopyTargets \/ BroadcastDone

Spec == Init /\ [][Next]_vars

\* The goroutines of the server run: a connection's read loop inside Replay, and
\* the one that broadcasts.  Nothing is assumed of the write loops, which wait for
\* the clients' networks.
Fairness ==
    /\ \A c \in Client :
         WF_vars(ReplayLoad(c) \/ ReplayFails(c)) /\ WF_vars(ReplayDeliver(c)) /\ WF_vars(Fan(c))
    /\ WF_vars(CopyTargets)
    /\ WF_vars(BroadcastDone)

FairSpec == Spec /\ Fairness
----------------------------------------------------------------------------
(* Properties.                                                             *)

\* The seqs in the frames of a queue.
Queued(q) == UNION {Carried(q[i]) : i \in DOMAIN q}

\* Registering with the hub before reading the log leaves no gap: on an open
\* connection every operation after last_seq is with the client, in its queue,
\* about to be replayed, being broadcast to it, its own, or one whose Submit
\* reported an error.
NoGap ==
    \A c \in Client :
        phase[c] = "open" /\ ~done[c] /\ owed[c] /\ pc[c] # "load" =>
            \A i \in (base[c] + 1)..Len(log) :
                \/ i \in seen[c] \cup Queued(queue[c]) \cup Remaining(c)
                \/ bc # Nil /\ bc.seq = i /\ (bc.targets = Nil \/ c \in bc.targets)
                \/ log[i] \in {c, Nil}

\* The document's mutex reaches into the queues: the live operations a
\* connection is sent come in the order of their seqs, none of them twice.
LiveInOrder ==
    \A c \in Client :
        LET live == {i \in DOMAIN queue[c] : queue[c][i].type = "sync"} IN
        /\ \A i \in live : lastLive[c] < queue[c][i].seq
        /\ \A i, j \in live : i < j => queue[c][i].seq < queue[c][j].seq

\* hub.active counts exactly the connections that hold a slot, never more than
\* the limit, and the hub knows only served connections, so that no broadcast
\* goes to a connection that was torn down.
SlotsExact ==
    /\ active = Cardinality({c \in Client : phase[c] # "away"})
    /\ setup.maxConns > 0 => active <= setup.maxConns
    /\ \A c \in hubDocs : phase[c] = "open" /\ subs[c] # Nil

\* A broadcast always ends and frees the document's mutex, whatever the clients
\* do: no fairness is assumed of any write loop, so no slow client can hold it up.
BroadcastReturns == bc # Nil ~> bc = Nil

\* Every subscribe is answered: when handleSubscribe returns, a batch with done or,
\* if storage failed, an error is at the end of the queue, or the connection is
\* closed.
SubscribeAnswered ==
    \A c \in Client :
        pc[c] = "load" ~>
            \/ done[c]
            \/ /\ pc[c] = "read" /\ queue[c] # <<>>
               /\ LET f == queue[c][Len(queue[c])] IN
                  \/ f.type = "replay" /\ f.done
                  \/ f.type = "error" /\ setup.storageFails

\* The protocol document: a client that reconnects with the highest seq it has
\* receives exactly the operations it missed.  So once its Replay is delivered,
\* its queue is empty and no broadcast is under way, it has everything.
CatchUpComplete ==
    \A c \in Client :
        Reading(c) /\ owed[c] /\ queue[c] = <<>> /\ bc = Nil =>
            \A i \in 1..Len(log) : i \in seen[c] \/ log[i] = c
=============================================================================
