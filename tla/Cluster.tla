------------------------------- MODULE Cluster ------------------------------
(***************************************************************************)
(* Operations of one document crossing between server processes over Redis *)
(* pub/sub (internal/cluster/node.go, redis.go), and how a process follows *)
(* the document's channel as local connections come and go                 *)
(* (internal/server/hub.go, the SubscriptionObserver).                     *)
(*                                                                         *)
(* The store is shared: commits of all processes go to one log.  A         *)
(* connection's queue is left to the Delivery module: here a delivery is   *)
(* immediate.  Redis is external: commands on a process's one pub/sub      *)
(* connection take effect in the order they were sent, a message goes to   *)
(* the processes that follow the channel at that moment, and each process  *)
(* gets its messages in order.                                             *)
(***************************************************************************)
EXTENDS Naturals, Sequences, FiniteSets, Functions

CONSTANTS
    Node,         \* server processes
    Conn,         \* WebSocket connections
    Nil,
    RedisFails,   \* may PUBLISH fail?
    StoreFails,   \* may the reply to a commit be lost?
    MaxOps,       \* bound: operations committed
    MaxCommands   \* bound: pub/sub commands on the way to Redis, per process

ASSUME FailsAssumption == RedisFails \in BOOLEAN /\ StoreFails \in BOOLEAN
ASSUME BoundsAssumption == MaxOps \in Nat /\ MaxCommands \in Nat \ {0}

VARIABLES
    log,       \* the shared log: log[i] is the process that committed seq i, or
               \* Nil if its Submit returned an error all the same
    pub,       \* the commit a process is broadcasting, or Nil
    local,     \* hub.docs[doc] of each process
    commands,  \* SUBSCRIBE and UNSUBSCRIBE on the way to Redis
    channel,   \* Redis: the processes that follow the channel
    inbox,     \* messages on the way from Redis, per process
    late,      \* publishes given up by their process and still on the way
    troubled,  \* processes one of whose publishes failed or was sent again
    pc,        \* where a connection's goroutine is
    at,        \* the process that serves it
    replayed,  \* the seqs its Replay delivered
    live       \* the seqs it was sent live, in order

connVars == <<pc, at, replayed, live>>
vars == <<log, pub, local, commands, channel, inbox, late, troubled, connVars>>

Message == [origin : Node, seq : 1..MaxOps]
Broadcasting == [seq : 1..MaxOps, next : {"local", "publish"}]

ASSUME ClusterNil == Nil \notin Node \cup Broadcasting

TypeOK ==
    /\ log \in Seq(Node \cup {Nil}) /\ Len(log) <= MaxOps
    /\ pub \in [Node -> Broadcasting \cup {Nil}]
    /\ local \in [Node -> SUBSET Conn]
    /\ commands \in [Node -> Seq({"subscribe", "unsubscribe"})]
    /\ channel \subseteq Node
    /\ inbox \in [Node -> Seq(Message)]
    /\ late \subseteq Message
    /\ troubled \subseteq Node
    /\ pc \in [Conn -> {"away", "active", "load", "on", "inactive"}]
    /\ at \in [Conn -> Node \cup {Nil}]
    /\ replayed \in [Conn -> SUBSET (1..MaxOps)]
    /\ live \in [Conn -> Seq(1..MaxOps)]

Init ==
    /\ log = <<>>
    /\ pub = [n \in Node |-> Nil]
    /\ local = [n \in Node |-> {}]
    /\ commands = [n \in Node |-> <<>>]
    /\ channel = {}
    /\ inbox = [n \in Node |-> <<>>]
    /\ late = {}
    /\ troubled = {}
    /\ pc = [c \in Conn |-> "away"]
    /\ at = [c \in Conn |-> Nil]
    /\ replayed = [c \in Conn |-> {}]
    /\ live = [c \in Conn |-> <<>>]
----------------------------------------------------------------------------
(* Connections come and go.                                                *)

\* hub.subscribe under hub.mu; the first one is to call the observer.
Subscribe(c, n) ==
    /\ pc[c] = "away"
    /\ at' = [at EXCEPT ![c] = n]
    /\ local' = [local EXCEPT ![n] = @ \cup {c}]
    /\ pc' = [pc EXCEPT ![c] = IF local[n] = {} THEN "active" ELSE "load"]
    /\ UNCHANGED <<log, pub, commands, channel, inbox, late, troubled, replayed, live>>

\* OnDocActive, outside hub.mu: SUBSCRIBE is sent and not awaited.  An error is
\* logged and no more: the client library sends the command when it has a
\* connection again, so here it stays on its way.
OnDocActive(c) ==
    /\ pc[c] = "active"
    /\ Len(commands[at[c]]) < MaxCommands
    /\ commands' = [commands EXCEPT ![at[c]] = Append(@, "subscribe")]
    /\ pc' = [pc EXCEPT ![c] = "load"]
    /\ UNCHANGED <<log, pub, local, channel, inbox, late, troubled, at, replayed, live>>

\* Replay of everything in the log.
Replay(c) ==
    /\ pc[c] = "load"
    /\ replayed' = [replayed EXCEPT ![c] = DOMAIN log]
    /\ pc' = [pc EXCEPT ![c] = "on"]
    /\ UNCHANGED <<log, pub, local, commands, channel, inbox, late, troubled, at, live>>

\* hub.deregister under hub.mu; the last one is to call the observer.
Deregister(c) ==
    LET left == local[at[c]] \ {c} IN
    /\ pc[c] = "on"
    /\ local' = [local EXCEPT ![at[c]] = left]
    /\ pc' = [pc EXCEPT ![c] = IF left = {} THEN "inactive" ELSE "away"]
    /\ at' = [at EXCEPT ![c] = IF left = {} THEN @ ELSE Nil]
    /\ replayed' = [replayed EXCEPT ![c] = {}]
    /\ live' = [live EXCEPT ![c] = <<>>]
    /\ UNCHANGED <<log, pub, commands, channel, inbox, late, troubled>>

\* OnDocInactive, outside hub.mu: UNSUBSCRIBE, in the same way.
OnDocInactive(c) ==
    /\ pc[c] = "inactive"
    /\ Len(commands[at[c]]) < MaxCommands
    /\ commands' = [commands EXCEPT ![at[c]] = Append(@, "unsubscribe")]
    /\ pc' = [pc EXCEPT ![c] = "away"]
    /\ at' = [at EXCEPT ![c] = Nil]
    /\ UNCHANGED <<log, pub, local, channel, inbox, late, troubled, replayed, live>>

\* Redis executes the next command of a process's pub/sub connection.
RedisCommand(n) ==
    /\ commands[n] # <<>>
    /\ channel' = IF Head(commands[n]) = "subscribe" THEN channel \cup {n}
                  ELSE channel \ {n}
    /\ commands' = [commands EXCEPT ![n] = Tail(@)]
    /\ UNCHANGED <<log, pub, local, inbox, late, troubled, connVars>>
----------------------------------------------------------------------------
(* Operations.                                                             *)

\* Mutant: the broadcast carries the seq before the commit.
CommitStale(n) ==
    /\ pub[n] = Nil
    /\ Len(log) < MaxOps
    /\ log' = Append(log, n)
    /\ pub' = [pub EXCEPT ![n] = [seq |-> Len(log), next |-> "local"]]
    /\ UNCHANGED <<local, commands, channel, inbox, late, troubled, connVars>>

\* Submit has committed on process n, whose document mutex was free.
Commit(n) ==
    /\ pub[n] = Nil
    /\ Len(log) < MaxOps
    /\ log' = Append(log, n)
    /\ pub' = [pub EXCEPT ![n] = [seq |-> Len(log) + 1, next |-> "local"]]
    /\ UNCHANGED <<local, commands, channel, inbox, late, troubled, connVars>>

\* The transaction of Append committed and its reply was lost: Submit returns the
\* error of OpLog.Append, and nobody is told of the operation.
CommitReplyLost(n) ==
    /\ StoreFails
    /\ pub[n] = Nil
    /\ Len(log) < MaxOps
    /\ log' = Append(log, Nil)
    /\ UNCHANGED <<pub, local, commands, channel, inbox, late, troubled, connVars>>

\* The hub of process n sends seq to its subscribers.
HubBroadcast(n, seq) ==
    live' = [c \in Conn |-> IF c \in local[n] THEN Append(live[c], seq) ELSE live[c]]

\* Mutant: local delivery is left to the message that comes back from Redis.
LocalBroadcastSkipped(n) ==
    /\ pub[n] # Nil
    /\ pub[n].next = "local"
    /\ pub' = [pub EXCEPT ![n] = [seq |-> pub[n].seq, next |-> "publish"]]
    /\ UNCHANGED <<log, local, commands, channel, inbox, late, troubled, connVars>>

\* Node.Broadcast: local delivery first.
LocalBroadcast(n) ==
    /\ pub[n] # Nil
    /\ pub[n].next = "local"
    /\ HubBroadcast(n, pub[n].seq)
    /\ pub' = [pub EXCEPT ![n] = [seq |-> pub[n].seq, next |-> "publish"]]
    /\ UNCHANGED <<log, local, commands, channel, inbox, late, troubled, pc, at, replayed>>

\* Redis hands a message to the processes that follow the channel.
Spread(msg) == inbox' = [m \in Node |-> IF m \in channel THEN Append(inbox[m], msg) ELSE inbox[m]]

\* Then PUBLISH, and Broadcast returns: the document's mutex is released.
Publish(n) ==
    /\ pub[n] # Nil
    /\ pub[n].next = "publish"
    /\ Spread([origin |-> n, seq |-> pub[n].seq])
    /\ pub' = [pub EXCEPT ![n] = Nil]
    /\ UNCHANGED <<log, local, commands, channel, late, troubled, connVars>>

\* PUBLISH fails or takes longer than opTimeout: the error is logged, and Broadcast
\* does not try again.  The command may be lost or on its way.
PublishFails(n) ==
    /\ RedisFails
    /\ pub[n] # Nil
    /\ pub[n].next = "publish"
    /\ \/ late' = late
       \/ late' = late \cup {[origin |-> n, seq |-> pub[n].seq]}
    /\ troubled' = troubled \cup {n}
    /\ pub' = [pub EXCEPT ![n] = Nil]
    /\ UNCHANGED <<log, local, commands, channel, inbox, connVars>>

\* PUBLISH took effect and its reply was lost: the client library sends it again,
\* within the same call (bound: one, before any other trouble).
PublishRetried(n) ==
    /\ RedisFails /\ troubled = {}
    /\ pub[n] # Nil
    /\ pub[n].next = "publish"
    /\ Spread([origin |-> n, seq |-> pub[n].seq])
    /\ troubled' = troubled \cup {n}
    /\ UNCHANGED <<log, pub, local, commands, channel, late, connVars>>

LatePublish(msg) ==
    /\ msg \in late
    /\ Spread(msg)
    /\ late' = late \ {msg}
    /\ UNCHANGED <<log, pub, local, commands, channel, troubled, connVars>>

\* Mutant: a process delivers its own publishes as well.
ReceiveEcho(n) ==
    /\ inbox[n] # <<>>
    /\ HubBroadcast(n, Head(inbox[n]).seq)
    /\ inbox' = [inbox EXCEPT ![n] = Tail(@)]
    /\ UNCHANGED <<log, pub, local, commands, channel, late, troubled, pc, at, replayed>>

\* receiveLoop: a message of another process goes straight to the local hub.
Receive(n) ==
    /\ inbox[n] # <<>>
    /\ IF Head(inbox[n]).origin = n
       THEN UNCHANGED live
       ELSE HubBroadcast(n, Head(inbox[n]).seq)
    /\ inbox' = [inbox EXCEPT ![n] = Tail(@)]
    /\ UNCHANGED <<log, pub, local, commands, channel, late, troubled, pc, at, replayed>>
----------------------------------------------------------------------------
Next ==
    \/ \E c \in Conn :
         \/ \E n \in Node : Subscribe(c, n)
         \/ OnDocActive(c) \/ Replay(c) \/ Deregister(c) \/ OnDocInactive(c)
    \/ \E n \in Node :
         \/ RedisCommand(n) \/ Commit(n) \/ CommitReplyLost(n)
         \/ LocalBroadcast(n) \/ Publish(n) \/ PublishFails(n) \/ PublishRetried(n)
         \/ Receive(n)
    \/ \E msg \in late : LatePublish(msg)

Spec == Init /\ [][Next]_vars

----------------------------------------------------------------------------
(* Properties.                                                             *)

\* A connection is sent the operations of one process in the order of their
\* seqs and none of them twice, unless a publish of that process failed or was sent
\* again: a process ignores its own publishes and never publishes what it received.
OriginOrder ==
    \A c \in Conn : \A i, j \in DOMAIN live[c] :
        i < j /\ log[live[c][i]] = log[live[c][j]] /\ log[live[c][i]] \notin troubled =>
            live[c][i] < live[c][j]

\* Whatever Submit reported as committed on a connection's own process after its
\* Replay reaches it, whatever Redis does.
LocalComplete ==
    \A c \in Conn : pc[c] = "on" =>
        \A i \in DOMAIN log :
            log[i] = at[c] => \/ i \in replayed[c] \cup Range(live[c])
                              \/ pub[at[c]] # Nil /\ pub[at[c]].seq = i

\* Nothing is under way between the processes and Redis.
Settled ==
    /\ \A n \in Node : pub[n] = Nil /\ commands[n] = <<>> /\ inbox[n] = <<>>
    /\ \A c \in Conn : pc[c] \in {"away", "on"}
    /\ late = {}

\* The hub's comment on its observer: a process follows the channel of exactly
\* the documents it serves.
ChannelFollowsHub ==
    Settled => \A n \in Node : n \in channel <=> local[n] # {}

\* The cluster package's comment: devices connected to different processes stay
\* in sync, so once all is delivered a subscriber has every operation (neither
\* Redis nor the store failing).
StaysInSync ==
    Settled /\ troubled = {} =>
        \A c \in Conn : pc[c] = "on" => DOMAIN log \subseteq replayed[c] \cup Range(live[c])
=============================================================================
