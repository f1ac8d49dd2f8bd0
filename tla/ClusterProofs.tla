--------------------------- MODULE ClusterProofs ----------------------------
(***************************************************************************)
(* What holds of the cluster for any number of processes, connections and  *)
(* operations, proved.                                                     *)
(*                                                                         *)
(* The operations of process m travel pub[m], inbox[n], live[c].           *)
(* ClusterInv says that what is further down this path is older, as long   *)
(* as no publish of m timed out, and that everything on it is in the log.  *)
(***************************************************************************)
EXTENDS Cluster, TLAPS

\* A hub lists the connections its process serves; the others have nothing.
Serving ==
    /\ \A n \in Node, c \in Conn :
         c \in local[n] <=> at[c] = n /\ pc[c] \in {"active", "load", "on"}
    /\ \A c \in Conn : pc[c] # "away" => at[c] \in Node
    /\ \A c \in Conn : pc[c] \in {"away", "inactive"} => live[c] = <<>>

\* A message in the log, under the process that committed it.
Logged(msg) == msg.seq \in DOMAIN log /\ log[msg.seq] = msg.origin

\* What is on its way was committed by the process it names, and a late publish
\* belongs to a process whose publish timed out.
Known ==
    /\ \A n \in Node : pub[n] # Nil => pub[n].seq \in DOMAIN log /\ log[pub[n].seq] = n
    /\ \A n \in Node : \A j \in DOMAIN inbox[n] : Logged(inbox[n][j])
    /\ \A msg \in late : Logged(msg) /\ msg.origin \in troubled
    /\ \A c \in Conn : \A i \in DOMAIN live[c] : live[c][i] \in DOMAIN log

\* The messages of a process arrive in order (redis.go:97-137).
InboxOrder ==
    \A n \in Node, m \in Node \ troubled : \A i, j \in DOMAIN inbox[n] :
        i < j /\ inbox[n][i].origin = m /\ inbox[n][j].origin = m =>
            inbox[n][i].seq < inbox[n][j].seq

\* What a connection was sent is older than what is in its process's inbox.
LiveBeforeInbox ==
    \A n \in Node, m \in Node \ troubled : \A c \in local[n] :
        \A i \in DOMAIN live[c], j \in DOMAIN inbox[n] :
            m # n /\ log[live[c][i]] = m /\ inbox[n][j].origin = m =>
                live[c][i] < inbox[n][j].seq

\* What a process has published is older than what it is broadcasting.
InboxBeforePub ==
    \A n \in Node, m \in Node \ troubled : \A j \in DOMAIN inbox[n] :
        pub[m] # Nil /\ inbox[n][j].origin = m => inbox[n][j].seq < pub[m].seq

\* So is what connections were sent of it, its own connections being served
\* first (node.go:131-154).
LiveBeforePub ==
    \A n \in Node, m \in Node \ troubled : \A c \in local[n] : \A i \in DOMAIN live[c] :
        pub[m] # Nil /\ log[live[c][i]] = m /\ (m # n \/ pub[m].next = "local") =>
            live[c][i] < pub[m].seq

Ordered == InboxOrder /\ LiveBeforeInbox /\ InboxBeforePub /\ LiveBeforePub /\ OriginOrder

\* LocalComplete, with the local broadcast still to come.
LocalOwed ==
    \A c \in Conn : pc[c] = "on" =>
        \A i \in DOMAIN log :
            log[i] = at[c] => \/ i \in replayed[c] \cup Range(live[c])
                              \/ pub[at[c]] # Nil /\ pub[at[c]].seq = i /\ pub[at[c]].next = "local"

ClusterInv == TypeOK /\ Serving /\ Known /\ Ordered /\ LocalOwed
----------------------------------------------------------------------------
(* Sequences.                                                              *)

\* Appending adds one position, after all others.
LEMMA AppendAt ==
    ASSUME NEW S, NEW s \in Seq(S), NEW e \in S
    PROVE  /\ Append(s, e) \in Seq(S)
           /\ DOMAIN Append(s, e) = DOMAIN s \cup {Len(s) + 1}
           /\ \A i \in DOMAIN s : Append(s, e)[i] = s[i] /\ i < Len(s) + 1 /\ ~(Len(s) + 1 < i)
           /\ Append(s, e)[Len(s) + 1] = e
           /\ ~(Len(s) + 1 < Len(s) + 1)
OBVIOUS

\* And adds one value.
LEMMA AppendRange ==
    ASSUME NEW S, NEW s \in Seq(S), NEW e \in S
    PROVE  e \in Range(Append(s, e)) /\ \A x \in Range(s) : x \in Range(Append(s, e))
<1>1. DOMAIN Append(s, e) = DOMAIN s \cup {Len(s) + 1}
  BY AppendAt, Zenon
<1>2. \A i \in DOMAIN s : Append(s, e)[i] = s[i]
  BY AppendAt
<1>3. Append(s, e)[Len(s) + 1] = e
  BY AppendAt, Zenon
<1>4. QED
  BY <1>1, <1>2, <1>3, Zenon DEF Range

\* Every position of the tail is a position of the sequence, after the first.
LEMMA TailAt ==
    ASSUME NEW S, NEW s \in Seq(S), s # <<>>
    PROVE  /\ Tail(s) \in Seq(S) /\ Head(s) \in S /\ 1 \in DOMAIN s /\ Head(s) = s[1]
           /\ \A i \in DOMAIN Tail(s) : i + 1 \in DOMAIN s /\ 1 < i + 1 /\ Tail(s)[i] = s[i + 1]
           /\ \A i, j \in DOMAIN Tail(s) : i < j => i + 1 < j + 1
OBVIOUS

\* The empty sequence has no position.
LEMMA EmptyAt == \A i : i \notin DOMAIN <<>>
OBVIOUS
----------------------------------------------------------------------------
(* Types.                                                                  *)

\* The fields of a message and of a broadcast under way.
LEMMA Fields ==
    /\ \A b \in Broadcasting : b.seq \in 1..MaxOps /\ b.next \in {"local", "publish"}
    /\ \A q \in 1..MaxOps : \A x \in {"local", "publish"} :
         LET b == [seq |-> q, next |-> x] IN
         b \in Broadcasting /\ b # Nil /\ b.seq = q /\ b.next = x
    /\ \A g \in Message : g.origin \in Node /\ g.seq \in 1..MaxOps
    /\ \A n \in Node : \A q \in 1..MaxOps :
         LET g == [origin |-> n, seq |-> q] IN
         g \in Message /\ g.origin = n /\ g.seq = q
BY ClusterNil DEF Broadcasting, Message

\* The hub sends seqs (hub.go:110-140).
LEMMA HubTyped ==
    ASSUME live \in [Conn -> Seq(1..MaxOps)], NEW n \in Node, NEW q \in 1..MaxOps, HubBroadcast(n, q)
    PROVE  live' \in [Conn -> Seq(1..MaxOps)]
<1>1. \A c \in Conn : live[c] \in Seq(1..MaxOps) /\ Append(live[c], q) \in Seq(1..MaxOps)
  BY AppendAt, Zenon
<1>2. QED
  BY <1>1, Zenon DEF HubBroadcast

\* Every value stays of its type (node.go:104-195).
LEMMA TypeStep == TypeOK /\ Serving /\ [Next]_vars => TypeOK'
<1> SUFFICES ASSUME TypeOK, Serving, [Next]_vars PROVE TypeOK'
  BY Zenon
<1> USE BoundsAssumption DEF TypeOK, connVars
<1>1. ASSUME NEW c \in Conn, NEW n \in Node, Subscribe(c, n) PROVE TypeOK'
  BY <1>1, Zenon DEF Subscribe
<1>2. ASSUME NEW c \in Conn, OnDocActive(c), at[c] \in Node PROVE TypeOK'
  BY <1>2 DEF OnDocActive
<1>3. ASSUME NEW c \in Conn, Replay(c) PROVE TypeOK'
  BY <1>3 DEF Replay
<1>4. ASSUME NEW c \in Conn, Deregister(c), at[c] \in Node PROVE TypeOK'
  BY <1>4 DEF Deregister
<1>5. ASSUME NEW c \in Conn, OnDocInactive(c), at[c] \in Node PROVE TypeOK'
  BY <1>5 DEF OnDocInactive
<1>6. ASSUME NEW n \in Node, RedisCommand(n) PROVE TypeOK'
  BY <1>6 DEF RedisCommand
<1>7. ASSUME NEW n \in Node, Commit(n) PROVE TypeOK'
  BY <1>7 DEF Commit, Broadcasting
<1>17. ASSUME NEW n \in Node, CommitReplyLost(n) PROVE TypeOK'
  <2>1. log' \in Seq(Node \cup {Nil}) /\ Len(log') <= MaxOps
    <3>1. log \in Seq(Node \cup {Nil}) /\ Len(log) < MaxOps /\ log' = Append(log, Nil)
      BY <1>17, Zenon DEF CommitReplyLost
    <3> QED
      BY <3>1
  <2> QED
    BY <1>17, <2>1, Zenon DEF CommitReplyLost
<1>8. ASSUME NEW n \in Node, LocalBroadcast(n) PROVE TypeOK'
  <2>1. pub[n] \in Broadcasting
    BY <1>8, Zenon DEF LocalBroadcast
  <2>2. pub[n].seq \in 1..MaxOps
    BY <2>1, Fields, Zenon
  <2>3. [seq |-> pub[n].seq, next |-> "publish"] \in Broadcasting
    BY <2>2, Fields, Zenon
  <2>4. live' \in [Conn -> Seq(1..MaxOps)]
    BY <1>8, <2>2, HubTyped, Zenon DEF LocalBroadcast
  <2>5. QED
    BY <1>8, <2>3, <2>4, Zenon DEF LocalBroadcast
<1>9. ASSUME NEW n \in Node, Publish(n) PROVE TypeOK'
  <2>1. [origin |-> n, seq |-> pub[n].seq] \in Message
    BY <1>9, Fields DEF Publish
  <2>2. QED
    BY <1>9, <2>1 DEF Publish, Spread
<1>10. ASSUME NEW n \in Node, PublishFails(n) PROVE TypeOK'
  <2>1. [origin |-> n, seq |-> pub[n].seq] \in Message
    BY <1>10, Fields DEF PublishFails
  <2>2. QED
    BY <1>10, <2>1, Zenon DEF PublishFails
<1>18. ASSUME NEW n \in Node, PublishRetried(n) PROVE TypeOK'
  <2>1. [origin |-> n, seq |-> pub[n].seq] \in Message
    BY <1>18, Fields DEF PublishRetried
  <2>2. QED
    BY <1>18, <2>1 DEF PublishRetried, Spread
<1>11. ASSUME NEW msg \in late, LatePublish(msg) PROVE TypeOK'
  BY <1>11 DEF LatePublish, Spread
<1>12. ASSUME NEW n \in Node, Receive(n) PROVE TypeOK'
  <2>1. Tail(inbox[n]) \in Seq(Message) /\ Head(inbox[n]).seq \in 1..MaxOps
    <3>1. inbox[n] \in Seq(Message) /\ inbox[n] # <<>>
      BY <1>12, Zenon DEF Receive
    <3>2. QED
      BY <3>1, TailAt, Fields, Zenon
  <2>2. live' \in [Conn -> Seq(1..MaxOps)]
    BY <1>12, <2>1, HubTyped, Zenon DEF Receive
  <2>3. QED
    BY <1>12, <2>1, <2>2, Zenon DEF Receive
<1>13. CASE UNCHANGED vars
  BY <1>13, Zenon DEF vars
<1> HIDE DEF TypeOK
<1>14. \A c \in Conn : pc[c] \in {"active", "on", "inactive"} => at[c] \in Node
  BY Zenon DEF Serving
<1>15. \A c \in Conn : OnDocActive(c) \/ Deregister(c) \/ OnDocInactive(c) => at[c] \in Node
  BY <1>14, Zenon DEF OnDocActive, Deregister, OnDocInactive
<1>16. QED
  BY <1>1, <1>2, <1>3, <1>4, <1>5, <1>6, <1>7, <1>8, <1>9, <1>10, <1>11, <1>12,
     <1>13, <1>15, <1>17, <1>18, Zenon DEF Next
----------------------------------------------------------------------------
(* What the steps do.                                                      *)

\* A step of connections or of Redis: no operation moves, and what a connection
\* was sent is kept or dropped.
Calm ==
    /\ UNCHANGED <<log, pub, inbox, late, troubled>>
    /\ \A c \in Conn : live'[c] = live[c] \/ live'[c] = <<>>
    /\ \A n \in Node : \A c \in local'[n] : c \in local[n] \/ live'[c] = <<>>

\* Subscribing, unsubscribing and Redis' commands (hub.go:60-109).
CalmStep ==
    \/ \E c \in Conn : \/ \E n \in Node : Subscribe(c, n)
                       \/ OnDocActive(c) \/ Replay(c) \/ Deregister(c) \/ OnDocInactive(c)
    \/ \E n \in Node : RedisCommand(n)
    \/ UNCHANGED vars

\* The hub of n appends q for its connections and for no other.
LEMMA HubSends ==
    ASSUME NEW n \in Node, NEW q, HubBroadcast(n, q), NEW c \in Conn
    PROVE  /\ c \in local[n] => live'[c] = Append(live[c], q)
           /\ c \notin local[n] => live'[c] = live[c]
BY Zenon DEF HubBroadcast

\* No hub lists a connection twice, and a connection no hub lists was sent
\* nothing (hub.go:60-109).
LEMMA ServingStep ==
    ASSUME TypeOK, Serving, [Next]_vars
    PROVE  Serving'
<1> USE DEF TypeOK, Serving
<1>1. ASSUME NEW c \in Conn, NEW n \in Node, Subscribe(c, n) PROVE Serving'
  BY <1>1, ClusterNil DEF Subscribe
<1>2. ASSUME NEW c \in Conn, OnDocActive(c) PROVE Serving'
  BY <1>2 DEF OnDocActive
<1>3. ASSUME NEW c \in Conn, Replay(c) PROVE Serving'
  BY <1>3 DEF Replay
<1>4. ASSUME NEW c \in Conn, Deregister(c) PROVE Serving'
  BY <1>4, ClusterNil DEF Deregister
<1>5. ASSUME NEW c \in Conn, OnDocInactive(c) PROVE Serving'
  BY <1>5, ClusterNil DEF OnDocInactive
<1>6. ASSUME NEW n \in Node, \/ RedisCommand(n) \/ Commit(n) \/ CommitReplyLost(n)
                              \/ Publish(n) \/ PublishFails(n) \/ PublishRetried(n)
      PROVE  Serving'
  BY <1>6, Zenon DEF RedisCommand, Commit, CommitReplyLost, Publish, PublishFails, PublishRetried,
     connVars
<1>7. ASSUME NEW n \in Node, LocalBroadcast(n) \/ Receive(n) PROVE Serving'
  <2>1. /\ UNCHANGED <<pc, at, local>>
        /\ live' = live \/ \E q : HubBroadcast(n, q)
    BY <1>7, Zenon DEF LocalBroadcast, Receive
  <2>2. \A c \in Conn : c \notin local[n] => live'[c] = live[c]
    BY <2>1, HubSends, Zenon
  <2>3. \A c \in Conn : pc[c] \in {"away", "inactive"} => c \notin local[n]
    BY Zenon
  <2>4. QED
    BY <2>1, <2>2, <2>3, Zenon
<1>8. ASSUME NEW msg \in late, LatePublish(msg) PROVE Serving'
  BY <1>8, Zenon DEF LatePublish, connVars
<1>9. CASE UNCHANGED vars
  BY <1>9, Zenon DEF vars, connVars
<1>10. QED
  BY <1>1, <1>2, <1>3, <1>4, <1>5, <1>6, <1>7, <1>8, <1>9, Zenon DEF Next

\* Which of them move no operation.
LEMMA CalmSteps ==
    ASSUME TypeOK, Serving, CalmStep
    PROVE  Calm
<1> USE DEF TypeOK, Serving, Calm
<1>1. ASSUME NEW c \in Conn, NEW n \in Node, Subscribe(c, n) PROVE Calm
  BY <1>1 DEF Subscribe
<1>2. ASSUME NEW c \in Conn, OnDocActive(c) PROVE Calm
  BY <1>2, Zenon DEF OnDocActive
<1>3. ASSUME NEW c \in Conn, Replay(c) PROVE Calm
  BY <1>3, Zenon DEF Replay
<1>4. ASSUME NEW c \in Conn, Deregister(c) PROVE Calm
  BY <1>4 DEF Deregister
<1>5. ASSUME NEW c \in Conn, OnDocInactive(c) PROVE Calm
  BY <1>5, Zenon DEF OnDocInactive
<1>6. ASSUME NEW n \in Node, RedisCommand(n) PROVE Calm
  BY <1>6, Zenon DEF RedisCommand, connVars
<1>7. CASE UNCHANGED vars
  BY <1>7, Zenon DEF vars, connVars
<1>8. QED
  BY <1>1, <1>2, <1>3, <1>4, <1>5, <1>6, <1>7, Zenon DEF CalmStep
----------------------------------------------------------------------------
(* What is further down the path is older.                                 *)

\* The members of a hub are connections, and of one hub only.
LEMMA Listed ==
    ASSUME TypeOK, Serving, NEW n \in Node, NEW c \in local[n]
    PROVE  c \in Conn /\ \A m \in Node : c \in local[m] => m = n
<1>1. c \in Conn
  BY Zenon DEF TypeOK
<1>2. QED
  BY <1>1, Zenon DEF Serving

\* Connections that come or go move no operation (hub.go:60-109).
LEMMA CalmOrder ==
    ASSUME TypeOK, TypeOK', Serving, Serving', Calm, Known, Ordered
    PROVE  Known' /\ Ordered'
<1>1. ASSUME NEW c \in Conn, NEW i \in DOMAIN live'[c]
      PROVE  /\ i \in DOMAIN live[c] /\ live'[c] = live[c]
             /\ \A n \in Node : c \in local'[n] => c \in local[n]
  BY <1>1, EmptyAt, Zenon DEF Calm
<1>2. log' = log /\ pub' = pub /\ inbox' = inbox /\ late' = late /\ troubled' = troubled
  BY Zenon DEF Calm
<1>3. \A n \in Node : \A c \in local'[n] : c \in Conn
  BY Listed, Zenon DEF TypeOK
<1>4. Known'
  BY <1>1, <1>2, Zenon DEF Known, Logged
<1>5. InboxOrder' /\ InboxBeforePub'
  BY <1>2 DEF Ordered, InboxOrder, InboxBeforePub
<1>6. LiveBeforeInbox'
  BY <1>1, <1>2, <1>3 DEF Ordered, LiveBeforeInbox
<1>7. LiveBeforePub'
  BY <1>1, <1>2, <1>3, Zenon DEF Ordered, LiveBeforePub
<1>8. OriginOrder'
  BY <1>1, <1>2, Zenon DEF Ordered, OriginOrder
<1>9. QED
  BY <1>4, <1>5, <1>6, <1>7, <1>8, Zenon DEF Ordered

\* A commit is newer than everything under way (engine.go:109-119).
LEMMA CommitOrder ==
    ASSUME TypeOK, Serving, NEW n \in Node, Commit(n), Known, Ordered
    PROVE  Known' /\ Ordered'
<1> DEFINE q == Len(log) + 1
<1>1. /\ log' = Append(log, n) /\ pub[n] = Nil
      /\ pub' = [pub EXCEPT ![n] = [seq |-> q, next |-> "local"]]
      /\ inbox' = inbox /\ live' = live /\ late' = late /\ troubled' = troubled /\ local' = local
  BY Zenon DEF Commit, connVars
<1>2. /\ DOMAIN log' = DOMAIN log \cup {q} /\ log'[q] = n
      /\ \A i \in DOMAIN log : log'[i] = log[i] /\ i < q
  <2>1. log \in Seq(Node \cup {Nil})
    BY Zenon DEF TypeOK
  <2>2. QED
    BY <1>1, <2>1, AppendAt
<1>3. pub'[n] = [seq |-> q, next |-> "local"] /\ \A m \in Node \ {n} : pub'[m] = pub[m]
  <2>1. pub \in [Node -> Broadcasting \cup {Nil}]
    BY Zenon DEF TypeOK
  <2>2. QED
    BY <1>1, <2>1, Zenon
<1>4. pub'[n].seq = q
  BY <1>3
<1> HIDE DEF q
<1>5. \A x \in Node : \A j \in DOMAIN inbox[x] :
         inbox[x][j].seq \in DOMAIN log /\ log[inbox[x][j].seq] = inbox[x][j].origin
  BY Zenon DEF Known, Logged
<1>6. \A c \in Conn : \A i \in DOMAIN live[c] :
         /\ live[c][i] \in DOMAIN log /\ live[c][i] < q
         /\ log'[live[c][i]] = log[live[c][i]]
  BY <1>2, Zenon DEF Known
<1>7. Known'
  <2>1. \A m \in Node : pub'[m] # Nil => pub'[m].seq \in DOMAIN log' /\ log'[pub'[m].seq] = m
    BY <1>2, <1>3, <1>4 DEF Known
  <2>2. \A x \in Node : \A j \in DOMAIN inbox'[x] : Logged(inbox[x][j])'
    BY <1>1, <1>2, <1>5, Zenon DEF Logged
  <2>3. \A msg \in late' : Logged(msg)' /\ msg.origin \in troubled'
    BY <1>1, <1>2, Zenon DEF Known, Logged
  <2>4. QED
    BY <1>1, <1>2, <1>6, <2>1, <2>2, <2>3, Zenon DEF Known, Logged
<1>8. InboxOrder'
  BY <1>1, Zenon DEF Ordered, InboxOrder
<1>9. LiveBeforeInbox'
  BY <1>1, <1>2, <1>6, Listed DEF Ordered, LiveBeforeInbox
<1>10. InboxBeforePub'
  BY <1>1, <1>2, <1>3, <1>4, <1>5 DEF Ordered, InboxBeforePub
<1>11. LiveBeforePub'
  BY <1>1, <1>2, <1>3, <1>4, <1>6, Listed DEF Ordered, LiveBeforePub
<1>12. OriginOrder'
  BY <1>1, <1>2, <1>6 DEF Ordered, OriginOrder
<1>13. QED
  BY <1>7, <1>8, <1>9, <1>10, <1>11, <1>12, Zenon DEF Ordered

\* A commit reported as failed is sent to nobody (engine.go:109-112).
LEMMA CommitReplyLostOrder ==
    ASSUME TypeOK, Serving, NEW n \in Node, CommitReplyLost(n), Known, Ordered
    PROVE  Known' /\ Ordered'
<1>1. /\ log' = Append(log, Nil) /\ pub' = pub /\ inbox' = inbox /\ live' = live
      /\ late' = late /\ troubled' = troubled /\ local' = local
  BY Zenon DEF CommitReplyLost, connVars
<1>2. DOMAIN log \subseteq DOMAIN log' /\ \A i \in DOMAIN log : log'[i] = log[i]
  <2>1. log \in Seq(Node \cup {Nil})
    BY Zenon DEF TypeOK
  <2>2. QED
    BY <1>1, <2>1, AppendAt
<1>3. \A c \in Conn : \A i \in DOMAIN live[c] :
         live[c][i] \in DOMAIN log /\ log'[live[c][i]] = log[live[c][i]]
  BY <1>2, Zenon DEF Known
<1>4. Known'
  BY <1>1, <1>2, Zenon DEF Known, Logged
<1>5. InboxOrder' /\ InboxBeforePub'
  BY <1>1 DEF Ordered, InboxOrder, InboxBeforePub
<1>6. LiveBeforeInbox'
  BY <1>1, <1>2, <1>3, Listed DEF Ordered, LiveBeforeInbox
<1>7. LiveBeforePub'
  BY <1>1, <1>2, <1>3, Listed DEF Ordered, LiveBeforePub
<1>8. OriginOrder'
  BY <1>1, <1>2, <1>3 DEF Ordered, OriginOrder
<1>9. QED
  BY <1>4, <1>5, <1>6, <1>7, <1>8, Zenon DEF Ordered

\* t is s with e at position k, after all others.
Longer(s, e, k, t) ==
    /\ DOMAIN t = DOMAIN s \cup {k} /\ t[k] = e
    /\ \A i \in DOMAIN s : t[i] = s[i] /\ ~(k < i)
    /\ ~(k < k)

LEMMA AppendLonger ==
    ASSUME NEW S, NEW s \in Seq(S), NEW e \in S
    PROVE  \E k : Longer(s, e, k, Append(s, e))
BY AppendAt DEF Longer

\* A broadcast under way has a seq.
LEMMA BroadcastSeq ==
    ASSUME TypeOK, NEW n \in Node, pub[n] # Nil
    PROVE  pub[n].seq \in 1..MaxOps
<1>1. pub[n] \in Broadcasting
  BY Zenon DEF TypeOK
<1>2. QED
  BY <1>1, Fields, Zenon

\* What the hub of n does to the live sequences (hub.go:110-140).
LEMMA HubAppends ==
    ASSUME TypeOK, NEW n \in Node, NEW q \in 1..MaxOps, HubBroadcast(n, q), NEW c \in Conn
    PROVE  \/ live'[c] = live[c] /\ c \notin local[n]
           \/ c \in local[n] /\ \E k : Longer(live[c], q, k, live'[c])
<1>1. live[c] \in Seq(1..MaxOps)
  BY Zenon DEF TypeOK
<1>2. QED
  BY <1>1, HubSends, AppendLonger, Zenon

\* Local delivery first: an operation is newer than what the connections of its
\* process were sent of that process (node.go:131-137).
LEMMA LocalBroadcastOrder ==
    ASSUME TypeOK, TypeOK', Serving, NEW n \in Node, LocalBroadcast(n), Known, Ordered
    PROVE  Known' /\ Ordered'
<1>1. /\ pub[n] # Nil /\ pub[n].next = "local" /\ HubBroadcast(n, pub[n].seq)
      /\ pub' = [pub EXCEPT ![n] = [seq |-> pub[n].seq, next |-> "publish"]]
      /\ log' = log /\ inbox' = inbox /\ late' = late /\ troubled' = troubled /\ local' = local
  BY Zenon DEF LocalBroadcast
<1>2. PICK q : q = pub[n].seq
  BY Zenon
<1>3. q \in DOMAIN log /\ log[q] = n /\ q \in 1..MaxOps
  <2>1. pub[n].seq \in 1..MaxOps
    BY <1>1, BroadcastSeq, Zenon
  <2>2. QED
    BY <1>1, <1>2, <2>1, Zenon DEF Known
<1>4. pub'[n].seq = q /\ pub'[n].next = "publish" /\ \A m \in Node \ {n} : pub'[m] = pub[m]
  <2>1. pub'[n] = [seq |-> q, next |-> "publish"] /\ \A m \in Node \ {n} : pub'[m] = pub[m]
    BY <1>1, <1>2, Zenon DEF TypeOK
  <2>2. QED
    BY <2>1
<1>5. ASSUME NEW c \in Conn
      PROVE  \/ live'[c] = live[c] /\ c \notin local[n]
             \/ c \in local[n] /\ \E k : Longer(live[c], q, k, live'[c])
  BY <1>1, <1>2, <1>3, HubAppends, Zenon
<1>6. \A c \in Conn : \A i \in DOMAIN live'[c] :
         \/ i \in DOMAIN live[c] /\ live'[c][i] = live[c][i]
         \/ c \in local[n] /\ live'[c][i] = q
  BY <1>5, Zenon DEF Longer
<1>7. Known'
  BY <1>1, <1>2, <1>3, <1>4, <1>6 DEF Known, Logged
<1>8. InboxOrder'
  BY <1>1 DEF Ordered, InboxOrder
<1>9. LiveBeforeInbox'
  BY <1>1, <1>3, <1>6, Listed DEF Ordered, LiveBeforeInbox
<1>10. InboxBeforePub'
  BY <1>1, <1>2, <1>4 DEF Ordered, InboxBeforePub
<1>11. LiveBeforePub'
  BY <1>1, <1>2, <1>3, <1>4, <1>6, Listed DEF Ordered, LiveBeforePub
<1>12. OriginOrder'
  <2>1. ASSUME NEW c \in Conn, NEW i \in DOMAIN live'[c], NEW j \in DOMAIN live'[c], i < j,
               log[live'[c][i]] = log[live'[c][j]], log[live'[c][i]] \notin troubled
        PROVE  live'[c][i] < live'[c][j]
    <3>1. CASE live'[c] = live[c]
      BY <2>1, <3>1, Zenon DEF Ordered, OriginOrder
    <3>2. CASE c \in local[n]
      <4>1. PICK k : Longer(live[c], q, k, live'[c])
        BY <1>5, <3>2, Zenon
      <4>2. i \in DOMAIN live[c] /\ live'[c][i] = live[c][i]
        BY <2>1, <4>1, Zenon DEF Longer
      <4>3. CASE j \in DOMAIN live[c]
        BY <2>1, <4>1, <4>2, <4>3, Zenon DEF Longer, Ordered, OriginOrder
      <4>4. CASE j = k
        BY <1>1, <1>2, <1>3, <2>1, <3>2, <4>1, <4>2, <4>4 DEF Longer, Ordered, LiveBeforePub
      <4>5. QED
        BY <2>1, <4>1, <4>3, <4>4, Zenon DEF Longer
    <3>3. QED
      BY <1>5, <3>1, <3>2, Zenon
  <2>2. QED
    BY <1>1, <2>1, Zenon DEF OriginOrder
<1>13. QED
  BY <1>7, <1>8, <1>9, <1>10, <1>11, <1>12, Zenon DEF Ordered

\* Redis hands msg to followers of the channel and to no one else (redis.go:60-70).
LEMMA Spreads ==
    ASSUME TypeOK, NEW msg \in Message, Spread(msg), NEW x \in Node
    PROVE  inbox'[x] = inbox[x] \/ \E k : Longer(inbox[x], msg, k, inbox'[x])
<1>1. inbox[x] \in Seq(Message)
  BY Zenon DEF TypeOK
<1>2. inbox'[x] = inbox[x] \/ inbox'[x] = Append(inbox[x], msg)
  BY Zenon DEF Spread
<1>3. QED
  BY <1>1, <1>2, AppendLonger, Zenon

\* What arrives from a process was published after what has arrived from it
\* (node.go:138-154).
LEMMA PublishOrder ==
    ASSUME TypeOK, Serving, NEW n \in Node, Publish(n), Known, Ordered
    PROVE  Known' /\ Ordered'
<1>1. /\ pub[n] # Nil /\ Spread([origin |-> n, seq |-> pub[n].seq])
      /\ pub[n].next = "publish" /\ pub' = [pub EXCEPT ![n] = Nil]
      /\ log' = log /\ live' = live /\ late' = late /\ troubled' = troubled /\ local' = local
  BY Zenon DEF Publish, connVars
<1>2. PICK msg : msg = [origin |-> n, seq |-> pub[n].seq]
  BY Zenon
<1>3. msg \in Message /\ msg.origin = n /\ msg.seq = pub[n].seq /\ Logged(msg)
  <2>1. pub[n].seq \in 1..MaxOps
    BY <1>1, BroadcastSeq, Zenon
  <2>2. msg \in Message /\ msg.origin = n /\ msg.seq = pub[n].seq
    BY <1>2, <2>1, Fields, Zenon
  <2>3. QED
    BY <1>1, <2>2, Zenon DEF Known, Logged
<1>4. pub'[n] = Nil /\ \A m \in Node \ {n} : pub'[m] = pub[m]
  BY <1>1, Zenon DEF TypeOK
<1>5. \A x \in Node : inbox'[x] = inbox[x] \/ \E k : Longer(inbox[x], msg, k, inbox'[x])
  BY <1>1, <1>2, <1>3, Spreads, Zenon
<1>6. \A x \in Node : \A j \in DOMAIN inbox'[x] :
         \/ j \in DOMAIN inbox[x] /\ inbox'[x][j] = inbox[x][j]
         \/ inbox'[x][j] = msg
  BY <1>5 DEF Longer
<1>7. Known'
  BY <1>1, <1>3, <1>4, <1>6 DEF Known, Logged
<1>8. InboxOrder'
  <2>1. ASSUME NEW x \in Node, NEW m \in Node \ troubled,
               NEW i \in DOMAIN inbox'[x], NEW j \in DOMAIN inbox'[x], i < j,
               inbox'[x][i].origin = m, inbox'[x][j].origin = m
        PROVE  inbox'[x][i].seq < inbox'[x][j].seq
    <3>1. CASE inbox'[x] = inbox[x]
      BY <2>1, <3>1, Zenon DEF Ordered, InboxOrder
    <3>2. CASE inbox'[x] # inbox[x]
      <4>1. PICK k : Longer(inbox[x], msg, k, inbox'[x])
        BY <1>5, <3>2, Zenon
      <4>2. i \in DOMAIN inbox[x] /\ inbox'[x][i] = inbox[x][i]
        BY <2>1, <4>1, Zenon DEF Longer
      <4>3. CASE j \in DOMAIN inbox[x]
        BY <2>1, <4>1, <4>2, <4>3 DEF Longer, Ordered, InboxOrder
      <4>4. CASE j = k
        BY <1>1, <1>3, <2>1, <4>1, <4>2, <4>4 DEF Longer, Ordered, InboxBeforePub
      <4>5. QED
        BY <4>1, <4>3, <4>4, Zenon DEF Longer
    <3>3. QED
      BY <3>1, <3>2, Zenon
  <2>2. QED
    BY <1>1, <2>1, Zenon DEF InboxOrder
<1>9. LiveBeforeInbox'
  BY <1>1, <1>3, <1>6 DEF Ordered, LiveBeforeInbox, LiveBeforePub
<1>10. InboxBeforePub'
  BY <1>1, <1>3, <1>4, <1>6 DEF Ordered, InboxBeforePub
<1>11. LiveBeforePub'
  BY <1>1, <1>4 DEF Ordered, LiveBeforePub
<1>12. OriginOrder'
  BY <1>1, Zenon DEF Ordered, OriginOrder
<1>13. QED
  BY <1>7, <1>8, <1>9, <1>10, <1>11, <1>12, Zenon DEF Ordered

\* A publish that times out may arrive out of order; its process is no longer
\* counted on (node.go:149-153).
LEMMA PublishFailsOrder ==
    ASSUME TypeOK, Serving, NEW n \in Node, PublishFails(n), Known, Ordered
    PROVE  Known' /\ Ordered'
<1>1. /\ pub[n] # Nil /\ pub' = [pub EXCEPT ![n] = Nil]
      /\ late' = late \/ late' = late \cup {[origin |-> n, seq |-> pub[n].seq]}
      /\ log' = log /\ live' = live /\ inbox' = inbox /\ local' = local
      /\ troubled' = troubled \cup {n}
  BY Zenon DEF PublishFails, connVars
<1>2. PICK msg : msg = [origin |-> n, seq |-> pub[n].seq]
  BY Zenon
<1>3. msg.origin = n /\ Logged(msg)
  <2>1. pub[n].seq \in 1..MaxOps
    BY <1>1, BroadcastSeq, Zenon
  <2>2. msg.origin = n /\ msg.seq = pub[n].seq
    BY <1>2, <2>1, Fields, Zenon
  <2>3. QED
    BY <1>1, <2>2, Zenon DEF Known, Logged
<1>4. pub'[n] = Nil /\ \A m \in Node \ {n} : pub'[m] = pub[m]
  BY <1>1, Zenon DEF TypeOK
<1>5. \A g \in late' : g \in late \/ g = msg
  BY <1>1, <1>2, Zenon
<1>6. \A m \in Node \ troubled' : m # n /\ m \in Node \ troubled /\ pub'[m] = pub[m]
  BY <1>1, <1>4, Zenon
<1>7. Known'
  BY <1>1, <1>3, <1>4, <1>5 DEF Known, Logged
<1>8. InboxOrder'
  BY <1>1, <1>6 DEF Ordered, InboxOrder
<1>9. LiveBeforeInbox'
  BY <1>1, <1>6 DEF Ordered, LiveBeforeInbox
<1>10. InboxBeforePub'
  BY <1>1, <1>6 DEF Ordered, InboxBeforePub
<1>11. LiveBeforePub'
  BY <1>1, <1>6 DEF Ordered, LiveBeforePub
<1>12. OriginOrder'
  BY <1>1, Zenon DEF Ordered, OriginOrder
<1>13. QED
  BY <1>7, <1>8, <1>9, <1>10, <1>11, <1>12, Zenon DEF Ordered

\* So may one that is sent again, and arrives twice (node.go:149-153).
LEMMA PublishRetriedOrder ==
    ASSUME TypeOK, Serving, NEW n \in Node, PublishRetried(n), Known, Ordered
    PROVE  Known' /\ Ordered'
<1>1. /\ pub[n] # Nil /\ pub' = pub
      /\ Spread([origin |-> n, seq |-> pub[n].seq])
      /\ log' = log /\ live' = live /\ local' = local /\ late' = late
      /\ troubled' = troubled \cup {n}
  BY Zenon DEF PublishRetried, connVars
<1>2. PICK msg : msg = [origin |-> n, seq |-> pub[n].seq]
  BY Zenon
<1>3. msg \in Message /\ msg.origin = n /\ Logged(msg)
  <2>1. pub[n].seq \in 1..MaxOps
    BY <1>1, BroadcastSeq, Zenon
  <2>2. msg \in Message /\ msg.origin = n /\ msg.seq = pub[n].seq
    BY <1>2, <2>1, Fields, Zenon
  <2>3. QED
    BY <1>1, <2>2, Zenon DEF Known, Logged
<1>6. \A m \in Node \ troubled' : m # n /\ m \in Node \ troubled /\ pub'[m] = pub[m]
  BY <1>1, Zenon
<1>7. \A x \in Node : inbox'[x] = inbox[x] \/ \E k : Longer(inbox[x], msg, k, inbox'[x])
  BY <1>1, <1>2, <1>3, Spreads, Zenon
<1>8. \A x \in Node : \A j \in DOMAIN inbox'[x] :
         \/ j \in DOMAIN inbox[x] /\ inbox'[x][j] = inbox[x][j]
         \/ inbox'[x][j] = msg
  BY <1>7, Zenon DEF Longer
<1>9. Known'
  BY <1>1, <1>3, <1>8 DEF Known, Logged
<1>10. InboxOrder'
  BY <1>1, <1>3, <1>6, <1>8 DEF Ordered, InboxOrder
<1>11. LiveBeforeInbox'
  BY <1>1, <1>3, <1>6, <1>8 DEF Ordered, LiveBeforeInbox
<1>12. InboxBeforePub'
  BY <1>1, <1>3, <1>6, <1>8 DEF Ordered, InboxBeforePub
<1>13. LiveBeforePub'
  BY <1>1, <1>6 DEF Ordered, LiveBeforePub
<1>14. OriginOrder'
  BY <1>1, Zenon DEF Ordered, OriginOrder
<1>15. QED
  BY <1>9, <1>10, <1>11, <1>12, <1>13, <1>14, Zenon DEF Ordered

\* It arrives when it arrives.
LEMMA LatePublishOrder ==
    ASSUME TypeOK, Serving, NEW msg \in late, LatePublish(msg), Known, Ordered
    PROVE  Known' /\ Ordered'
<1>1. /\ Spread(msg) /\ late' = late \ {msg} /\ pub' = pub
      /\ log' = log /\ live' = live /\ troubled' = troubled /\ local' = local
  BY Zenon DEF LatePublish, connVars
<1>2. msg \in Message /\ Logged(msg) /\ msg.origin \in troubled
  BY Zenon DEF TypeOK, Known
<1>3. \A x \in Node : inbox'[x] = inbox[x] \/ \E k : Longer(inbox[x], msg, k, inbox'[x])
  BY <1>1, <1>2, Spreads, Zenon
<1>4. \A x \in Node : \A j \in DOMAIN inbox'[x] :
         \/ j \in DOMAIN inbox[x] /\ inbox'[x][j] = inbox[x][j]
         \/ inbox'[x][j] = msg
  BY <1>3, Zenon DEF Longer
<1>5. Known'
  BY <1>1, <1>2, <1>4 DEF Known, Logged
<1>6. InboxOrder'
  BY <1>1, <1>2, <1>4 DEF Ordered, InboxOrder
<1>7. LiveBeforeInbox'
  BY <1>1, <1>2, <1>4 DEF Ordered, LiveBeforeInbox
<1>8. InboxBeforePub'
  BY <1>1, <1>2, <1>4 DEF Ordered, InboxBeforePub
<1>9. LiveBeforePub'
  BY <1>1, Zenon DEF Ordered, LiveBeforePub
<1>10. OriginOrder'
  BY <1>1, Zenon DEF Ordered, OriginOrder
<1>11. QED
  BY <1>5, <1>6, <1>7, <1>8, <1>9, <1>10, Zenon DEF Ordered

\* A message is older than those behind it, and newer than what the process's
\* connections were sent of its origin (node.go:156-195).
LEMMA ReceiveOrder ==
    ASSUME TypeOK, Serving, NEW n \in Node, Receive(n), Known, Ordered
    PROVE  Known' /\ Ordered'
<1>1. /\ inbox[n] # <<>> /\ inbox' = [inbox EXCEPT ![n] = Tail(inbox[n])]
      /\ \/ Head(inbox[n]).origin = n /\ live' = live
         \/ Head(inbox[n]).origin # n /\ HubBroadcast(n, Head(inbox[n]).seq)
      /\ log' = log /\ pub' = pub /\ late' = late /\ troubled' = troubled /\ local' = local
  BY Zenon DEF Receive
<1>2. PICK h : h = inbox[n][1]
  BY Zenon
<1>3. /\ inbox[n] \in Seq(Message)
      /\ \A x \in Node \ {n} : inbox'[x] = inbox[x]
      /\ inbox'[n] = Tail(inbox[n])
  BY <1>1, Zenon DEF TypeOK
<1>4. /\ h = Head(inbox[n]) /\ h \in Message /\ 1 \in DOMAIN inbox[n]
      /\ \A i \in DOMAIN inbox'[n] :
           i + 1 \in DOMAIN inbox[n] /\ 1 < i + 1 /\ inbox'[n][i] = inbox[n][i + 1]
      /\ \A i, j \in DOMAIN inbox'[n] : i < j => i + 1 < j + 1
  <2>1. /\ Head(inbox[n]) \in Message /\ 1 \in DOMAIN inbox[n] /\ Head(inbox[n]) = inbox[n][1]
        /\ \A i \in DOMAIN Tail(inbox[n]) :
             /\ i + 1 \in DOMAIN inbox[n] /\ 1 < i + 1
             /\ Tail(inbox[n])[i] = inbox[n][i + 1]
        /\ \A i, j \in DOMAIN Tail(inbox[n]) : i < j => i + 1 < j + 1
    BY <1>1, <1>3, TailAt, Zenon
  <2>2. QED
    BY <1>2, <1>3, <2>1, Zenon
<1>5. h.origin \in Node /\ h.seq \in 1..MaxOps /\ Logged(h)
  <2>1. h.origin \in Node /\ h.seq \in 1..MaxOps
    BY <1>4, Fields, Zenon
  <2>2. Logged(h)
    BY <1>2, <1>4, Zenon DEF Known
  <2>3. QED
    BY <2>1, <2>2, Zenon
<1>6. ASSUME NEW c \in Conn
      PROVE  \/ live'[c] = live[c]
             \/ c \in local[n] /\ h.origin # n /\ \E k : Longer(live[c], h.seq, k, live'[c])
  BY <1>1, <1>4, <1>5, HubAppends, Zenon
<1>7. \A c \in Conn : \A i \in DOMAIN live'[c] :
         \/ i \in DOMAIN live[c] /\ live'[c][i] = live[c][i]
         \/ c \in local[n] /\ h.origin # n /\ live'[c][i] = h.seq
  BY <1>6, Zenon DEF Longer
<1>8. \A x \in Node : \A j \in DOMAIN inbox'[x] :
         \E k \in DOMAIN inbox[x] : inbox'[x][j] = inbox[x][k] /\ (x = n => 1 < k)
  BY <1>3, <1>4, Zenon
<1>9. Known'
  BY <1>1, <1>5, <1>7, <1>8 DEF Known, Logged
<1>10. InboxOrder'
  BY <1>1, <1>3, <1>4 DEF Ordered, InboxOrder
<1>11. LiveBeforeInbox'
  <2>1. ASSUME NEW x \in Node, NEW m \in Node \ troubled, NEW c \in local[x],
               NEW i \in DOMAIN live'[c], NEW j \in DOMAIN inbox'[x],
               m # x, log[live'[c][i]] = m, inbox'[x][j].origin = m
        PROVE  live'[c][i] < inbox'[x][j].seq
    <3>1. PICK k \in DOMAIN inbox[x] : inbox'[x][j] = inbox[x][k] /\ (x = n => 1 < k)
      BY <1>8, <2>1, Zenon
    <3>2. c \in Conn /\ (c \in local[n] => x = n)
      BY <2>1, Listed, Zenon
    <3>3. CASE i \in DOMAIN live[c] /\ live'[c][i] = live[c][i]
      BY <2>1, <3>1, <3>3, Zenon DEF Ordered, LiveBeforeInbox
    <3>4. CASE c \in local[n] /\ live'[c][i] = h.seq
      BY <1>2, <1>4, <1>5, <2>1, <3>1, <3>2, <3>4 DEF Ordered, InboxOrder, Logged
    <3>5. QED
      BY <1>7, <3>2, <3>3, <3>4, Zenon
  <2>2. QED
    BY <1>1, <2>1 DEF LiveBeforeInbox
<1>12. InboxBeforePub'
  BY <1>1, <1>8 DEF Ordered, InboxBeforePub
<1>13. LiveBeforePub'
  <2>1. ASSUME NEW x \in Node, NEW m \in Node \ troubled, NEW c \in local[x],
               NEW i \in DOMAIN live'[c], pub[m] # Nil, log[live'[c][i]] = m,
               m # x \/ pub[m].next = "local"
        PROVE  live'[c][i] < pub[m].seq
    <3>1. c \in Conn
      BY Listed, Zenon
    <3>2. CASE i \in DOMAIN live[c] /\ live'[c][i] = live[c][i]
      BY <2>1, <3>2, Zenon DEF Ordered, LiveBeforePub
    <3>3. CASE live'[c][i] = h.seq
      BY <1>2, <1>4, <1>5, <2>1, <3>3, Zenon DEF Ordered, InboxBeforePub, Logged
    <3>4. QED
      BY <1>7, <3>1, <3>2, <3>3, Zenon
  <2>2. QED
    BY <1>1, <2>1, Zenon DEF LiveBeforePub
<1>14. OriginOrder'
  <2>1. ASSUME NEW c \in Conn, NEW i \in DOMAIN live'[c], NEW j \in DOMAIN live'[c], i < j,
               log[live'[c][i]] = log[live'[c][j]], log[live'[c][i]] \notin troubled
        PROVE  live'[c][i] < live'[c][j]
    <3>1. CASE live'[c] = live[c]
      BY <2>1, <3>1, Zenon DEF Ordered, OriginOrder
    <3>2. CASE live'[c] # live[c]
      <4>1. c \in local[n] /\ h.origin # n /\ \E k : Longer(live[c], h.seq, k, live'[c])
        BY <1>6, <3>2, Zenon
      <4>2. PICK k : Longer(live[c], h.seq, k, live'[c])
        BY <4>1, Zenon
      <4>3. i \in DOMAIN live[c] /\ live'[c][i] = live[c][i]
        BY <2>1, <4>2, Zenon DEF Longer
      <4>4. CASE j \in DOMAIN live[c]
        BY <2>1, <4>2, <4>3, <4>4, Zenon DEF Longer, Ordered, OriginOrder
      <4>5. CASE j = k
        BY <1>2, <1>4, <1>5, <2>1, <4>1, <4>2, <4>3, <4>5
           DEF Longer, Ordered, LiveBeforeInbox, Logged
      <4>6. QED
        BY <4>2, <4>4, <4>5, Zenon DEF Longer
    <3>3. QED
      BY <3>1, <3>2, Zenon
  <2>2. QED
    BY <1>1, <2>1, Zenon DEF OriginOrder
<1>15. QED
  BY <1>9, <1>10, <1>11, <1>12, <1>13, <1>14, Zenon DEF Ordered
----------------------------------------------------------------------------
(* Nothing of a connection's own process is missed.                        *)

\* A hub's broadcast adds to what its connections were sent.
LEMMA HubRange ==
    ASSUME TypeOK, NEW n \in Node, NEW q \in 1..MaxOps, HubBroadcast(n, q), NEW c \in Conn
    PROVE  /\ Range(live[c]) \subseteq Range(live'[c])
           /\ c \in local[n] => q \in Range(live'[c])
<1>1. live[c] \in Seq(1..MaxOps)
  BY Zenon DEF TypeOK
<1>2. q \in Range(Append(live[c], q)) /\ \A x \in Range(live[c]) : x \in Range(Append(live[c], q))
  BY <1>1, AppendRange, Zenon
<1>3. QED
  BY <1>2, HubSends, Zenon

\* Whatever a step sends or drops, a connection that is on keeps what it has.
LEMMA LocalOwedStep ==
    ASSUME TypeOK, Serving, Known, LocalOwed, [Next]_vars
    PROVE  LocalOwed'
<1>1. ASSUME NEW c \in Conn, NEW n \in Node, Subscribe(c, n) PROVE LocalOwed'
  BY <1>1 DEF Subscribe, TypeOK, LocalOwed
<1>2. ASSUME NEW c \in Conn, OnDocActive(c) PROVE LocalOwed'
  BY <1>2 DEF OnDocActive, TypeOK, LocalOwed
<1>3. ASSUME NEW c \in Conn, Replay(c) PROVE LocalOwed'
  BY <1>3, Zenon DEF Replay, TypeOK, LocalOwed
<1>4. ASSUME NEW c \in Conn, Deregister(c) PROVE LocalOwed'
  BY <1>4 DEF Deregister, TypeOK, LocalOwed
<1>5. ASSUME NEW c \in Conn, OnDocInactive(c) PROVE LocalOwed'
  BY <1>5 DEF OnDocInactive, TypeOK, LocalOwed
<1>6. ASSUME NEW n \in Node, RedisCommand(n) PROVE LocalOwed'
  BY <1>6, Zenon DEF RedisCommand, connVars, LocalOwed
<1>7. ASSUME NEW n \in Node, Commit(n) PROVE LocalOwed'
  <2>1. /\ log' = Append(log, n) /\ pub[n] = Nil
        /\ pub' = [pub EXCEPT ![n] = [seq |-> Len(log) + 1, next |-> "local"]]
        /\ pc' = pc /\ at' = at /\ replayed' = replayed /\ live' = live
    BY <1>7, Zenon DEF Commit, connVars
  <2>2. PICK q : q = Len(log) + 1
    BY Zenon
  <2>3. /\ DOMAIN log' = DOMAIN log \cup {q} /\ log'[q] = n
        /\ \A i \in DOMAIN log : log'[i] = log[i]
    <3>1. log \in Seq(Node \cup {Nil})
      BY Zenon DEF TypeOK
    <3>2. QED
      BY <2>1, <2>2, <3>1, AppendAt
  <2>4. q \in 1..MaxOps
    <3>1. Len(log) < MaxOps /\ log \in Seq(Node \cup {Nil})
      BY <1>7, Zenon DEF Commit, TypeOK
    <3>2. Len(log) \in Nat
      BY <3>1
    <3>3. QED
      BY <2>2, <3>1, <3>2, BoundsAssumption
  <2>5. pub'[n] = [seq |-> q, next |-> "local"] /\ \A m \in Node \ {n} : pub'[m] = pub[m]
    <3>1. pub \in [Node -> Broadcasting \cup {Nil}]
      BY Zenon DEF TypeOK
    <3>2. pub' = [pub EXCEPT ![n] = [seq |-> q, next |-> "local"]]
      BY <2>1, <2>2, Zenon
    <3>3. QED
      BY <3>1, <3>2, Zenon
  <2>6. pub'[n] # Nil /\ pub'[n].seq = q /\ pub'[n].next = "local"
    <3> DEFINE b == [seq |-> q, next |-> "local"]
    <3>1. b # Nil /\ b.seq = q /\ b.next = "local"
      <4>1. b # Nil
        BY <2>4, Fields, Zenon
      <4>2. b.seq = q /\ b.next = "local"
        OBVIOUS
      <4>3. QED
        BY <4>1, <4>2, Zenon
    <3>2. pub'[n] = b
      BY <2>5, Zenon
    <3> HIDE DEF b
    <3>3. QED
      BY <3>1, <3>2, Zenon
  <2>7. \A c \in Conn : pc[c] = "on" => at[c] \in Node
    BY Zenon DEF Serving
  <2>8. QED
    BY <2>1, <2>3, <2>5, <2>6, <2>7 DEF LocalOwed
<1>14. ASSUME NEW n \in Node, CommitReplyLost(n) PROVE LocalOwed'
  <2>1. /\ log' = Append(log, Nil) /\ pub' = pub
        /\ pc' = pc /\ at' = at /\ replayed' = replayed /\ live' = live
    BY <1>14, Zenon DEF CommitReplyLost, connVars
  <2>2. PICK q : q = Len(log) + 1
    BY Zenon
  <2>3. /\ DOMAIN log' = DOMAIN log \cup {q} /\ log'[q] = Nil
        /\ \A i \in DOMAIN log : log'[i] = log[i]
    <3>1. log \in Seq(Node \cup {Nil})
      BY Zenon DEF TypeOK
    <3>2. QED
      BY <2>1, <2>2, <3>1, AppendAt
  <2>4. \A c \in Conn : pc[c] = "on" => at[c] # Nil
    BY ClusterNil DEF Serving
  <2>5. QED
    BY <2>1, <2>3, <2>4 DEF LocalOwed
<1>8. ASSUME NEW n \in Node, LocalBroadcast(n) PROVE LocalOwed'
  <2>1. /\ pub[n] # Nil /\ HubBroadcast(n, pub[n].seq)
        /\ pub' = [pub EXCEPT ![n] = [seq |-> pub[n].seq, next |-> "publish"]]
        /\ log' = log /\ pc' = pc /\ at' = at /\ replayed' = replayed
    BY <1>8, Zenon DEF LocalBroadcast
  <2>2. PICK q : q = pub[n].seq
    BY Zenon
  <2>3. \A m \in Node \ {n} : pub'[m] = pub[m]
    BY <2>1, Zenon DEF TypeOK
  <2>4. ASSUME NEW c \in Conn
        PROVE  /\ Range(live[c]) \subseteq Range(live'[c])
               /\ c \in local[n] => q \in Range(live'[c])
    BY <2>1, <2>2, HubRange, BroadcastSeq, Zenon
  <2>5. \A c \in Conn : pc[c] = "on" => at[c] \in Node /\ (at[c] = n => c \in local[n])
    BY Zenon DEF Serving
  <2>6. QED
    BY <2>1, <2>2, <2>3, <2>4, <2>5 DEF LocalOwed
<1>9. ASSUME NEW n \in Node, Publish(n) \/ PublishFails(n) PROVE LocalOwed'
  <2>1. /\ pub[n].next = "publish" /\ pub' = [pub EXCEPT ![n] = Nil]
        /\ log' = log /\ pc' = pc /\ at' = at /\ replayed' = replayed /\ live' = live
    BY <1>9, Zenon DEF Publish, PublishFails, connVars
  <2>2. \A m \in Node \ {n} : pub'[m] = pub[m]
    BY <2>1, Zenon DEF TypeOK
  <2>3. \A c \in Conn : pc[c] = "on" => at[c] \in Node
    BY Zenon DEF Serving
  <2>4. QED
    BY <2>1, <2>2, <2>3 DEF LocalOwed
<1>10. ASSUME NEW msg \in late, LatePublish(msg) PROVE LocalOwed'
  BY <1>10, Zenon DEF LatePublish, connVars, LocalOwed
<1>15. ASSUME NEW n \in Node, PublishRetried(n) PROVE LocalOwed'
  BY <1>15, Zenon DEF PublishRetried, connVars, LocalOwed
<1>11. ASSUME NEW n \in Node, Receive(n) PROVE LocalOwed'
  <2>1. /\ pub' = pub /\ log' = log /\ pc' = pc /\ at' = at /\ replayed' = replayed
        /\ inbox[n] # <<>>
        /\ live' = live \/ HubBroadcast(n, Head(inbox[n]).seq)
    BY <1>11, Zenon DEF Receive
  <2>2. Head(inbox[n]).seq \in 1..MaxOps
    <3>1. inbox[n] \in Seq(Message)
      BY Zenon DEF TypeOK
    <3>2. QED
      BY <2>1, <3>1, TailAt, Fields, Zenon
  <2>3. ASSUME NEW c \in Conn PROVE Range(live[c]) \subseteq Range(live'[c])
    BY <2>1, <2>2, HubRange, Zenon
  <2>4. QED
    BY <2>1, <2>3, Zenon DEF LocalOwed
<1>12. CASE UNCHANGED vars
  BY <1>12, Zenon DEF vars, connVars, LocalOwed
<1>13. QED
  BY <1>1, <1>2, <1>3, <1>4, <1>5, <1>6, <1>7, <1>8, <1>9, <1>10, <1>11, <1>12,
     <1>14, <1>15, Zenon DEF Next
----------------------------------------------------------------------------
(* The theorems.                                                           *)

\* Operations reach a connection in the order of their process, step by step.
LEMMA OrderStep ==
    ASSUME TypeOK, TypeOK', Serving, Serving', Known, Ordered, [Next]_vars
    PROVE  Known' /\ Ordered'
<1>1. CASE CalmStep
  BY <1>1, CalmSteps, CalmOrder, Zenon
<1>2. CASE ~CalmStep
  BY <1>2, CommitOrder, CommitReplyLostOrder, LocalBroadcastOrder, PublishOrder, PublishFailsOrder,
     PublishRetriedOrder, LatePublishOrder, ReceiveOrder, Zenon DEF CalmStep, Next
<1>3. QED
  BY <1>1, <1>2, Zenon

LEMMA InitCluster == Init => ClusterInv
<1> SUFFICES ASSUME Init PROVE ClusterInv
  BY Zenon
<1>1. TypeOK
  BY BoundsAssumption DEF Init, TypeOK
<1>2. Serving
  BY ClusterNil, Zenon DEF Init, Serving
<1>3. Known /\ Ordered
  BY DEF Init, Known, Ordered, InboxOrder, LiveBeforeInbox, InboxBeforePub, LiveBeforePub, OriginOrder
<1>4. LocalOwed
  BY Zenon DEF Init, LocalOwed
<1>5. QED
  BY <1>1, <1>2, <1>3, <1>4, Zenon DEF ClusterInv

\* The inductive invariant of the cluster: every value has its type, the hubs
\* list who they serve, and what is further down the path is older.
THEOREM ClusterInvariant == Spec => []ClusterInv
<1>1. ClusterInv /\ [Next]_vars => ClusterInv'
  BY TypeStep, ServingStep, OrderStep, LocalOwedStep, Zenon DEF ClusterInv
<1>2. QED
  BY <1>1, InitCluster, PTL DEF Spec

\* Every value has its type, for any number of processes and connections.
THEOREM ClusterTyped == Spec => []TypeOK
BY ClusterInvariant, PTL DEF ClusterInv

\* A connection is sent the operations of a process in the order of their seqs
\* and none of them twice, unless a publish of that process timed out
\* (node.go:131-195).
THEOREM ClusterOriginOrder == Spec => []OriginOrder
<1>1. ClusterInv => OriginOrder
  BY Zenon DEF ClusterInv, Ordered
<1>2. QED
  BY <1>1, ClusterInvariant, PTL

\* Whatever Redis does, a connection gets what Submit reported as committed on
\* its own process after its Replay (node.go:131-137).
THEOREM ClusterLocalComplete == Spec => []LocalComplete
<1>1. ClusterInv => LocalComplete
  BY Zenon DEF ClusterInv, LocalOwed, LocalComplete
<1>2. QED
  BY <1>1, ClusterInvariant, PTL

----------------------------------------------------------------------------
(* The operations of the cluster are a Stream, as the engine promises.     *)

Sending == [n \in Node |-> IF pub[n] = Nil THEN {} ELSE {pub[n].seq}]

B == INSTANCE Stream WITH len <- Len(log), sending <- Sending

\* The commits and the broadcasts of the cluster are those that the engine
\* makes of Submit (engine.go:96-145), which is all that this module takes of it.
THEOREM ClusterStreams == Spec => B!Spec
<1>1. Init => B!Init
  BY DEF Init, B!Init, Sending
<1>2. ASSUME TypeOK, [Next]_vars
      PROVE  [B!Next]_(B!vars)
  <2>1. ASSUME NEW n \in Node, Commit(n)
        PROVE  B!Next
    <3>1. /\ pub[n] = Nil /\ log' = Append(log, n)
          /\ pub' = [pub EXCEPT ![n] = [seq |-> Len(log) + 1, next |-> "local"]]
      BY <2>1, Zenon DEF Commit
    <3>2. pub'[n] # Nil /\ pub'[n].seq = Len(log) + 1
      <4>1. Len(log) + 1 \in 1..MaxOps
        BY <1>2, <2>1, BoundsAssumption DEF TypeOK, Commit
      <4>2. /\ [seq |-> Len(log) + 1, next |-> "local"] # Nil
            /\ [seq |-> Len(log) + 1, next |-> "local"].seq = Len(log) + 1
        BY <4>1, Fields, Zenon
      <4> QED
        BY <1>2, <3>1, <4>2, Zenon DEF TypeOK
    <3>3. Sending[n] = {} /\ Sending' = [Sending EXCEPT ![n] = {Len(log) + 1}]
      BY <1>2, <3>1, <3>2, Zenon DEF Sending, TypeOK
    <3>4. Len(log)' = Len(log) + 1
      BY <1>2, <3>1 DEF TypeOK
    <3> QED
      BY <3>3, <3>4, Zenon DEF B!Next, B!Commit
  <2>2. ASSUME NEW n \in Node, CommitReplyLost(n)
        PROVE  B!Next
    <3>1. pub' = pub /\ Len(log)' = Len(log) + 1
      BY <1>2, <2>2 DEF CommitReplyLost, TypeOK
    <3> QED
      BY <3>1, Zenon DEF Sending, B!Next, B!CommitReplyLost
  <2>3. ASSUME NEW n \in Node, LocalBroadcast(n)
        PROVE  UNCHANGED B!vars
    <3>1. /\ pub[n] # Nil /\ log' = log
          /\ pub' = [pub EXCEPT ![n] = [seq |-> pub[n].seq, next |-> "publish"]]
      BY <2>3, Zenon DEF LocalBroadcast
    <3>2. pub'[n] # Nil /\ pub'[n].seq = pub[n].seq
      <4>1. pub[n].seq \in 1..MaxOps
        BY <1>2, <3>1, BroadcastSeq, Zenon
      <4>2. /\ [seq |-> pub[n].seq, next |-> "publish"] # Nil
            /\ [seq |-> pub[n].seq, next |-> "publish"].seq = pub[n].seq
        BY <4>1, Fields, Zenon
      <4> QED
        BY <1>2, <3>1, <4>2, Zenon DEF TypeOK
    <3>3. Sending' = Sending
      BY <1>2, <3>1, <3>2, Zenon DEF Sending, TypeOK
    <3> QED
      BY <3>1, <3>3, Zenon DEF B!vars
  <2>4. ASSUME NEW n \in Node, Publish(n) \/ PublishFails(n)
        PROVE  B!Next
    <3>1. pub[n] # Nil /\ log' = log /\ pub' = [pub EXCEPT ![n] = Nil]
      BY <2>4, Zenon DEF Publish, PublishFails
    <3>2. Sending[n] # {} /\ Sending' = [Sending EXCEPT ![n] = {}]
      BY <1>2, <3>1, Zenon DEF Sending, TypeOK
    <3> QED
      BY <3>1, <3>2, Zenon DEF B!Next, B!Sent
  <2>5. ASSUME \A n \in Node : ~Commit(n) /\ ~CommitReplyLost(n) /\ ~LocalBroadcast(n)
                                /\ ~Publish(n) /\ ~PublishFails(n)
        PROVE  UNCHANGED B!vars
    <3>1. log' = log /\ pub' = pub
      BY <1>2, <2>5, Zenon DEF Next, vars, Subscribe, OnDocActive, Replay, Deregister,
         OnDocInactive, RedisCommand, Receive, LatePublish, PublishRetried
    <3> QED
      BY <3>1, Zenon DEF Sending, B!vars
  <2> QED
    BY <2>1, <2>2, <2>3, <2>4, <2>5, Zenon
<1> QED
  BY <1>1, <1>2, ClusterTyped, PTL DEF Spec, B!Spec
=============================================================================
