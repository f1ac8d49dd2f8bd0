--------------------------- MODULE DeliveryProofs ---------------------------
(***************************************************************************)
(* That no committed operation falls between replay and live delivery,     *)
(* that live operations keep their order in every queue and that slots are *)
(* counted exactly, for any number of clients and operations, any queue    *)
(* and batch size.                                                         *)
(***************************************************************************)
EXTENDS Delivery, FiniteSetTheorems, WellFoundedInduction, TLAPS
----------------------------------------------------------------------------
(* Numbers.                                                                *)

\* A nonempty set of naturals has a least element.
LEMMA LeastNatural == \A T \in SUBSET Nat : T # {} => \E x \in T : \A y \in T : x <= y
<1> SUFFICES ASSUME NEW T \in SUBSET Nat, T # {} PROVE \E x \in T : \A y \in T : x <= y
  BY Zenon
<1>1. PICK x \in T : \A y \in T : ~ (<<y, x>> \in OpToRel(<, Nat))
  BY NatLessThanWellFounded, WFMin, Zenon
<1>2. \A y \in T : y < x => <<y, x>> \in OpToRel(<, Nat)
  BY Zenon DEF OpToRel
<1>3. \A y \in T : ~(y < x)
  BY <1>1, <1>2, Zenon
<1> QED
  BY <1>3

\* A nonempty bounded one has a greatest element, which Max yields.
LEMMA MaxBounded ==
    ASSUME NEW n \in Nat, NEW T \in SUBSET (0..n), T # {}
    PROVE  Max(T) \in T /\ \A y \in T : Max(T) >= y
<1> DEFINE D == {n - t : t \in T}
<1>1. D \in SUBSET Nat /\ D # {}
  <2>1. PICK t \in T : n - t \in D
    BY Zenon
  <2> QED
    BY <2>1
<1>2. PICK d \in D : \A y \in D : d <= y
  BY <1>1, LeastNatural, Zenon
<1>3. PICK x \in T : d = n - x
  BY Zenon
<1>4. \A y \in T : x >= y
  <2> SUFFICES ASSUME NEW y \in T PROVE x >= y
    BY Zenon
  <2>1. n - y \in D
    BY Zenon
  <2> QED
    BY <1>2, <1>3, <2>1
<1> QED
  BY <1>4, Zenon DEF Max

\* The batches of Replay cover the operations: Total many of ReplayBatch each.
LEMMA TotalCovers ==
    \A n \in Nat : Total(n) \in Nat \ {0} /\ Total(n) * ReplayBatch >= n
<1> SUFFICES ASSUME NEW n \in Nat PROVE Total(n) \in Nat \ {0} /\ Total(n) * ReplayBatch >= n
  BY Zenon
<1> DEFINE t == (n + ReplayBatch - 1) \div ReplayBatch
<1>1. t \in Nat /\ t * ReplayBatch >= n
  BY ReplayBatchAssumption
<1>2. Total(n) = IF t = 0 THEN 1 ELSE t
  BY Zenon DEF Total
<1> HIDE DEF t
<1> QED
  BY <1>1, <1>2, ReplayBatchAssumption

\* Seqs and cursors are naturals, and so is the log's length.
LEMMA SeqsNat == Seqs \subseteq Nat /\ 0..MaxOps \subseteq Nat
BY MaxOpsAssumption DEF Seqs

LEMMA LogTyped == \A s \in Seq(Client \cup {Nil}) : Len(s) \in Nat
OBVIOUS

\* A member of an interval below a smaller bound.
LEMMA Below == \A a, b, n \in Nat : \A i \in (a + 1)..n : i <= b => i \in (a + 1)..b
OBVIOUS

\* A position past a and up to b: it is at most b, and the i - a th of the b - a.
LEMMA Between ==
    \A a, b \in Nat : \A i \in (a + 1)..b :
        /\ i \in Nat /\ i \in 1..b /\ a < b
        /\ b - a \in Nat /\ i - a \in 1..(b - a) /\ a + (i - a) = i
OBVIOUS

\* The last position of a longer log is either old or the new one.
LEMMA OldOrNew ==
    \A a, b \in Nat : b = a + 1 => \A i \in 1..b : i <= a \/ i = b
OBVIOUS

LEMMA AtMost == \A a, b \in Nat : \A i \in 1..b : i <= b /\ (i <= a => i \in 1..a)
OBVIOUS
----------------------------------------------------------------------------
(* Queues.                                                                 *)

\* What a frame carries are seqs of the log.
LEMMA CarriedTyped == \A f \in Frame : Carried(f) \subseteq Seqs
BY Zenon DEF Frame, Carried

\* Queueing a frame adds what it carries.
LEMMA QueuedAppend ==
    ASSUME NEW q \in Seq(Frame), NEW f \in Frame
    PROVE  Queued(Append(q, f)) = Queued(q) \cup Carried(f)
<1> DEFINE p == Append(q, f)
<1>1. /\ DOMAIN p = DOMAIN q \cup {Len(q) + 1} /\ p[Len(q) + 1] = f
      /\ \A i \in DOMAIN q : p[i] = q[i]
  OBVIOUS
<1> HIDE DEF p
<1>2. Carried(f) \subseteq Queued(p)
  BY <1>1, Zenon DEF Queued
<1>3. Queued(q) \subseteq Queued(p)
  <2>1. ASSUME NEW i \in DOMAIN q PROVE Carried(q[i]) \subseteq Queued(p)
    <3>1. i \in DOMAIN p /\ p[i] = q[i]
      BY <1>1, Zenon
    <3> QED
      BY <3>1, Zenon DEF Queued
  <2> QED
    BY <2>1, Zenon DEF Queued
<1>4. Queued(p) \subseteq Queued(q) \cup Carried(f)
  <2>1. ASSUME NEW i \in DOMAIN p PROVE Carried(p[i]) \subseteq Queued(q) \cup Carried(f)
    <3>1. (i \in DOMAIN q /\ p[i] = q[i]) \/ p[i] = f
      BY <1>1, Zenon
    <3> QED
      BY <3>1, Zenon DEF Queued
  <2> QED
    BY <2>1, Zenon DEF Queued
<1> QED
  BY <1>2, <1>3, <1>4, Zenon DEF p

\* Writing the head of a queue removes no more than what the head carries.
LEMMA QueuedTail ==
    ASSUME NEW q \in Seq(Frame), q # <<>>
    PROVE  Queued(q) = Carried(Head(q)) \cup Queued(Tail(q))
<1> DEFINE p == Tail(q)
<1>1. /\ Len(q) \in Nat \ {0} /\ DOMAIN q = 1..Len(q) /\ DOMAIN p = 1..(Len(q) - 1)
      /\ Head(q) = q[1] /\ \A i \in DOMAIN p : p[i] = q[i + 1]
  OBVIOUS
<1> HIDE DEF p
<1>2. ASSUME NEW i \in DOMAIN q PROVE Carried(q[i]) \subseteq Carried(q[1]) \cup Queued(p)
  <2>1. i = 1 \/ (i - 1 \in DOMAIN p /\ p[i - 1] = q[i])
    BY <1>1
  <2> QED
    BY <2>1, Zenon DEF Queued
<1>3. ASSUME NEW i \in DOMAIN p PROVE Carried(p[i]) \subseteq Queued(q)
  <2>1. i + 1 \in DOMAIN q /\ p[i] = q[i + 1]
    BY <1>1
  <2> QED
    BY <2>1, Zenon DEF Queued
<1>4. Carried(q[1]) \subseteq Queued(q)
  BY <1>1 DEF Queued
<1>5. Queued(q) \subseteq Carried(q[1]) \cup Queued(p)
  BY <1>2, Zenon DEF Queued
<1>6. Queued(p) \subseteq Queued(q)
  BY <1>3, Zenon DEF Queued
<1> QED
  BY <1>1, <1>4, <1>5, <1>6, Zenon DEF p

\* enqueueErr touches one connection: the frame is queued, or the connection is
\* closed, by this call or before.
LEMMA EnqueueEffect ==
    ASSUME TypeOK, NEW c \in Client, NEW f \in Frame, Enqueue(c, f)
    PROVE  /\ queue' \in [Client -> Seq(Frame)] /\ done' \in [Client -> BOOLEAN]
           /\ \A b \in Client : Len(queue'[b]) <= QueueSize
           /\ \A b \in Client : b # c => queue'[b] = queue[b] /\ done'[b] = done[b]
           /\ queue'[c] \in {queue[c], Append(queue[c], f)}
           /\ ~done'[c] => ~done[c] /\ queue'[c] = Append(queue[c], f)
<1>1. CASE done[c] \/ Full(c)
  <2>1. queue' = queue /\ done' = [done EXCEPT ![c] = TRUE]
    BY <1>1, Zenon DEF Enqueue, TypeOK, Full
  <2> QED
    BY <2>1, Zenon DEF TypeOK
<1>2. CASE ~done[c] /\ ~Full(c)
  <2>1. queue' = [queue EXCEPT ![c] = Append(queue[c], f)] /\ done' = [done EXCEPT ![c] = FALSE]
    BY <1>2, Zenon DEF Enqueue
  <2>2. Len(Append(queue[c], f)) <= QueueSize
    BY <1>2, QueueSizeAssumption DEF Full, TypeOK
  <2> QED
    BY <1>2, <2>1, <2>2 DEF TypeOK
<1> QED
  BY <1>1, <1>2, Zenon
----------------------------------------------------------------------------
(* The live operations of a queue.                                         *)

\* The live operations of queue q come after last, in order, none after top.
Ascends(q, last, top) ==
    LET live == {i \in DOMAIN q : q[i].type = "sync"} IN
    /\ last <= top
    /\ \A i \in live : last < q[i].seq /\ q[i].seq <= top
    /\ \A i, j \in live : i < j => q[i].seq < q[j].seq

\* The bound may grow.
LEMMA AscendsGrows ==
    ASSUME NEW q \in Seq(Frame), NEW last \in Nat, NEW top \in Nat, NEW more \in Nat,
           Ascends(q, last, top), top <= more
    PROVE  Ascends(q, last, more)
<1>1. \A i \in DOMAIN q : q[i].type = "sync" => q[i].seq \in Nat
  BY DEF Frame, Seqs
<1> QED
  BY <1>1 DEF Ascends

\* The next live operation, or a frame of another type, may be appended.
LEMMA AscendsAppend ==
    ASSUME NEW q \in Seq(Frame), NEW last \in Nat, NEW top \in Nat, NEW f \in Frame,
           Ascends(q, last, top)
    PROVE  /\ f.type # "sync" => Ascends(Append(q, f), last, top)
           /\ f.type = "sync" /\ f.seq = top + 1 => Ascends(Append(q, f), last, top + 1)
<1> DEFINE p == Append(q, f)
<1>1. /\ DOMAIN p = 1..(Len(q) + 1) /\ DOMAIN q = 1..Len(q) /\ Len(q) \in Nat
      /\ p[Len(q) + 1] = f /\ \A i \in DOMAIN q : p[i] = q[i]
  OBVIOUS
<1>2. \A i \in DOMAIN q : q[i].type = "sync" => q[i].seq \in Nat
  BY DEF Frame, Seqs
<1> HIDE DEF p
<1>3. \A i \in DOMAIN p : (i \in DOMAIN q /\ p[i] = q[i]) \/ (i = Len(q) + 1 /\ p[i] = f)
  BY <1>1
<1>4. \A i \in DOMAIN q : i < Len(q) + 1
  BY <1>1
<1>5. ASSUME f.type # "sync" PROVE Ascends(p, last, top)
  BY <1>3, <1>5, Zenon DEF Ascends
<1>6. ASSUME f.type = "sync", f.seq = top + 1 PROVE Ascends(p, last, top + 1)
  <2> DEFINE live == {i \in DOMAIN p : p[i].type = "sync"}
  <2>1. \A i \in live : last < p[i].seq /\ p[i].seq <= top + 1
    BY <1>2, <1>3, <1>6 DEF Ascends
  <2>2. ASSUME NEW i \in live, NEW j \in live, i < j PROVE p[i].seq < p[j].seq
    <3>1. i \in DOMAIN q /\ p[i] = q[i] /\ q[i].type = "sync" /\ q[i].seq \in Nat /\ q[i].seq <= top
      BY <1>1, <1>2, <1>3, <2>2 DEF Ascends
    <3>2. CASE p[j] = f
      BY <1>6, <3>1, <3>2
    <3>3. CASE j \in DOMAIN q /\ p[j] = q[j]
      BY <2>2, <3>1, <3>3, Zenon DEF Ascends
    <3> QED
      BY <1>3, <3>2, <3>3, Zenon
  <2>3. last <= top + 1
    BY DEF Ascends
  <2> QED
    BY <2>1, <2>2, <2>3, Zenon DEF Ascends
<1> QED
  BY <1>5, <1>6, Zenon DEF p

\* Writing the head keeps the order.
LEMMA AscendsTail ==
    ASSUME NEW q \in Seq(Frame), q # <<>>, NEW last \in Nat, NEW top \in Nat,
           Ascends(q, last, top)
    PROVE  Ascends(Tail(q), IF Head(q).type = "sync" THEN Head(q).seq ELSE last, top)
<1> DEFINE p == Tail(q)
<1>1. /\ Len(q) \in Nat \ {0} /\ DOMAIN q = 1..Len(q) /\ DOMAIN p = 1..(Len(q) - 1)
      /\ Head(q) = q[1] /\ \A i \in DOMAIN p : p[i] = q[i + 1]
  OBVIOUS
<1>2. \A i \in DOMAIN q : q[i].type = "sync" => q[i].seq \in Nat
  BY DEF Frame, Seqs
<1> HIDE DEF p
<1>3. /\ 1 \in DOMAIN q
      /\ \A i \in DOMAIN p : i + 1 \in DOMAIN q /\ p[i] = q[i + 1] /\ 1 < i + 1
      /\ \A i, j \in DOMAIN p : i < j => i + 1 < j + 1
  BY <1>1
<1>4. Ascends(p, IF q[1].type = "sync" THEN q[1].seq ELSE last, top)
  BY <1>2, <1>3, Zenon DEF Ascends
<1> QED
  BY <1>1, <1>4, Zenon DEF p
----------------------------------------------------------------------------
(* The batches of a Replay.                                                *)

\* The elements of a part of a sequence.
LEMMA RangeSubSeq ==
    ASSUME NEW s \in Seq(Seqs), NEW a \in Nat \ {0}, NEW b \in 0..Len(s)
    PROVE  Range(SubSeq(s, a, b)) = {s[i] : i \in a..b}
<1> DEFINE p == SubSeq(s, a, b)
<1>1. /\ DOMAIN p = 1..(IF a <= b THEN b - a + 1 ELSE 0)
      /\ \A i \in DOMAIN p : p[i] = s[a + i - 1]
  OBVIOUS
<1> HIDE DEF p
<1>2. \A i \in DOMAIN p : a + i - 1 \in a..b /\ p[i] = s[a + i - 1]
  BY <1>1
<1>3. \A i \in a..b : i - a + 1 \in DOMAIN p /\ p[i - a + 1] = s[i]
  BY <1>1
<1>4. \A x : x \in {p[i] : i \in DOMAIN p} => x \in {s[i] : i \in a..b}
  BY <1>2, Zenon
<1>5. \A x : x \in {s[i] : i \in a..b} => x \in {p[i] : i \in DOMAIN p}
  BY <1>3, Zenon
<1>6. Range(p) = {s[i] : i \in a..b}
  BY <1>4, <1>5, Zenon DEF Range
<1> QED
  BY <1>6, Zenon DEF p

LEMMA WholeRange == \A s \in Seq(Seqs) : Range(SubSeq(s, 1, Len(s))) = {s[j] : j \in 1..Len(s)}
<1> SUFFICES ASSUME NEW s \in Seq(Seqs) PROVE Range(SubSeq(s, 1, Len(s))) = {s[j] : j \in 1..Len(s)}
  BY Zenon
<1>1. Len(s) \in 0..Len(s) /\ 1 \in Nat \ {0}
  OBVIOUS
<1> QED
  BY <1>1, RangeSubSeq, Zenon

\* Batch b is the operations from b * ReplayBatch + 1 to the end of the batch.
LEMMA BatchElements ==
    ASSUME NEW s \in Seq(Seqs), NEW b \in Nat
    PROVE  /\ b * ReplayBatch \in Nat /\ (b + 1) * ReplayBatch = b * ReplayBatch + ReplayBatch
           /\ Range(Batch(s, b)) =
                {s[i] : i \in (b * ReplayBatch + 1)..
                    (IF (b + 1) * ReplayBatch <= Len(s) THEN (b + 1) * ReplayBatch ELSE Len(s))}
<1>1. b * ReplayBatch \in Nat /\ (b + 1) * ReplayBatch = b * ReplayBatch + ReplayBatch
  BY ReplayBatchAssumption
<1>2. \A x, y \in Nat : Min({x, y}) = IF x <= y THEN x ELSE y
  BY DEF Min
<1>3. PICK x \in Nat : x = b * ReplayBatch
  BY <1>1, Zenon
<1>4. PICK y \in Nat : y = (b + 1) * ReplayBatch
  BY <1>1, <1>3, ReplayBatchAssumption
<1>5. Min({y, Len(s)}) = IF y <= Len(s) THEN y ELSE Len(s)
  BY <1>2
<1>6. Range(SubSeq(s, x + 1, Min({y, Len(s)}))) = {s[i] : i \in (x + 1)..(IF y <= Len(s) THEN y ELSE Len(s))}
  BY <1>5, RangeSubSeq
<1> QED
  BY <1>1, <1>3, <1>4, <1>6, Zenon DEF Batch
----------------------------------------------------------------------------
(* The inductive invariant.                                                *)

\* The read loops that are about to commit, and the connections that hold a slot.
Submitters == {c \in Client : pc[c] = "submit"}
Held == {c \in Client : phase[c] # "away"}

\* The bound on operations leaves room for those about to be committed.
Room == IsFiniteSet(Submitters) /\ Len(log) + Cardinality(Submitters) <= MaxOps

\* A broadcast is of the last operation of the log, whose author waits for it.
Casting == bc # Nil => bc.seq = Len(log) /\ Len(log) > 0 /\ pc[bc.by] = "broadcast"

\* A connection notes its own session, and one that is promised operations is in
\* the hub.
Noted(c) == subs[c] \in {c, Nil} /\ (owed[c] => c \in hubDocs)

\* Will the broadcast in progress still visit the connection?
Pending(c) == bc # Nil /\ (bc.targets = Nil \/ c \in bc.targets)

\* The connection is behind the operation that a broadcast still owes it.
Ordered(c) == Ascends(queue[c], lastLive[c], IF Pending(c) THEN Len(log) - 1 ELSE Len(log))

\* What NoGap says of one connection.
Covered(c) ==
    phase[c] = "open" /\ ~done[c] /\ owed[c] /\ pc[c] # "load" =>
        \A i \in (base[c] + 1)..Len(log) :
            \/ i \in seen[c] \cup Queued(queue[c]) \cup Remaining(c)
            \/ Pending(c) /\ i = Len(log)
            \/ log[i] \in {c, Nil}

\* The slots and the hub.
Slots == IsFiniteSet(Held) /\ SlotsExact

DeliveryInv ==
    /\ TypeOK /\ Room /\ Casting
    /\ Slots
    /\ \A c \in Client : Noted(c) /\ Ordered(c) /\ Covered(c)

\* A client's last_seq is a seq of the log or 0.
LEMMA CursorTyped ==
    ASSUME TypeOK, NEW c \in Client
    PROVE  Cursor(c) \in 0..MaxOps
<1>1. seen[c] \cup {0} \in SUBSET (0..MaxOps) /\ seen[c] \cup {0} # {}
  BY MaxOpsAssumption DEF TypeOK, Seqs
<1> QED
  BY <1>1, MaxBounded, MaxOpsAssumption, Zenon DEF Cursor

\* The frames the server queues.
LEMMA FrameTyped ==
    /\ [type |-> "other"] \in Frame /\ [type |-> "error"] \in Frame /\ [type |-> "ack"] \in Frame
    /\ \A i \in Seqs : [type |-> "sync", seq |-> i] \in Frame
    /\ \A x \in SUBSET Seqs, l \in BOOLEAN :
         [type |-> "replay", ops |-> x, done |-> l] \in Frame
BY Zenon DEF Frame

\* The frame of a Replay's batch.
LEMMA BatchTyped ==
    ASSUME TypeOK, NEW c \in Client, NEW l \in BOOLEAN
    PROVE  [type |-> "replay", ops |-> Range(Batch(todo[c].ops, todo[c].batch)), done |-> l] \in Frame
<1>1. todo[c].ops \in Seq(Seqs) /\ todo[c].batch \in Nat
  BY Zenon DEF TypeOK
<1>2. \A i \in DOMAIN todo[c].ops : todo[c].ops[i] \in Seqs
  BY <1>1
<1>3. PICK x \in Nat : x = todo[c].batch * ReplayBatch
  BY <1>1, BatchElements, Zenon
<1>4. PICK y : /\ y = IF (todo[c].batch + 1) * ReplayBatch <= Len(todo[c].ops)
                      THEN (todo[c].batch + 1) * ReplayBatch ELSE Len(todo[c].ops)
               /\ Range(Batch(todo[c].ops, todo[c].batch)) = {todo[c].ops[i] : i \in (x + 1)..y}
  BY <1>1, <1>3, BatchElements, Zenon
<1>5. y \in Nat /\ y <= Len(todo[c].ops)
  <2>1. PICK z \in Nat : z = (todo[c].batch + 1) * ReplayBatch
    <3>1. todo[c].batch + 1 \in Nat
      BY <1>1
    <3> QED
      BY <1>1, <3>1, BatchElements, Zenon
  <2>2. PICK n \in Nat : n = Len(todo[c].ops)
    BY <1>1
  <2>3. y = IF z <= n THEN z ELSE n
    BY <1>4, <2>1, <2>2, Zenon
  <2>4. y \in Nat /\ y <= n
    BY <2>3
  <2> QED
    BY <2>2, <2>4, Zenon
<1>6. \A i \in (x + 1)..y : i \in DOMAIN todo[c].ops
  BY <1>1, <1>5
<1>7. Range(Batch(todo[c].ops, todo[c].batch)) \in SUBSET Seqs
  BY <1>2, <1>4, <1>6, Zenon
<1> QED
  BY <1>7, FrameTyped, Zenon
----------------------------------------------------------------------------
(* Types and the counts of connections and submits.                        *)

\* The steps that only admit, drop and tear down connections keep the types.
LEMMA TypeLife ==
    ASSUME TypeOK, NEW c \in Client,
           TryRegister(c) \/ Release(c) \/ Accept(c) \/ Drop(c) \/ Deregister(c)
    PROVE  TypeOK'
<1>1. CASE TryRegister(c)
  BY <1>1 DEF TypeOK, TryRegister, clientVars
<1>2. CASE Release(c)
  BY <1>2 DEF TypeOK, Release, clientVars
<1>3. CASE Accept(c)
  BY <1>3, Zenon DEF TypeOK, Accept, clientVars
<1>4. CASE Drop(c)
  BY <1>4, Zenon DEF TypeOK, Drop, clientVars
<1>5. CASE Deregister(c)
  <2>1. active' \in Nat /\ hubDocs' \subseteq Client
    BY <1>5 DEF TypeOK, Deregister
  <2>2. bc' = Nil \/ bc' \in [by : Client, seq : Seqs, targets : (SUBSET Client) \cup {Nil}]
    <3>1. bc' = DropTarget(c)
      BY <1>5, Zenon DEF Deregister
    <3>2. CASE bc # Nil /\ bc.targets # Nil
      <4>1. bc \in [by : Client, seq : Seqs, targets : (SUBSET Client) \cup {Nil}]
        BY <3>2, Zenon DEF TypeOK
      <4>2. bc' = Aimed(bc.targets \ {c})
        BY <3>1, <3>2, Zenon DEF DropTarget
      <4> QED
        BY <3>2, <4>1, <4>2, Zenon DEF Aimed
    <3>3. CASE ~(bc # Nil /\ bc.targets # Nil)
      BY <3>1, <3>3, Zenon DEF DropTarget, TypeOK
    <3> QED
      BY <3>2, <3>3, Zenon
  <2>3. queue' \in [Client -> Seq(Frame)] /\ \A b \in Client : Len(queue'[b]) <= QueueSize
    <3>1. queue' = [queue EXCEPT ![c] = <<>>] /\ <<>> \in Seq(Frame) /\ Len(<<>>) = 0
      BY <1>5 DEF Deregister
    <3> QED
      BY <3>1, QueueSizeAssumption DEF TypeOK
  <2>4. base' \in [Client -> 0..MaxOps] /\ lastLive' \in [Client -> 0..MaxOps]
    BY <1>5, MaxOpsAssumption DEF TypeOK, Deregister
  <2> QED
    BY <1>5, <2>1, <2>2, <2>3, <2>4, Zenon DEF TypeOK, Deregister
<1> QED
  BY <1>1, <1>2, <1>3, <1>4, <1>5, Zenon

\* So do the steps of the write loop and of a subscribe.
LEMMA TypeReplay ==
    ASSUME TypeOK, NEW c \in Client,
           \/ Write(c) \/ HandleOther(c) \/ HandleSubscribe(c)
           \/ ReplayLoad(c) \/ ReplayFails(c) \/ ReplayDeliver(c)
    PROVE  TypeOK'
<1>1. CASE Write(c)
  <2>1. queue[c] \in Seq(Frame) /\ queue[c] # <<>>
    BY <1>1, Zenon DEF Write, TypeOK
  <2>2. Head(queue[c]) \in Frame /\ Tail(queue[c]) \in Seq(Frame) /\ Len(Tail(queue[c])) <= Len(queue[c])
    BY <2>1
  <2>3. Carried(Head(queue[c])) \subseteq Seqs
    BY <2>2, CarriedTyped, Zenon
  <2>4. queue' \in [Client -> Seq(Frame)] /\ \A b \in Client : Len(queue'[b]) <= QueueSize
    BY <1>1, <2>2, QueueSizeAssumption DEF Write, TypeOK
  <2>5. seen' \in [Client -> SUBSET Seqs]
    BY <1>1, <2>3, Zenon DEF Write, TypeOK
  <2>6. lastLive' \in [Client -> 0..MaxOps]
    BY <1>1, <2>2, MaxOpsAssumption DEF Write, TypeOK, Frame, Seqs
  <2> QED
    BY <1>1, <2>4, <2>5, <2>6, Zenon DEF TypeOK, Write
<1>2. CASE HandleOther(c)
  BY <1>2, EnqueueEffect, FrameTyped, Zenon DEF TypeOK, HandleOther, clientVars
<1>3. CASE HandleSubscribe(c)
  BY <1>3, CursorTyped, Zenon DEF TypeOK, HandleSubscribe
<1>4. CASE ReplayLoad(c)
  <2> DEFINE n == IF base[c] < Len(log) THEN Len(log) - base[c] ELSE 0
             s == [i \in 1..n |-> base[c] + i]
  <2>1. n \in Nat /\ \A i \in 1..n : base[c] + i \in Seqs
    <3>1. PICK x \in Nat, y \in Nat : x = base[c] /\ y = Len(log) /\ y <= MaxOps
      <4>1. log \in Seq(Client \cup {Nil}) /\ Len(log) <= MaxOps /\ base[c] \in 0..MaxOps
        BY Zenon DEF TypeOK
      <4> QED
        BY <4>1, LogTyped, SeqsNat, Zenon
    <3> QED
      BY <3>1, MaxOpsAssumption DEF Seqs
  <2>2. s \in Seq(Seqs)
    BY <2>1
  <2>3. todo' = [todo EXCEPT ![c] = [ops |-> s, batch |-> 0]]
    BY <1>4, Zenon DEF ReplayLoad
  <2>4. todo' \in [Client -> [ops : Seq(Seqs), batch : Nat]]
    BY <2>2, <2>3, Zenon DEF TypeOK
  <2> QED
    BY <1>4, <2>4, Zenon DEF TypeOK, ReplayLoad, clientVars
<1>5. CASE ReplayFails(c)
  BY <1>5, EnqueueEffect, FrameTyped, Zenon DEF TypeOK, ReplayFails
<1>6. CASE ReplayDeliver(c)
  <2> DEFINE l == todo[c].batch = Total(Len(todo[c].ops)) - 1
             f == [type |-> "replay", ops |-> Range(Batch(todo[c].ops, todo[c].batch)), done |-> l]
  <2>1. f \in Frame
    BY BatchTyped, Zenon
  <2>2. Enqueue(c, f)
    BY <1>6, Zenon DEF ReplayDeliver
  <2> HIDE DEF f
  <2>3. /\ queue' \in [Client -> Seq(Frame)] /\ done' \in [Client -> BOOLEAN]
        /\ \A b \in Client : Len(queue'[b]) <= QueueSize
    BY <2>1, <2>2, EnqueueEffect, Zenon
  <2>4. /\ todo' \in [Client -> [ops : Seq(Seqs), batch : Nat]]
        /\ pc' \in [Client -> {"read", "load", "replay", "submit", "broadcast", "ack"}]
    <3>1. NoReplay \in [ops : Seq(Seqs), batch : Nat]
      BY DEF NoReplay
    <3>2. CASE pc' = [pc EXCEPT ![c] = "read"] /\ todo' = [todo EXCEPT ![c] = NoReplay]
      BY <3>1, <3>2, Zenon DEF TypeOK
    <3>3. CASE todo' = [todo EXCEPT ![c] = [ops |-> todo[c].ops, batch |-> todo[c].batch + 1]] /\ pc' = pc
      <4>1. [ops |-> todo[c].ops, batch |-> todo[c].batch + 1] \in [ops : Seq(Seqs), batch : Nat]
        <5>1. todo[c] \in [ops : Seq(Seqs), batch : Nat]
          BY Zenon DEF TypeOK
        <5> QED
          BY <5>1
      <4> QED
        BY <3>3, <4>1, Zenon DEF TypeOK
    <3> QED
      BY <1>6, <3>2, <3>3, Zenon DEF ReplayDeliver
  <2> QED
    BY <1>6, <2>3, <2>4, Zenon DEF TypeOK, ReplayDeliver, clientVars
<1> QED
  BY <1>1, <1>2, <1>3, <1>4, <1>5, <1>6, Zenon

\* So do the steps of a submit and of its broadcast.
LEMMA TypeSubmit ==
    ASSUME TypeOK, Room, Casting, NEW c \in Client,
           HandleSync(c) \/ SubmitFails(c) \/ Commit(c) \/ Ack(c)
    PROVE  TypeOK'
<1>1. CASE HandleSync(c)
  BY <1>1, Zenon DEF TypeOK, HandleSync, clientVars
<1>5. ASSUME pc[c] = "submit" PROVE Len(log) \in Nat /\ Len(log) + 1 <= MaxOps
  <2>1. c \in Submitters
    BY <1>5, Zenon DEF Submitters
  <2>2. Cardinality(Submitters) \in Nat \ {0}
    BY <2>1, FS_CardinalityType, FS_EmptySet, Zenon DEF Room
  <2> QED
    BY <2>2, MaxOpsAssumption DEF Room, TypeOK
<1>2. CASE SubmitFails(c)
  <2>1. log' \in Seq(Client \cup {Nil}) /\ Len(log') <= MaxOps
    <3>1. log' = log \/ log' = Append(log, Nil)
      BY <1>2, Zenon DEF SubmitFails
    <3>2. log \in Seq(Client \cup {Nil}) /\ Len(log) <= MaxOps
      BY Zenon DEF TypeOK
    <3>3. Len(log) \in Nat /\ Len(log) + 1 <= MaxOps
      BY <1>2, <1>5, Zenon DEF SubmitFails
    <3> QED
      BY <3>1, <3>2, <3>3
  <2> QED
    BY <1>2, <2>1, EnqueueEffect, FrameTyped, Zenon DEF TypeOK, SubmitFails, clientVars
<1>3. CASE Commit(c)
  <2>3. Len(log) \in Nat /\ Len(log) + 1 <= MaxOps
    BY <1>3, <1>5, Zenon DEF Commit
  <2>4. log' \in Seq(Client \cup {Nil}) /\ Len(log') = Len(log) + 1
    BY <1>3 DEF Commit, TypeOK
  <2>5. bc' \in [by : Client, seq : Seqs, targets : (SUBSET Client) \cup {Nil}]
    BY <1>3, <2>3, MaxOpsAssumption DEF Commit, Seqs
  <2> QED
    BY <1>3, <2>3, <2>4, <2>5, Zenon DEF TypeOK, Commit, clientVars
<1>4. CASE Ack(c)
  BY <1>4, EnqueueEffect, FrameTyped, Zenon DEF TypeOK, Ack, clientVars
<1> QED
  BY <1>1, <1>2, <1>3, <1>4, Zenon

\* So do the steps of a broadcast.
LEMMA TypeCast ==
    ASSUME TypeOK, CopyTargets \/ BroadcastDone \/ \E c \in Client : Fan(c)
    PROVE  TypeOK'
<1>1. bc \in [by : Client, seq : Seqs, targets : (SUBSET Client) \cup {Nil}]
  BY Zenon DEF TypeOK, CopyTargets, BroadcastDone, Fan
<1>2. CASE CopyTargets
  <2>1. bc' \in [by : Client, seq : Seqs, targets : (SUBSET Client) \cup {Nil}]
    <3>1. hubDocs \in SUBSET Client
      BY Zenon DEF TypeOK
    <3> QED
      BY <1>1, <1>2, <3>1, Zenon DEF CopyTargets, Aimed
  <2> QED
    BY <1>2, <2>1, Zenon DEF TypeOK, CopyTargets, connVars, clientVars
<1>3. CASE BroadcastDone
  BY <1>1, <1>3, Zenon DEF TypeOK, BroadcastDone, clientVars
<1>4. ASSUME NEW c \in Client, Fan(c) PROVE TypeOK'
  <2>1. bc' \in [by : Client, seq : Seqs, targets : (SUBSET Client) \cup {Nil}]
    BY <1>1, <1>4, Zenon DEF Fan, Aimed
  <2>2. /\ queue' \in [Client -> Seq(Frame)] /\ done' \in [Client -> BOOLEAN]
        /\ \A b \in Client : Len(queue'[b]) <= QueueSize
    <3>1. CASE UNCHANGED <<done, queue>>
      BY <3>1, Zenon DEF TypeOK
    <3>2. CASE Enqueue(c, [type |-> "sync", seq |-> bc.seq])
      <4>1. [type |-> "sync", seq |-> bc.seq] \in Frame
        BY <1>1, FrameTyped, Zenon
      <4> QED
        BY <3>2, <4>1, EnqueueEffect, Zenon
    <3> QED
      BY <1>4, <3>1, <3>2, Zenon DEF Fan
  <2> QED
    BY <1>4, <2>1, <2>2, Zenon DEF TypeOK, Fan, clientVars
<1> QED
  BY <1>2, <1>3, <1>4, Zenon

\* The steps that leave the number of submits alone, or change it by one.
LEMMA RoomStep ==
    ASSUME TypeOK, Room, Casting, Next
    PROVE  Room'
<1>1. CASE log' = log /\ Submitters' = Submitters
  BY <1>1, Zenon DEF Room
<1>2. ASSUME NEW c \in Client, HandleSync(c) PROVE Room'
  <2>1. Submitters' = Submitters \cup {c} /\ c \notin Submitters
    BY <1>2 DEF HandleSync, Reading, Submitters, TypeOK
  <2>2. IsFiniteSet(Submitters') /\ Cardinality(Submitters') = Cardinality(Submitters) + 1
    BY <2>1, FS_AddElement, Zenon DEF Room
  <2>3. Len(log) + Cardinality(Submitters) < MaxOps /\ log' = log
    BY <1>2, Zenon DEF HandleSync, Submitters
  <2>4. Cardinality(Submitters) \in Nat /\ Len(log) \in Nat
    BY FS_CardinalityType DEF Room, TypeOK
  <2> QED
    BY <2>2, <2>3, <2>4, MaxOpsAssumption DEF Room
<1>3. ASSUME NEW c \in Client, SubmitFails(c) \/ Commit(c) PROVE Room'
  <2>1. Submitters' = Submitters \ {c} /\ c \in Submitters
    BY <1>3 DEF SubmitFails, Commit, Submitters, TypeOK
  <2>2. IsFiniteSet(Submitters') /\ Cardinality(Submitters') = Cardinality(Submitters) - 1
    BY <2>1, FS_RemoveElement, Zenon DEF Room
  <2>3. Len(log') <= Len(log) + 1 /\ Len(log') \in Nat
    BY <1>3 DEF SubmitFails, Commit, TypeOK
  <2>4. Cardinality(Submitters) \in Nat /\ Len(log) \in Nat
    BY FS_CardinalityType DEF Room, TypeOK
  <2> QED
    BY <2>2, <2>3, <2>4, MaxOpsAssumption DEF Room
<1>4. CASE BroadcastDone
  <2>1. bc.by \in Client /\ pc[bc.by] = "broadcast"
    BY <1>4, Zenon DEF BroadcastDone, Casting, TypeOK
  <2>2. log' = log /\ Submitters' = Submitters
    BY <1>4, <2>1, Zenon DEF BroadcastDone, Submitters, TypeOK
  <2> QED
    BY <1>1, <2>2, Zenon
<1>5. CASE CopyTargets
  BY <1>1, <1>5, Zenon DEF CopyTargets, connVars, Submitters
<1>6. ASSUME NEW c \in Client,
             \/ TryRegister(c) \/ Release(c) \/ Accept(c) \/ Drop(c) \/ Write(c)
             \/ HandleOther(c) \/ Deregister(c) \/ Fan(c)
      PROVE  Room'
  BY <1>1, <1>6, Zenon DEF TryRegister, Release, Accept, Drop, Write, HandleOther, Deregister, Fan, Submitters
<1>7. ASSUME NEW c \in Client,
             \/ HandleSubscribe(c) \/ ReplayLoad(c) \/ ReplayFails(c)
             \/ ReplayDeliver(c) \/ Ack(c)
      PROVE  Room'
  <2>1. log' = log /\ pc[c] # "submit"
    BY <1>7, Zenon DEF HandleSubscribe, Reading, ReplayLoad, ReplayFails, ReplayDeliver, Ack
  <2>2. \E x \in {"load", "replay", "read"} : pc' \in {pc, [pc EXCEPT ![c] = x]}
    BY <1>7, Zenon DEF HandleSubscribe, ReplayLoad, ReplayFails, ReplayDeliver, Ack
  <2>3. Submitters' = Submitters
    BY <2>1, <2>2, Zenon DEF Submitters, TypeOK
  <2> QED
    BY <1>1, <2>1, <2>3, Zenon
<1> QED
  BY <1>2, <1>3, <1>4, <1>5, <1>6, <1>7, Zenon DEF Next, ServerStep

\* Steps that admit or tear down a connection count it once.
LEMMA SlotsLife ==
    ASSUME TypeOK, Slots, NEW c \in Client,
           TryRegister(c) \/ Release(c) \/ Accept(c) \/ Deregister(c)
    PROVE  Slots'
<1>1. active = Cardinality(Held) /\ Cardinality(Held) \in Nat /\ setup.maxConns \in Nat
  BY FS_CardinalityType, SetupsAssumption, Zenon DEF Slots, SlotsExact, Held, TypeOK
<1>2. setup' = setup
  BY Zenon DEF TryRegister, Release, Accept, Deregister
<1>3. CASE TryRegister(c)
  <2>1. Held' = Held \cup {c} /\ c \notin Held
    BY <1>3 DEF TryRegister, Held, TypeOK
  <2>2. IsFiniteSet(Held') /\ Cardinality(Held') = Cardinality(Held) + 1
    BY <2>1, FS_AddElement, Zenon DEF Slots
  <2>3. active' = Cardinality(Held') /\ (setup.maxConns > 0 => active' <= setup.maxConns)
    BY <1>1, <1>3, <2>2 DEF TryRegister
  <2>4. \A b \in hubDocs' : phase'[b] = "open" /\ subs'[b] # Nil
    BY <1>3, Zenon DEF TryRegister, TypeOK, Slots, SlotsExact
  <2> QED
    BY <1>2, <2>2, <2>3, <2>4, Zenon DEF Slots, SlotsExact, Held
<1>4. CASE Release(c) \/ Deregister(c)
  <2>1. Held' = Held \ {c} /\ c \in Held
    BY <1>4 DEF Release, Deregister, Held, TypeOK
  <2>2. IsFiniteSet(Held') /\ Cardinality(Held') = Cardinality(Held) - 1
    BY <2>1, FS_RemoveElement, Zenon DEF Slots
  <2>3. Cardinality(Held) > 0
    BY <1>1, <2>1, FS_EmptySet DEF Slots
  <2>4. active' = active - 1
    BY <1>1, <1>4, <2>3, Zenon DEF Release, Deregister
  <2>5. active' = Cardinality(Held') /\ (setup.maxConns > 0 => active' <= setup.maxConns)
    BY <1>1, <2>2, <2>4 DEF Slots, SlotsExact
  <2>6. \A b \in hubDocs' : b # c /\ b \in hubDocs
    BY <1>4, Zenon DEF Release, Deregister, Slots, SlotsExact
  <2>7. \A b \in Client : b # c => phase'[b] = phase[b] /\ subs'[b] = subs[b]
    BY <1>4, Zenon DEF Release, Deregister, TypeOK
  <2>8. \A b \in hubDocs' : phase'[b] = "open" /\ subs'[b] # Nil
    BY <2>6, <2>7, Zenon DEF TypeOK, Slots, SlotsExact
  <2> QED
    BY <1>2, <2>2, <2>5, <2>8, Zenon DEF Slots, SlotsExact, Held
<1>5. CASE Accept(c)
  <2>1. Held' = Held /\ active' = active
    BY <1>5, Zenon DEF Accept, Held, TypeOK
  <2>2. \A b \in hubDocs' : phase'[b] = "open" /\ subs'[b] # Nil
    BY <1>5, Zenon DEF Accept, TypeOK, Slots, SlotsExact
  <2> QED
    BY <1>2, <2>1, <2>2, Zenon DEF Slots, SlotsExact, Held
<1> QED
  BY <1>3, <1>4, <1>5, Zenon

\* The other steps leave the slots alone, and only open connections subscribe.
LEMMA SlotsStep ==
    ASSUME TypeOK, Slots, Next
    PROVE  Slots'
<1>1. ASSUME setup' = setup, active' = active, phase' = phase,
             \A b \in hubDocs' : phase[b] = "open" /\ subs'[b] # Nil
      PROVE  Slots'
  <2>1. Held' = Held
    BY <1>1, Zenon DEF Held
  <2> QED
    BY <1>1, <2>1, Zenon DEF Slots, SlotsExact, Held
<1>2. ASSUME NEW c \in Client, HandleSubscribe(c) \/ HandleSync(c) PROVE Slots'
  <2>1. phase[c] = "open" /\ setup' = setup /\ active' = active /\ phase' = phase
    BY <1>2, Zenon DEF HandleSubscribe, HandleSync, Reading
  <2>2. hubDocs' \subseteq hubDocs \cup {c}
    BY <1>2, Zenon DEF HandleSubscribe, HandleSync
  <2>3. \A b \in Client : b # c => subs'[b] = subs[b]
    BY <1>2, Zenon DEF HandleSubscribe, HandleSync, TypeOK
  <2>4. subs'[c] # Nil
    BY <1>2, DeliveryNil, SMTT(30) DEF HandleSubscribe, HandleSync, TypeOK
  <2>5. \A b \in hubDocs' : phase[b] = "open" /\ subs'[b] # Nil
    BY <2>1, <2>2, <2>3, <2>4, Zenon DEF Slots, SlotsExact, TypeOK
  <2> QED
    BY <1>1, <2>1, <2>5, Zenon
<1>3. ASSUME NEW c \in Client,
             \/ Drop(c) \/ Write(c) \/ HandleOther(c) \/ ReplayLoad(c) \/ ReplayFails(c)
             \/ ReplayDeliver(c) \/ SubmitFails(c) \/ Commit(c) \/ Ack(c) \/ Fan(c)
      PROVE  Slots'
  <2>1. setup' = setup /\ active' = active /\ phase' = phase /\ hubDocs' = hubDocs /\ subs' = subs
    BY <1>3, Zenon DEF Drop, Write, HandleOther, ReplayLoad, ReplayFails, ReplayDeliver,
                SubmitFails, Commit, Ack, Fan
  <2> QED
    BY <1>1, <2>1, Zenon DEF Slots, SlotsExact
<1>4. CASE CopyTargets \/ BroadcastDone
  <2>1. setup' = setup /\ active' = active /\ phase' = phase /\ hubDocs' = hubDocs /\ subs' = subs
    BY <1>4, Zenon DEF CopyTargets, BroadcastDone, connVars
  <2> QED
    BY <1>1, <2>1, Zenon DEF Slots, SlotsExact
<1> QED
  BY SlotsLife, <1>2, <1>3, <1>4, Zenon DEF Next, ServerStep
----------------------------------------------------------------------------
(* What a step changes of the broadcast.                                   *)

\* A step that does not commit, or whose commit was reported as failed, changes the
\* targets of the broadcast at most, or ends it.
LEMMA BroadcastMoves ==
    ASSUME TypeOK, Next, \A d \in Client : ~Commit(d)
    PROVE  /\ log' = log \/ (bc = Nil /\ bc' = Nil /\ log' = Append(log, Nil))
           /\ bc' # Nil => bc # Nil /\ bc'.seq = bc.seq /\ bc'.by = bc.by
<1>1. CASE log' = log /\ bc' = bc
  BY <1>1, Zenon
<1>2. ASSUME log' = log, bc # Nil, NEW T, bc' = Aimed(T)
      PROVE  bc'.seq = bc.seq /\ bc'.by = bc.by
  BY <1>2, Zenon DEF Aimed
<1>3. CASE CopyTargets
  BY <1>2, <1>3, Zenon DEF CopyTargets
<1>4. CASE BroadcastDone
  BY <1>4, Zenon DEF BroadcastDone
<1>5. ASSUME NEW d \in Client, Fan(d) PROVE log' = log /\ bc # Nil /\ bc'.seq = bc.seq /\ bc'.by = bc.by
  BY <1>2, <1>5, Zenon DEF Fan
<1>6. ASSUME NEW d \in Client, Deregister(d)
      PROVE  /\ log' = log
             /\ bc' # Nil => bc # Nil /\ bc'.seq = bc.seq /\ bc'.by = bc.by
  <2>1. log' = log /\ bc' = DropTarget(d)
    BY <1>6, Zenon DEF Deregister
  <2>2. CASE bc # Nil /\ bc.targets # Nil
    BY <1>2, <2>1, <2>2, Zenon DEF DropTarget
  <2>3. CASE ~(bc # Nil /\ bc.targets # Nil)
    BY <2>1, <2>3, Zenon DEF DropTarget
  <2> QED
    BY <2>1, <2>2, <2>3, Zenon
<1>7. ASSUME NEW d \in Client,
             \/ TryRegister(d) \/ Release(d) \/ Accept(d) \/ Drop(d) \/ Write(d)
             \/ HandleOther(d) \/ HandleSubscribe(d) \/ HandleSync(d) \/ ReplayLoad(d)
             \/ ReplayFails(d) \/ ReplayDeliver(d) \/ Ack(d)
      PROVE  log' = log /\ bc' = bc
  BY <1>7, Zenon DEF TryRegister, Release, Accept, Drop, Write, HandleOther, HandleSubscribe,
              HandleSync, ReplayLoad, ReplayFails, ReplayDeliver, Ack
<1>8. ASSUME NEW d \in Client, SubmitFails(d)
      PROVE  bc' = bc /\ (log' = log \/ (bc = Nil /\ log' = Append(log, Nil)))
  BY <1>8, Zenon DEF SubmitFails
<1> QED
  BY <1>1, <1>3, <1>4, <1>5, <1>6, <1>7, <1>8, Zenon DEF Next, ServerStep

\* The author of the operation being broadcast waits.
LEMMA CastingStep ==
    ASSUME TypeOK, Casting, Next
    PROVE  Casting'
<1>1. ASSUME NEW d \in Client, Commit(d) PROVE Casting'
  <2>1. bc' = [by |-> d, seq |-> Len(log) + 1, targets |-> Nil] /\ pc' = [pc EXCEPT ![d] = "broadcast"]
    BY <1>1, Zenon DEF Commit
  <2>2. Len(log') = Len(log) + 1 /\ Len(log) \in Nat
    BY <1>1 DEF Commit, TypeOK
  <2> QED
    BY <2>1, <2>2 DEF Casting, TypeOK
<1>2. ASSUME \A d \in Client : ~Commit(d), bc' # Nil PROVE pc'[bc.by] = pc[bc.by]
  <2>1. bc # Nil /\ bc.by \in Client /\ pc[bc.by] = "broadcast"
    BY <1>2, BroadcastMoves, Zenon DEF Casting, TypeOK
  <2>2. ~BroadcastDone
    BY <1>2, Zenon DEF BroadcastDone
  <2>3. ASSUME NEW d \in Client, pc[d] # "broadcast", NEW x, pc' = [pc EXCEPT ![d] = x]
        PROVE  pc'[bc.by] = pc[bc.by]
    BY <2>1, <2>3, Zenon DEF TypeOK
  <2>4. ASSUME NEW d \in Client,
               \/ HandleSubscribe(d) \/ HandleSync(d) \/ ReplayLoad(d) \/ ReplayFails(d)
               \/ SubmitFails(d) \/ Ack(d)
        PROVE  pc'[bc.by] = pc[bc.by]
    BY <2>3, <2>4, Zenon DEF HandleSubscribe, HandleSync, Reading, ReplayLoad, ReplayFails, SubmitFails, Ack
  <2>5. ASSUME NEW d \in Client, ReplayDeliver(d) PROVE pc'[bc.by] = pc[bc.by]
    <3>1. pc[d] # "broadcast" /\ (pc' = pc \/ pc' = [pc EXCEPT ![d] = "read"])
      BY <2>5, Zenon DEF ReplayDeliver
    <3> QED
      BY <2>3, <3>1, Zenon
  <2>6. ASSUME NEW d \in Client,
               \/ TryRegister(d) \/ Release(d) \/ Accept(d) \/ Drop(d) \/ Write(d)
               \/ HandleOther(d) \/ Deregister(d) \/ Fan(d)
        PROVE  pc' = pc
    BY <2>6, Zenon DEF TryRegister, Release, Accept, Drop, Write, HandleOther, Deregister, Fan
  <2>7. CASE CopyTargets
    BY <2>7, Zenon DEF CopyTargets, connVars
  <2> QED
    BY <1>2, <2>2, <2>4, <2>5, <2>6, <2>7, Zenon DEF Next, ServerStep
<1>3. ASSUME \A d \in Client : ~Commit(d) PROVE Casting'
  BY <1>2, <1>3, BroadcastMoves, Zenon DEF Casting
<1> QED
  BY <1>1, <1>3, Zenon

\* Sessions are noted, and what is promised is promised to a subscriber.
LEMMA NotedStep ==
    ASSUME TypeOK, Slots, NEW c \in Client, Noted(c), Next
    PROVE  Noted(c)'
<1>1. CASE subs'[c] = subs[c] /\ hubDocs' = hubDocs /\ (owed'[c] => owed[c])
  BY <1>1, Zenon DEF Noted
<1>2. ASSUME NEW d \in Client, HandleSubscribe(d) PROVE Noted(c)'
  BY <1>2, Zenon DEF HandleSubscribe, Noted, TypeOK
<1>3. ASSUME NEW d \in Client, HandleSync(d) PROVE Noted(c)'
  BY <1>3, Zenon DEF HandleSync, Noted, TypeOK, clientVars
<1>4. ASSUME NEW d \in Client, Deregister(d) PROVE Noted(c)'
  <2>1. CASE d = c
    BY <1>4, <2>1, Zenon DEF Deregister, Noted, TypeOK
  <2>2. CASE d # c
    BY <1>4, <2>2, Zenon DEF Deregister, Noted, TypeOK
  <2> QED
    BY <2>1, <2>2, Zenon
<1>5. ASSUME NEW d \in Client, ReplayFails(d) PROVE Noted(c)'
  BY <1>5, Zenon DEF ReplayFails, Noted, TypeOK
<1>6. ASSUME NEW d \in Client,
             \/ TryRegister(d) \/ Release(d) \/ Accept(d) \/ Drop(d) \/ Write(d) \/ HandleOther(d)
             \/ ReplayLoad(d) \/ ReplayDeliver(d) \/ SubmitFails(d) \/ Commit(d) \/ Ack(d) \/ Fan(d)
      PROVE  subs' = subs /\ hubDocs' = hubDocs /\ owed' = owed
  BY <1>6, Zenon DEF TryRegister, Release, Accept, Drop, Write, HandleOther, ReplayLoad, ReplayDeliver,
              SubmitFails, Commit, Ack, Fan, clientVars
<1>7. CASE CopyTargets \/ BroadcastDone
  BY <1>1, <1>7, Zenon DEF CopyTargets, BroadcastDone, connVars, clientVars
<1> QED
  BY <1>1, <1>2, <1>3, <1>4, <1>5, <1>6, <1>7, Zenon DEF Next, ServerStep

\* A broadcast loses a target by queueing the frame to it, with the connection or
\* because it is no subscriber; without a commit it gains none.
LEMMA PendingMoves ==
    ASSUME TypeOK, Next, NEW c \in Client, \A d \in Client : ~Commit(d)
    PROVE  /\ Pending(c)' => Pending(c)
           /\ Pending(c) /\ c \in hubDocs => Pending(c)' \/ Fan(c) \/ Deregister(c)
<1>1. CASE bc' = bc
  BY <1>1, Zenon DEF Pending
<1>2. bc = Nil \/ bc.targets \in (SUBSET Client) \cup {Nil}
  BY Zenon DEF TypeOK
<1>3. CASE CopyTargets
  <2>1. bc # Nil /\ bc.targets = Nil /\ bc' = Aimed(hubDocs)
    BY <1>3, Zenon DEF CopyTargets
  <2>2. bc \in [by : Client, seq : Seqs, targets : (SUBSET Client) \cup {Nil}]
    BY <2>1, Zenon DEF TypeOK
  <2>3. bc'.targets = hubDocs /\ bc' \in [by : Client, seq : Nat, targets : (SUBSET Client) \cup {Nil}]
    <3>1. hubDocs \in (SUBSET Client) \cup {Nil} /\ Seqs \subseteq Nat
      BY SeqsNat, Zenon DEF TypeOK
    <3> QED
      BY <2>1, <2>2, <3>1, Zenon DEF Aimed
  <2>4. bc' # Nil
    BY <2>3, DeliveryNil, Zenon
  <2> QED
    BY <2>1, <2>3, <2>4, Zenon DEF Pending
<1>4. CASE BroadcastDone
  BY <1>4, DeliveryNil, Zenon DEF BroadcastDone, Pending
<1>5. ASSUME NEW d \in Client, bc # Nil, bc.targets # Nil, bc' = Aimed(bc.targets \ {d}), c # d
      PROVE  Pending(c)' <=> Pending(c)
  <2>1. bc \in [by : Client, seq : Seqs, targets : (SUBSET Client) \cup {Nil}] /\ bc.targets \in SUBSET Client
    BY <1>5, Zenon DEF TypeOK
  <2>2. bc'.targets = bc.targets \ {d} /\ bc' \in [by : Client, seq : Nat, targets : (SUBSET Client) \cup {Nil}]
    <3>1. bc.by \in Client /\ bc.seq \in Nat
      BY <2>1, SeqsNat, Zenon
    <3> QED
      BY <1>5, <2>1, <3>1, Zenon DEF Aimed
  <2>3. bc'.targets # Nil /\ bc' # Nil
    BY <2>1, <2>2, DeliveryNil, Zenon
  <2> QED
    BY <1>5, <2>2, <2>3, Zenon DEF Pending
<1>6. ASSUME bc # Nil, bc.targets # Nil, bc' = Aimed(bc.targets \ {c})
      PROVE  ~Pending(c)'
  <2>1. bc \in [by : Client, seq : Seqs, targets : (SUBSET Client) \cup {Nil}] /\ bc.targets \in SUBSET Client
    BY <1>6, Zenon DEF TypeOK
  <2>2. bc'.targets = bc.targets \ {c}
    BY <1>6, <2>1, Zenon DEF Aimed
  <2>3. bc'.targets # Nil
    BY <2>1, <2>2, DeliveryNil, Zenon
  <2> QED
    BY <2>2, <2>3, Zenon DEF Pending
<1>7. ASSUME NEW d \in Client, Fan(d)
      PROVE  (Pending(c)' => Pending(c)) /\ (Pending(c) => Pending(c)' \/ Fan(c))
  BY <1>5, <1>6, <1>7, Zenon DEF Fan
<1>8. ASSUME NEW d \in Client, Deregister(d)
      PROVE  (Pending(c)' => Pending(c)) /\ (Pending(c) => Pending(c)' \/ Deregister(c))
  <2>1. bc' = DropTarget(d)
    BY <1>8, Zenon DEF Deregister
  <2>2. CASE bc # Nil /\ bc.targets # Nil
    BY <1>5, <1>6, <1>8, <2>1, <2>2, Zenon DEF DropTarget
  <2>3. CASE ~(bc # Nil /\ bc.targets # Nil)
    BY <1>1, <2>1, <2>3, Zenon DEF DropTarget, Pending
  <2> QED
    BY <2>2, <2>3, Zenon
<1>9. ASSUME NEW d \in Client,
             \/ TryRegister(d) \/ Release(d) \/ Accept(d) \/ Drop(d) \/ Write(d)
             \/ HandleOther(d) \/ HandleSubscribe(d) \/ HandleSync(d) \/ ReplayLoad(d)
             \/ ReplayFails(d) \/ ReplayDeliver(d) \/ SubmitFails(d) \/ Ack(d)
      PROVE  bc' = bc
  BY <1>9, Zenon DEF TryRegister, Release, Accept, Drop, Write, HandleOther, HandleSubscribe,
              HandleSync, ReplayLoad, ReplayFails, ReplayDeliver, SubmitFails, Ack
<1> QED
  BY <1>1, <1>3, <1>4, <1>7, <1>8, <1>9, Zenon DEF Next, ServerStep

\* What steps do to the queue and the last live seq of connection c.
LEMMA QueueMoves ==
    ASSUME TypeOK, Next, NEW c \in Client
    PROVE  \/ queue'[c] = queue[c] /\ lastLive'[c] = lastLive[c]
           \/ /\ lastLive'[c] = lastLive[c]
              /\ \E f \in Frame : f.type # "sync" /\ queue'[c] = Append(queue[c], f)
           \/ Write(c) \/ Fan(c) \/ Deregister(c)
<1> DEFINE Quiet == queue'[c] = queue[c] /\ lastLive'[c] = lastLive[c]
           Adds == /\ lastLive'[c] = lastLive[c]
                   /\ \E f \in Frame : f.type # "sync" /\ queue'[c] = Append(queue[c], f)
<1>1. ASSUME NEW d \in Client, NEW f \in Frame, f.type # "sync", Enqueue(d, f), lastLive' = lastLive
      PROVE  Quiet \/ Adds
  <2>1. CASE d = c
    <3>1. queue'[c] \in {queue[c], Append(queue[c], f)}
      BY <1>1, <2>1, EnqueueEffect, Zenon
    <3> QED
      BY <1>1, <3>1, Zenon
  <2>2. CASE d # c
    BY <1>1, <2>2, EnqueueEffect, Zenon
  <2> QED
    BY <2>1, <2>2, Zenon
<1>2. ASSUME NEW d \in Client, HandleOther(d) \/ ReplayFails(d) \/ SubmitFails(d) \/ Ack(d)
      PROVE  Quiet \/ Adds
  <2>1. \E f \in {[type |-> "other"], [type |-> "error"], [type |-> "ack"]} : Enqueue(d, f) /\ lastLive' = lastLive
    BY <1>2, Zenon DEF HandleOther, ReplayFails, SubmitFails, Ack, clientVars
  <2>2. \A f \in {[type |-> "other"], [type |-> "error"], [type |-> "ack"]} : f \in Frame /\ f.type # "sync"
    BY FrameTyped
  <2> QED
    BY <1>1, <2>1, <2>2, Zenon
<1>3. ASSUME NEW d \in Client, ReplayDeliver(d) PROVE Quiet \/ Adds
  <2> DEFINE l == todo[d].batch = Total(Len(todo[d].ops)) - 1
             f == [type |-> "replay", ops |-> Range(Batch(todo[d].ops, todo[d].batch)), done |-> l]
  <2>1. f \in Frame /\ f.type # "sync"
    BY BatchTyped, Zenon
  <2>2. Enqueue(d, f) /\ lastLive' = lastLive
    BY <1>3, Zenon DEF ReplayDeliver, clientVars
  <2> QED
    BY <1>1, <2>1, <2>2, Zenon
<1>4. ASSUME NEW d \in Client, d # c, Write(d) \/ Fan(d) \/ Deregister(d) PROVE Quiet
  <2>1. CASE Write(d)
    BY <1>4, <2>1, Zenon DEF Write, TypeOK
  <2>2. CASE Deregister(d)
    BY <1>4, <2>2, Zenon DEF Deregister, TypeOK
  <2>3. CASE Fan(d)
    <3>1. lastLive' = lastLive /\ (queue' = queue \/ Enqueue(d, [type |-> "sync", seq |-> bc.seq]))
      BY <2>3, Zenon DEF Fan, clientVars
    <3>2. [type |-> "sync", seq |-> bc.seq] \in Frame
      BY <2>3, FrameTyped, Zenon DEF Fan, TypeOK
    <3> QED
      BY <1>4, <3>1, <3>2, EnqueueEffect, Zenon
  <2> QED
    BY <1>4, <2>1, <2>2, <2>3, Zenon
<1>5. ASSUME NEW d \in Client,
             \/ TryRegister(d) \/ Release(d) \/ Accept(d) \/ Drop(d)
             \/ HandleSubscribe(d) \/ HandleSync(d) \/ ReplayLoad(d) \/ Commit(d)
      PROVE  Quiet
  BY <1>5, Zenon DEF TryRegister, Release, Accept, Drop, HandleSubscribe, HandleSync, ReplayLoad,
              Commit, clientVars
<1>6. ASSUME CopyTargets \/ BroadcastDone PROVE Quiet
  BY <1>6, Zenon DEF CopyTargets, BroadcastDone, connVars, clientVars
<1> HIDE DEF Quiet, Adds
<1>7. Quiet \/ Adds \/ Write(c) \/ Fan(c) \/ Deregister(c)
  <2>1. CASE CopyTargets \/ BroadcastDone
    BY <1>6, <2>1, Zenon
  <2>2. ASSUME NEW d \in Client,
               \/ TryRegister(d) \/ Release(d) \/ Accept(d) \/ Drop(d) \/ Write(d)
               \/ HandleOther(d) \/ HandleSubscribe(d) \/ HandleSync(d) \/ ServerStep(d)
        PROVE  Quiet \/ Adds \/ Write(c) \/ Fan(c) \/ Deregister(c)
    BY <1>2, <1>3, <1>4, <1>5, <2>2, Zenon DEF ServerStep
  <2> QED
    BY <2>1, <2>2, Zenon DEF Next
<1> QED
  BY <1>7, Zenon DEF Quiet, Adds
----------------------------------------------------------------------------
(* The order of live operations.                                           *)

\* The last live seq that connection c may have been sent.
Limit(c) == IF Pending(c) THEN Len(log) - 1 ELSE Len(log)

\* Every step keeps the order of what connection c is sent.
LEMMA OrderStep ==
    ASSUME TypeOK, TypeOK', Casting, Casting', Next, NEW c \in Client, Ordered(c)
    PROVE  Ordered(c)'
<1>1. /\ queue[c] \in Seq(Frame) /\ queue'[c] \in Seq(Frame)
      /\ lastLive[c] \in Nat /\ lastLive'[c] \in Nat /\ Len(log) \in Nat /\ Len(log') \in Nat
  <2>1. queue[c] \in Seq(Frame) /\ lastLive[c] \in 0..MaxOps /\ log \in Seq(Client \cup {Nil})
    BY Zenon DEF TypeOK
  <2>2. queue'[c] \in Seq(Frame) /\ lastLive'[c] \in 0..MaxOps /\ log' \in Seq(Client \cup {Nil})
    BY Zenon DEF TypeOK
  <2> QED
    BY <2>1, <2>2, SeqsNat, LogTyped, Zenon
<1>2. Limit(c) \in Nat /\ Limit(c)' \in Nat
  BY <1>1 DEF Limit, Pending, Casting
<1>3. Ascends(queue[c], lastLive[c], Limit(c))
  BY Zenon DEF Ordered, Limit
<1>4. Limit(c) <= Limit(c)'
  <2>1. ASSUME NEW d \in Client, Commit(d) PROVE Limit(c) <= Limit(c)'
    <3>1. Len(log') = Len(log) + 1 /\ bc = Nil
      BY <2>1 DEF Commit, TypeOK
    <3> QED
      BY <1>1, <3>1 DEF Limit, Pending
  <2>2. ASSUME \A d \in Client : ~Commit(d) PROVE Limit(c) <= Limit(c)'
    <3>4. CASE bc = Nil /\ bc' = Nil /\ log' = Append(log, Nil)
      <4>1. Len(log') = Len(log) + 1 /\ Limit(c) = Len(log) /\ Limit(c)' = Len(log')
        BY <3>4 DEF Limit, Pending, TypeOK
      <4> QED
        BY <1>1, <4>1
    <3> SUFFICES ASSUME log' = log PROVE Limit(c) <= Limit(c)'
      BY <2>2, <3>4, BroadcastMoves, Zenon
    <3>1. log' = log /\ (Pending(c)' => Pending(c))
      BY <2>2, PendingMoves, Zenon
    <3>2. CASE Pending(c)'
      BY <1>1, <3>1, <3>2 DEF Limit
    <3>3. CASE ~Pending(c)'
      <4>1. Limit(c)' = Len(log)
        BY <3>1, <3>3, Zenon DEF Limit
      <4>2. Limit(c) = Len(log) \/ Limit(c) = Len(log) - 1
        BY Zenon DEF Limit
      <4> QED
        BY <1>1, <4>1, <4>2
    <3> QED
      BY <3>2, <3>3, Zenon
  <2> QED
    BY <2>1, <2>2, Zenon
<1>5. Ascends(queue[c], lastLive[c], Limit(c)')
  BY <1>1, <1>2, <1>3, <1>4, AscendsGrows, Zenon
<1>6. CASE queue'[c] = queue[c] /\ lastLive'[c] = lastLive[c]
  BY <1>5, <1>6, Zenon DEF Ordered, Limit
<1>7. ASSUME lastLive'[c] = lastLive[c], NEW f \in Frame, f.type # "sync", queue'[c] = Append(queue[c], f)
      PROVE  Ordered(c)'
  <2>1. Ascends(Append(queue[c], f), lastLive[c], Limit(c)')
    BY <1>1, <1>2, <1>5, <1>7, AscendsAppend, Zenon
  <2> QED
    BY <1>7, <2>1, Zenon DEF Ordered, Limit
<1>8. CASE Write(c)
  <2>1. queue[c] # <<>> /\ queue'[c] = Tail(queue[c])
    BY <1>8, Zenon DEF Write, TypeOK
  <2>2. lastLive'[c] = IF Head(queue[c]).type = "sync" THEN Head(queue[c]).seq ELSE lastLive[c]
    BY <1>8, Zenon DEF Write, TypeOK
  <2>3. Ascends(queue'[c], lastLive'[c], Limit(c)')
    BY <1>1, <1>2, <1>5, <2>1, <2>2, AscendsTail, Zenon
  <2> QED
    BY <2>3, Zenon DEF Ordered, Limit
<1>9. CASE Deregister(c)
  <2>1. queue'[c] = <<>> /\ lastLive'[c] = 0
    BY <1>9 DEF Deregister, TypeOK
  <2>2. Ascends(<<>>, 0, Limit(c)')
    BY <1>2 DEF Ascends
  <2> QED
    BY <2>1, <2>2, Zenon DEF Ordered, Limit
<1>10. CASE Fan(c)
  <2>1. /\ bc # Nil /\ bc.targets # Nil /\ c \in bc.targets /\ bc' = Aimed(bc.targets \ {c})
        /\ log' = log /\ lastLive' = lastLive
    BY <1>10, Zenon DEF Fan, clientVars
  <2>2. bc.seq = Len(log) /\ Len(log) > 0 /\ bc.seq \in Seqs
    BY <2>1, Zenon DEF Casting, TypeOK
  <2>3. bc'.targets = bc.targets \ {c} /\ bc.targets \in SUBSET Client
    BY <2>1, Zenon DEF TypeOK, Aimed
  <2>4. ~Pending(c)' /\ Pending(c)
    BY <2>1, <2>3, DeliveryNil, Zenon DEF Pending
  <2>5. Limit(c)' = Limit(c) + 1 /\ Limit(c)' = bc.seq
    BY <1>1, <2>1, <2>2, <2>4 DEF Limit
  <2> DEFINE f == [type |-> "sync", seq |-> bc.seq]
  <2>6. f \in Frame /\ f.type = "sync" /\ f.seq = Limit(c) + 1
    BY <2>2, <2>5, FrameTyped, Zenon
  <2>7. queue' = queue \/ Enqueue(c, f)
    BY <1>10, Zenon DEF Fan
  <2> HIDE DEF f
  <2>8. queue'[c] \in {queue[c], Append(queue[c], f)}
    BY <2>6, <2>7, EnqueueEffect, Zenon
  <2>9. Ascends(Append(queue[c], f), lastLive[c], Limit(c)')
    BY <1>1, <1>2, <1>3, <2>5, <2>6, AscendsAppend, Zenon
  <2>10. Ascends(queue'[c], lastLive'[c], Limit(c)')
    BY <1>5, <2>1, <2>8, <2>9, Zenon
  <2> QED
    BY <2>10, Zenon DEF Ordered, Limit
<1> QED
  BY QueueMoves, <1>6, <1>7, <1>8, <1>9, <1>10, Zenon
----------------------------------------------------------------------------
(* No gap between replay and live delivery.                                *)

\* A delivered batch is what leaves the operations still to be replayed.
LEMMA DeliverMoves ==
    ASSUME TypeOK, NEW c \in Client, ReplayDeliver(c), ~done'[c]
    PROVE  /\ Remaining(c) \subseteq Range(Batch(todo[c].ops, todo[c].batch)) \cup Remaining(c)'
           /\ Queued(queue'[c]) = Queued(queue[c]) \cup Range(Batch(todo[c].ops, todo[c].batch))
<1>1. PICK ops, b : ops = todo[c].ops /\ b = todo[c].batch /\ ops \in Seq(Seqs) /\ b \in Nat
  BY Zenon DEF TypeOK
<1> DEFINE last == b = Total(Len(ops)) - 1
           f == [type |-> "replay", ops |-> Range(Batch(ops, b)), done |-> last]
<1>2. f \in Frame /\ Carried(f) = Range(Batch(ops, b))
  BY <1>1, BatchTyped, Zenon DEF Carried
<1>3. Enqueue(c, f)
  BY <1>1, Zenon DEF ReplayDeliver
<1>4. queue'[c] = Append(queue[c], f) /\ ~done[c]
  <2> HIDE DEF f
  <2> QED
    BY <1>2, <1>3, EnqueueEffect, Zenon
<1>5. ~Full(c)
  BY <1>3, Zenon DEF Enqueue, TypeOK
<1>6. Queued(queue'[c]) = Queued(queue[c]) \cup Range(Batch(ops, b))
  <2> HIDE DEF f
  <2>1. queue[c] \in Seq(Frame)
    BY Zenon DEF TypeOK
  <2> QED
    BY <1>2, <1>4, <2>1, QueuedAppend, Zenon
<1>7. PICK x \in Nat : x = b * ReplayBatch
  BY <1>1, BatchElements, Zenon
<1>8. (b + 1) * ReplayBatch = x + ReplayBatch
  BY <1>1, <1>7, BatchElements, Zenon
<1>9. Range(Batch(ops, b)) = {ops[i] : i \in (x + 1)..(IF x + ReplayBatch <= Len(ops) THEN x + ReplayBatch ELSE Len(ops))}
  BY <1>1, <1>7, <1>8, BatchElements, Zenon
<1>10. Remaining(c) = {ops[i] : i \in (x + 1)..Len(ops)}
  <2>1. x + 1 \in Nat \ {0} /\ Len(ops) \in 0..Len(ops)
    BY <1>1
  <2>2. Range(SubSeq(ops, x + 1, Len(ops))) = {ops[i] : i \in (x + 1)..Len(ops)}
    BY <1>1, <2>1, RangeSubSeq, Zenon
  <2> QED
    BY <1>1, <1>7, <2>2, Zenon DEF Remaining
<1>11. CASE last
  <2>1. b + 1 = Total(Len(ops))
    <3>1. Len(ops) \in Nat
      BY <1>1
    <3>2. PICK t \in Nat : t = Total(Len(ops))
      BY <3>1, TotalCovers, Zenon
    <3> QED
      BY <1>1, <1>11, <3>2
  <2>2. x + ReplayBatch >= Len(ops)
    <3>1. Total(Len(ops)) * ReplayBatch >= Len(ops)
      <4>1. Len(ops) \in Nat
        BY <1>1
      <4> QED
        BY <4>1, TotalCovers, Zenon
    <3>2. Total(Len(ops)) * ReplayBatch = (b + 1) * ReplayBatch
      BY <2>1, Zenon
    <3> QED
      BY <1>8, <3>1, <3>2, Zenon
  <2>3. Remaining(c) \subseteq Range(Batch(ops, b))
    BY <1>1, <1>9, <1>10, <2>2, ReplayBatchAssumption
  <2> QED
    BY <1>1, <1>6, <2>3, Zenon
<1>12. CASE ~last
  <2>1. todo' = [todo EXCEPT ![c] = [ops |-> ops, batch |-> b + 1]]
    BY <1>1, <1>5, <1>12, Zenon DEF ReplayDeliver
  <2>2. todo'[c].ops = ops /\ todo'[c].batch = b + 1
    BY <1>1, <2>1, Zenon DEF TypeOK
  <2>3. Remaining(c)' = {ops[i] : i \in (x + ReplayBatch + 1)..Len(ops)}
    <3>1. x + ReplayBatch + 1 \in Nat \ {0} /\ Len(ops) \in 0..Len(ops)
      BY <1>1, ReplayBatchAssumption
    <3>2. Range(SubSeq(ops, x + ReplayBatch + 1, Len(ops))) = {ops[i] : i \in (x + ReplayBatch + 1)..Len(ops)}
      BY <1>1, <3>1, RangeSubSeq, Zenon
    <3> QED
      BY <1>8, <2>2, <3>2, Zenon DEF Remaining
  <2>4. Remaining(c) \subseteq Range(Batch(ops, b)) \cup Remaining(c)'
    BY <1>1, <1>9, <1>10, <2>3, ReplayBatchAssumption
  <2> QED
    BY <1>1, <1>6, <2>4, Zenon
<1> QED
  BY <1>11, <1>12, Zenon

\* What connection c has, will be sent or will be replayed.
Has(c) == seen[c] \cup Queued(queue[c]) \cup Remaining(c)

\* It is not lost on the way to the client.
LEMMA HasMoves ==
    ASSUME TypeOK, Next, NEW c \in Client, ~done'[c], ~ReplayLoad(c), ~Deregister(c)
    PROVE  Has(c) \subseteq Has(c)'
<1>1. seen[c] \subseteq seen'[c]
  <2>1. seen' = seen \/ \E d \in Client : Write(d)
    <3>1. ASSUME NEW d \in Client,
                 \/ TryRegister(d) \/ Release(d) \/ Accept(d) \/ Drop(d)
                 \/ HandleOther(d) \/ HandleSubscribe(d) \/ HandleSync(d)
          PROVE  seen' = seen
      BY <3>1, Zenon DEF TryRegister, Release, Accept, Drop, HandleOther, HandleSubscribe, HandleSync, clientVars
    <3>2. ASSUME NEW d \in Client, ServerStep(d) PROVE seen' = seen
      BY <3>2, Zenon DEF ServerStep, ReplayLoad, ReplayFails, ReplayDeliver, SubmitFails, Commit, Ack, Fan,
                  Deregister, clientVars
    <3>3. CopyTargets \/ BroadcastDone => seen' = seen
      BY Zenon DEF CopyTargets, BroadcastDone, clientVars
    <3> QED
      BY <3>1, <3>2, <3>3, Zenon DEF Next
  <2>2. ASSUME NEW d \in Client, Write(d) PROVE seen[c] \subseteq seen'[c]
    <3>1. seen' = [seen EXCEPT ![d] = seen[d] \cup Carried(Head(queue[d]))]
      BY <2>2, Zenon DEF Write
    <3>2. seen'[c] = IF c = d THEN seen[d] \cup Carried(Head(queue[d])) ELSE seen[c]
      BY <3>1, Zenon DEF TypeOK
    <3> QED
      BY <3>2, Zenon
  <2> QED
    BY <2>1, <2>2, Zenon
<1>2. ReplayDeliver(c) \/ todo'[c] = todo[c]
  <2>1. todo' = todo \/ \E d \in Client : ReplayLoad(d) \/ ReplayDeliver(d)
    <3>1. ASSUME NEW d \in Client,
                 \/ TryRegister(d) \/ Release(d) \/ Accept(d) \/ Drop(d) \/ Write(d)
                 \/ HandleOther(d) \/ HandleSubscribe(d) \/ HandleSync(d)
          PROVE  todo' = todo
      BY <3>1, Zenon DEF TryRegister, Release, Accept, Drop, Write, HandleOther, HandleSubscribe, HandleSync
    <3>2. ASSUME NEW d \in Client, ServerStep(d), ~ReplayLoad(d), ~ReplayDeliver(d) PROVE todo' = todo
      BY <3>2, Zenon DEF ServerStep, ReplayFails, SubmitFails, Commit, Ack, Fan, Deregister
    <3>3. CopyTargets \/ BroadcastDone => todo' = todo
      BY Zenon DEF CopyTargets, BroadcastDone, connVars
    <3> QED
      BY <3>1, <3>2, <3>3, Zenon DEF Next
  <2>2. ASSUME NEW d \in Client, d # c, ReplayLoad(d) \/ ReplayDeliver(d) PROVE todo'[c] = todo[c]
    BY <2>2, Zenon DEF ReplayLoad, ReplayDeliver, TypeOK
  <2> QED
    BY <2>1, <2>2, Zenon
<1>3. queue[c] \in Seq(Frame)
  BY Zenon DEF TypeOK
<1>4. CASE ReplayDeliver(c)
  BY <1>1, <1>4, DeliverMoves, Zenon DEF Has
<1>5. ASSUME todo'[c] = todo[c], Queued(queue[c]) \subseteq Queued(queue'[c]) \cup seen'[c]
      PROVE  Has(c) \subseteq Has(c)'
  <2>1. Remaining(c)' = Remaining(c)
    BY <1>5, Zenon DEF Remaining
  <2> QED
    BY <1>1, <1>5, <2>1, Zenon DEF Has
<1>6. Queued(queue[c]) \subseteq Queued(queue'[c]) \cup seen'[c]
  <2>1. ASSUME NEW f \in Frame, queue'[c] = Append(queue[c], f) PROVE Queued(queue[c]) \subseteq Queued(queue'[c])
    BY <1>3, <2>1, QueuedAppend, Zenon
  <2>2. CASE Write(c)
    <3>1. queue[c] # <<>> /\ queue'[c] = Tail(queue[c]) /\ seen'[c] = seen[c] \cup Carried(Head(queue[c]))
      BY <2>2, Zenon DEF Write, TypeOK
    <3> QED
      BY <1>3, <3>1, QueuedTail, Zenon
  <2>3. CASE Fan(c)
    <3>1. [type |-> "sync", seq |-> bc.seq] \in Frame
      BY <2>3, FrameTyped, Zenon DEF Fan, TypeOK
    <3>2. queue'[c] = queue[c] \/ queue'[c] = Append(queue[c], [type |-> "sync", seq |-> bc.seq])
      BY <2>3, <3>1, EnqueueEffect, Zenon DEF Fan
    <3> QED
      BY <2>1, <3>1, <3>2, Zenon
  <2> QED
    BY QueueMoves, <2>1, <2>2, <2>3, Zenon
<1> QED
  BY <1>2, <1>4, <1>5, <1>6, Zenon

\* A connection that is owed operations after a step, and whose Replay did not just
\* read them, was owed them before.
LEMMA OwedMoves ==
    ASSUME TypeOK, Slots, Casting, Next, NEW c \in Client, Noted(c), ~ReplayLoad(c),
           phase'[c] = "open", ~done'[c], owed'[c], pc'[c] # "load"
    PROVE  /\ phase[c] = "open" /\ ~done[c] /\ owed[c] /\ pc[c] # "load"
           /\ base'[c] = base[c] /\ ~Deregister(c)
<1>1. ~Deregister(c) /\ ~HandleSubscribe(c) /\ ~ReplayFails(c)
  BY Zenon DEF Deregister, HandleSubscribe, ReplayFails, TypeOK
<1>2. owed'[c] = owed[c] /\ base'[c] = base[c]
  <2>1. (owed' = owed /\ base' = base) \/ \E d \in Client : Deregister(d) \/ HandleSubscribe(d) \/ ReplayFails(d)
    <3>1. ASSUME NEW d \in Client,
                 \/ TryRegister(d) \/ Release(d) \/ Accept(d) \/ Drop(d) \/ Write(d)
                 \/ HandleOther(d) \/ HandleSync(d)
          PROVE  owed' = owed /\ base' = base
      BY <3>1, Zenon DEF TryRegister, Release, Accept, Drop, Write, HandleOther, HandleSync, clientVars
    <3>2. ASSUME NEW d \in Client, ServerStep(d), ~Deregister(d), ~ReplayFails(d)
          PROVE  owed' = owed /\ base' = base
      BY <3>2, Zenon DEF ServerStep, ReplayLoad, ReplayDeliver, SubmitFails, Commit, Ack, Fan, clientVars
    <3>3. CopyTargets \/ BroadcastDone => owed' = owed /\ base' = base
      BY Zenon DEF CopyTargets, BroadcastDone, clientVars
    <3> QED
      BY <3>1, <3>2, <3>3, Zenon DEF Next
  <2>2. ASSUME NEW d \in Client, d # c, Deregister(d) \/ HandleSubscribe(d) \/ ReplayFails(d)
        PROVE  owed'[c] = owed[c] /\ base'[c] = base[c]
    BY <2>2, Zenon DEF Deregister, HandleSubscribe, ReplayFails, TypeOK
  <2> QED
    BY <1>1, <2>1, <2>2, Zenon
<1>3. phase[c] = "open"
  BY <1>2, Zenon DEF Noted, Slots, SlotsExact
<1>4. ~done[c]
  <2>1. ASSUME NEW d \in Client, NEW f, Enqueue(d, f) PROVE done[c] => done'[c]
    BY <2>1, Zenon DEF Enqueue, TypeOK
  <2>2. ASSUME NEW d \in Client, d # c, Deregister(d) PROVE done'[c] = done[c]
    BY <2>2, Zenon DEF Deregister, TypeOK
  <2>3. ASSUME NEW d \in Client, Drop(d) PROVE done[c] => done'[c]
    BY <2>3, Zenon DEF Drop, TypeOK
  <2>4. done' = done \/ \E d \in Client : Deregister(d) \/ Drop(d) \/ \E f : Enqueue(d, f)
    <3>1. ASSUME NEW d \in Client,
                 \/ TryRegister(d) \/ Release(d) \/ Accept(d) \/ Write(d) \/ HandleSubscribe(d)
                 \/ HandleSync(d) \/ ReplayLoad(d) \/ Commit(d)
          PROVE  done' = done
      BY <3>1, Zenon DEF TryRegister, Release, Accept, Write, HandleSubscribe, HandleSync, ReplayLoad, Commit
    <3>2. ASSUME NEW d \in Client,
                 HandleOther(d) \/ ReplayFails(d) \/ ReplayDeliver(d) \/ SubmitFails(d) \/ Ack(d)
          PROVE  \E f : Enqueue(d, f)
      BY <3>2, Zenon DEF HandleOther, ReplayFails, ReplayDeliver, SubmitFails, Ack
    <3>3. ASSUME NEW d \in Client, Fan(d) PROVE done' = done \/ \E f : Enqueue(d, f)
      BY <3>3, Zenon DEF Fan
    <3>4. CopyTargets \/ BroadcastDone => done' = done
      BY Zenon DEF CopyTargets, BroadcastDone, connVars
    <3> QED
      BY <3>1, <3>2, <3>3, <3>4, Zenon DEF Next, ServerStep
  <2> QED
    BY <1>1, <2>1, <2>2, <2>3, <2>4, Zenon
<1>5. ASSUME pc[c] = "load" PROVE FALSE
  <2>1. ASSUME NEW d \in Client, pc[d] # "load", NEW x, pc' = [pc EXCEPT ![d] = x] PROVE pc'[c] = pc[c]
    BY <1>5, <2>1, Zenon DEF TypeOK
  <2>2. CASE BroadcastDone
    <3>1. bc.by \in Client /\ pc[bc.by] # "load" /\ pc' = [pc EXCEPT ![bc.by] = "ack"]
      BY <2>2, Zenon DEF BroadcastDone, Casting, TypeOK
    <3> QED
      BY <1>5, <2>1, <3>1, Zenon
  <2>3. ASSUME NEW d \in Client, HandleSync(d) \/ SubmitFails(d) \/ Commit(d) \/ Ack(d) \/ HandleSubscribe(d)
        PROVE  FALSE
    <3>1. pc[d] # "load" /\ \E x : pc' = [pc EXCEPT ![d] = x]
      BY <2>3, Zenon DEF HandleSync, HandleSubscribe, Reading, SubmitFails, Commit, Ack
    <3> QED
      BY <1>5, <2>1, <3>1, Zenon
  <2>4. ASSUME NEW d \in Client, ReplayDeliver(d) PROVE FALSE
    <3>1. pc[d] # "load" /\ (pc' = pc \/ \E x : pc' = [pc EXCEPT ![d] = x])
      BY <2>4, Zenon DEF ReplayDeliver
    <3> QED
      BY <1>5, <2>1, <3>1, Zenon
  <2>5. ASSUME NEW d \in Client, ReplayLoad(d) \/ ReplayFails(d) PROVE FALSE
    <3>1. d # c
      BY <1>1, <2>5, Zenon
    <3> QED
      BY <1>5, <2>5, <3>1, Zenon DEF ReplayLoad, ReplayFails, TypeOK
  <2>6. pc' # pc
    BY <1>5, Zenon
  <2> QED
    <3>1. ASSUME NEW d \in Client,
                 \/ TryRegister(d) \/ Release(d) \/ Accept(d) \/ Drop(d) \/ Write(d)
                 \/ HandleOther(d) \/ Fan(d) \/ Deregister(d)
          PROVE  pc' = pc
      BY <3>1, Zenon DEF TryRegister, Release, Accept, Drop, Write, HandleOther, Fan, Deregister
    <3>2. CopyTargets => pc' = pc
      BY Zenon DEF CopyTargets, connVars
    <3> QED
      BY <2>2, <2>3, <2>4, <2>5, <2>6, <3>1, <3>2, Zenon DEF Next, ServerStep
<1> QED
  BY <1>1, <1>2, <1>3, <1>4, <1>5, Zenon

\* No step opens a gap.
LEMMA CoveredStep ==
    ASSUME TypeOK, TypeOK', Casting, Casting', Slots, Next, NEW c \in Client, Noted(c), Covered(c)
    PROVE  Covered(c)'
<1> SUFFICES ASSUME phase'[c] = "open", ~done'[c], owed'[c], pc'[c] # "load",
                    NEW i \in (base'[c] + 1)..Len(log')
             PROVE  \/ i \in Has(c)'
                    \/ Pending(c)' /\ i = Len(log')
                    \/ log'[i] \in {c, Nil}
  BY Zenon DEF Covered, Has
<1>1. /\ log \in Seq(Client \cup {Nil}) /\ Len(log) \in Nat /\ Len(log') \in Nat
      /\ base[c] \in Nat /\ base'[c] \in Nat /\ i \in Nat /\ i \in 1..Len(log')
  <2>1. log \in Seq(Client \cup {Nil}) /\ base[c] \in 0..MaxOps
    BY Zenon DEF TypeOK
  <2>2. log' \in Seq(Client \cup {Nil}) /\ base'[c] \in 0..MaxOps
    BY Zenon DEF TypeOK
  <2>3. Len(log) \in Nat /\ base[c] \in Nat /\ Len(log') \in Nat /\ base'[c] \in Nat
    BY <2>1, <2>2, SeqsNat, LogTyped, Zenon
  <2> QED
    BY <2>1, <2>3, Between, Zenon
<1>2. CASE ReplayLoad(c)
  <2> DEFINE n == IF base[c] < Len(log) THEN Len(log) - base[c] ELSE 0
             s == [j \in 1..n |-> base[c] + j]
  <2>1. todo'[c] = [ops |-> s, batch |-> 0] /\ log' = log /\ base' = base
    BY <1>2, Zenon DEF ReplayLoad, clientVars, TypeOK
  <2>2. todo'[c].ops = s /\ todo'[c].batch = 0 /\ s \in Seq(Seqs)
    <3>1. todo'[c] \in [ops : Seq(Seqs), batch : Nat]
      BY Zenon DEF TypeOK
    <3> HIDE DEF s
    <3> QED
      BY <2>1, <3>1
  <2>3. n \in Nat /\ i - base[c] \in 1..n /\ s[i - base[c]] = i
    <3>1. i \in (base[c] + 1)..Len(log)
      BY <2>1, Zenon
    <3>2. /\ base[c] < Len(log) /\ Len(log) - base[c] \in Nat
          /\ i - base[c] \in 1..(Len(log) - base[c]) /\ base[c] + (i - base[c]) = i
      BY <1>1, <3>1, Between, Zenon
    <3>3. n = Len(log) - base[c]
      BY <3>2, Zenon
    <3> HIDE DEF n
    <3> QED
      BY <3>2, <3>3, Zenon
  <2>4. Len(s) = n
    BY <2>3
  <2> HIDE DEF s
  <2>5. Range(SubSeq(s, 1, Len(s))) = {s[j] : j \in 1..Len(s)}
    BY <2>2, WholeRange, Zenon
  <2>6. 0 * ReplayBatch + 1 = 1
    BY ReplayBatchAssumption
  <2>7. i \in Remaining(c)'
    BY <2>2, <2>3, <2>4, <2>5, <2>6 DEF Remaining
  <2> QED
    BY <2>7, Zenon DEF Has
<1>3. CASE ~ReplayLoad(c)
  <2>1. /\ phase[c] = "open" /\ ~done[c] /\ owed[c] /\ pc[c] # "load"
        /\ base'[c] = base[c] /\ ~Deregister(c)
    BY <1>3, OwedMoves, Zenon
  <2>2. Has(c) \subseteq Has(c)'
    BY <1>3, <2>1, HasMoves, Zenon
  <2>3. ASSUME i <= Len(log)
        PROVE  i \in Has(c) \/ (Pending(c) /\ i = Len(log)) \/ log[i] \in {c, Nil}
    <3>1. i \in (base'[c] + 1)..Len(log)
      BY <1>1, <2>3, Below, Zenon
    <3>2. i \in (base[c] + 1)..Len(log)
      BY <2>1, <3>1, Zenon
    <3> QED
      BY <2>1, <3>2, Zenon DEF Covered, Has
  <2>4. ASSUME NEW d \in Client, Commit(d)
        PROVE  i \in Has(c)' \/ (Pending(c)' /\ i = Len(log')) \/ log'[i] \in {c, Nil}
    <3>1. /\ bc = Nil /\ log' = Append(log, d)
          /\ bc' = [by |-> d, seq |-> Len(log) + 1, targets |-> Nil]
      BY <2>4, Zenon DEF Commit
    <3>2. Len(log') = Len(log) + 1 /\ \A j \in 1..Len(log) : log'[j] = log[j]
      BY <3>1 DEF TypeOK
    <3>3. CASE i <= Len(log)
      <4>1. i \in 1..Len(log)
        BY <1>1, <3>3, AtMost, Zenon
      <4>2. ~Pending(c)
        BY <3>1, Zenon DEF Pending
      <4> QED
        BY <2>2, <2>3, <3>2, <3>3, <4>1, <4>2, Zenon
    <3>4. CASE i = Len(log')
      <4>1. bc' \in [by : Client, seq : Nat, targets : (SUBSET Client) \cup {Nil}]
        BY <1>1, <3>1
      <4> QED
        BY <3>1, <3>4, <4>1, DeliveryNil, Zenon DEF Pending
    <3> QED
      BY <1>1, <3>2, <3>3, <3>4, OldOrNew, Zenon
  <2>5. ASSUME \A d \in Client : ~Commit(d)
        PROVE  i \in Has(c)' \/ (Pending(c)' /\ i = Len(log')) \/ log'[i] \in {c, Nil}
    <3>4. CASE bc = Nil /\ bc' = Nil /\ log' = Append(log, Nil)
      <4>1. /\ Len(log') = Len(log) + 1 /\ log'[Len(log')] = Nil
            /\ \A j \in 1..Len(log) : log'[j] = log[j]
        BY <1>1, <3>4
      <4>2. CASE i <= Len(log)
        <5>1. i \in 1..Len(log) /\ ~Pending(c)
          BY <1>1, <3>4, <4>2, AtMost, Zenon DEF Pending
        <5> QED
          BY <2>2, <2>3, <4>1, <4>2, <5>1, Zenon
      <4>3. CASE i = Len(log')
        BY <4>1, <4>3, Zenon
      <4> QED
        BY <1>1, <4>1, <4>2, <4>3, OldOrNew, Zenon
    <3> SUFFICES ASSUME log' = log
                 PROVE  i \in Has(c)' \/ (Pending(c)' /\ i = Len(log')) \/ log'[i] \in {c, Nil}
      BY <2>5, <3>4, BroadcastMoves, Zenon
    <3>1. log' = log
      OBVIOUS
    <3>2. CASE i \in Has(c) \/ log[i] \in {c, Nil}
      BY <2>2, <3>1, <3>2, Zenon
    <3>3. CASE Pending(c) /\ i = Len(log)
      <4>1. Pending(c)' \/ Fan(c)
        BY <2>1, <2>5, <3>3, PendingMoves, Zenon DEF Noted
      <4>2. CASE Fan(c)
        <5>1. bc # Nil /\ bc.seq = i /\ bc.seq \in Seqs
          BY <3>3, <4>2, Zenon DEF Fan, Casting, TypeOK
        <5>2. CASE subs[c] = log[bc.seq]
          BY <3>1, <5>1, <5>2, Zenon DEF Noted, TypeOK
        <5>3. CASE Enqueue(c, [type |-> "sync", seq |-> bc.seq])
          <6>1. PICK f \in Frame : f = [type |-> "sync", seq |-> bc.seq]
            BY <5>1, FrameTyped, Zenon
          <6>2. queue'[c] = Append(queue[c], f)
            BY <5>3, <6>1, EnqueueEffect, Zenon
          <6>3. i \in Carried(f)
            BY <5>1, <6>1, Zenon DEF Carried
          <6>4. i \in Queued(queue'[c])
            <7>1. queue[c] \in Seq(Frame)
              BY Zenon DEF TypeOK
            <7> QED
              BY <6>2, <6>3, <7>1, QueuedAppend, Zenon
          <6> QED
            BY <6>4, Zenon DEF Has
        <5> QED
          BY <4>2, <5>2, <5>3, Zenon DEF Fan
      <4> QED
        BY <3>1, <3>3, <4>1, <4>2, Zenon
    <3> QED
      BY <1>1, <2>3, <3>1, <3>2, <3>3, AtMost, Zenon
  <2> QED
    BY <2>4, <2>5, Zenon
<1> QED
  BY <1>2, <1>3, Zenon
----------------------------------------------------------------------------
(* The invariant, and what follows from it.                                *)

\* It holds at the start.
LEMMA DeliveryInit == Init => DeliveryInv
<1> SUFFICES ASSUME Init PROVE DeliveryInv
  BY Zenon
<1>1. TypeOK
  BY QueueSizeAssumption, MaxOpsAssumption DEF Init, TypeOK, NoReplay
<1>2. Submitters = {} /\ Held = {} /\ Len(log) = 0
  BY Zenon DEF Init, Submitters, Held
<1>3. Room
  BY <1>2, FS_EmptySet, MaxOpsAssumption DEF Room
<1>4. Slots
  <2>1. active = 0 /\ hubDocs = {} /\ setup.maxConns \in Nat
    BY SetupsAssumption, Zenon DEF Init
  <2>2. IsFiniteSet(Held) /\ Cardinality(Held) = 0
    BY <1>2, FS_EmptySet, Zenon
  <2> QED
    BY <2>1, <2>2 DEF Slots, SlotsExact, Held
<1>5. Casting
  BY Zenon DEF Casting, Init
<1>6. ASSUME NEW c \in Client PROVE Noted(c) /\ Ordered(c) /\ Covered(c)
  <2>1. Noted(c) /\ Covered(c)
    BY <1>6, Zenon DEF Init, Noted, Covered
  <2>2. queue[c] = <<>> /\ lastLive[c] = 0 /\ Len(log) = 0 /\ bc = Nil
    BY <1>6, <1>2, Zenon DEF Init
  <2>3. Ordered(c)
    BY <2>2 DEF Ordered, Pending, Ascends
  <2> QED
    BY <2>1, <2>3, Zenon
<1> QED
  BY <1>1, <1>3, <1>4, <1>5, <1>6, Zenon DEF DeliveryInv

\* Every step keeps it.
LEMMA DeliveryStep == DeliveryInv /\ [Next]_vars => DeliveryInv'
<1> SUFFICES ASSUME DeliveryInv, [Next]_vars PROVE DeliveryInv'
  BY Zenon
<1> USE DEF DeliveryInv
<1>1. CASE UNCHANGED vars
  BY <1>1, Zenon DEF vars, connVars, clientVars, TypeOK, Room, Submitters, Casting, Slots, SlotsExact, Held,
              Noted, Ordered, Covered, Pending, Remaining
<1>2. CASE Next
  <2>1. TypeOK'
    BY <1>2, TypeLife, TypeReplay, TypeSubmit, TypeCast, Zenon DEF Next, ServerStep
  <2>2. Room' /\ Casting' /\ Slots'
    BY <1>2, RoomStep, CastingStep, SlotsStep, Zenon
  <2>3. ASSUME NEW c \in Client PROVE Noted(c)' /\ Ordered(c)' /\ Covered(c)'
    BY <1>2, <2>1, <2>2, NotedStep, OrderStep, CoveredStep, Zenon
  <2> QED
    BY <2>1, <2>2, <2>3, Zenon
<1> QED
  BY <1>1, <1>2, Zenon

LEMMA DeliveryInvariant == Spec => []DeliveryInv
BY DeliveryInit, DeliveryStep, PTL DEF Spec

\* Every variable keeps its type; in particular no send queue outgrows
\* sendQueueSize (enqueueErr).
THEOREM TypeCorrect == Spec => []TypeOK
<1>1. DeliveryInv => TypeOK
  BY Zenon DEF DeliveryInv
<1> QED
  BY <1>1, DeliveryInvariant, PTL

\* No committed operation falls between replay and live delivery, whatever the
\* number of connections and the size of queues and batches (handleSubscribe,
\* Replay, Broadcast).
THEOREM GapCorrect == Spec => []NoGap
<1>1. DeliveryInv => NoGap
  BY Zenon DEF DeliveryInv, NoGap, Covered, Pending, Casting
<1> QED
  BY <1>1, DeliveryInvariant, PTL

\* Live operations reach every connection in the order of their seqs, none twice
\* (Submit holds the document's mutex over Broadcast).
THEOREM OrderCorrect == Spec => []LiveInOrder
<1>1. DeliveryInv => LiveInOrder
  BY Zenon DEF DeliveryInv, LiveInOrder, Ordered, Ascends
<1> QED
  BY <1>1, DeliveryInvariant, PTL

\* hub.active counts the connections that hold a slot, within the limit, and the
\* hub knows only connections that are served (tryRegister, release, deregister).
THEOREM SlotsCorrect == Spec => []SlotsExact
<1>1. DeliveryInv => SlotsExact
  BY Zenon DEF DeliveryInv, Slots
<1> QED
  BY <1>1, DeliveryInvariant, PTL

----------------------------------------------------------------------------
(* How far the disagreement on catching up reaches.                        *)

\* A read loop that is not replaying has nothing left to replay.
NothingLeft == \A c \in Client : pc[c] # "replay" => todo[c] = NoReplay

\* Replay leaves nothing behind when it returns (replay.go:15-50).
LEMMA NothingLeftStep ==
    ASSUME TypeOK, Casting, NothingLeft, [Next]_vars
    PROVE  NothingLeft'
<1>1. ASSUME NEW c \in Client, todo' = todo, NEW x, x # "replay", pc' = [pc EXCEPT ![c] = x],
             pc[c] # "replay"
      PROVE  NothingLeft'
  BY <1>1 DEF NothingLeft, TypeOK
<1>2. CASE todo' = todo /\ pc' = pc
  BY <1>2, Zenon DEF NothingLeft
<1>3. ASSUME NEW c \in Client, ReplayLoad(c) PROVE NothingLeft'
  <2>1. PICK t : todo' = [todo EXCEPT ![c] = t] /\ pc' = [pc EXCEPT ![c] = "replay"]
    BY <1>3, Zenon DEF ReplayLoad
  <2> QED
    BY <2>1 DEF NothingLeft, TypeOK
<1>4. ASSUME NEW c \in Client, ReplayDeliver(c) PROVE NothingLeft'
  <2>1. /\ pc[c] = "replay"
        /\ \/ pc' = [pc EXCEPT ![c] = "read"] /\ todo' = [todo EXCEPT ![c] = NoReplay]
           \/ pc' = pc /\ \E t : todo' = [todo EXCEPT ![c] = t]
    BY <1>4, Zenon DEF ReplayDeliver
  <2>2. CASE pc' = [pc EXCEPT ![c] = "read"] /\ todo' = [todo EXCEPT ![c] = NoReplay]
    BY <2>2, Zenon DEF NothingLeft, TypeOK
  <2>3. ASSUME pc' = pc, NEW t, todo' = [todo EXCEPT ![c] = t]
        PROVE  NothingLeft'
    BY <2>1, <2>3, Zenon DEF NothingLeft, TypeOK
  <2> QED
    BY <2>1, <2>2, <2>3, Zenon
<1>5. ASSUME NEW c \in Client,
             \/ TryRegister(c) \/ Release(c) \/ Accept(c) \/ Drop(c) \/ Write(c)
             \/ HandleOther(c) \/ Deregister(c) \/ Fan(c)
      PROVE  todo' = todo /\ pc' = pc
  BY <1>5, Zenon DEF TryRegister, Release, Accept, Drop, Write, HandleOther, Deregister, Fan
<1>6. ASSUME NEW c \in Client,
             \/ HandleSubscribe(c) \/ HandleSync(c) \/ ReplayFails(c)
             \/ SubmitFails(c) \/ Commit(c) \/ Ack(c)
      PROVE  NothingLeft'
  <2>1. /\ todo' = todo /\ pc[c] \in {"read", "load", "submit", "ack"}
        /\ \E x \in {"load", "submit", "read", "broadcast"} : pc' = [pc EXCEPT ![c] = x]
    BY <1>6, Zenon DEF HandleSubscribe, HandleSync, Reading, ReplayFails, SubmitFails, Commit, Ack
  <2>2. pc[c] # "replay"
    BY <2>1
  <2> QED
    BY <1>1, <2>1, <2>2, Zenon
<1>7. CASE BroadcastDone
  <2>1. /\ todo' = todo /\ bc.by \in Client /\ pc[bc.by] = "broadcast"
        /\ pc' = [pc EXCEPT ![bc.by] = "ack"]
    BY <1>7, Zenon DEF BroadcastDone, Casting, TypeOK
  <2> QED
    BY <1>1, <2>1, Zenon
<1>8. CASE CopyTargets \/ UNCHANGED vars
  BY <1>2, <1>8, Zenon DEF CopyTargets, vars, connVars
<1> QED
  BY <1>2, <1>3, <1>4, <1>5, <1>6, <1>7, <1>8, Zenon DEF Next, ServerStep

\* A client that is caught up has every operation after the last_seq of its
\* subscribe, its own and those reported as failed apart: what a reconnecting
\* client may lack lies before the last_seq it sent (connection.go:121-145).
CaughtUp ==
    \A c \in Client :
        Reading(c) /\ owed[c] /\ queue[c] = <<>> /\ bc = Nil =>
            \A i \in (base[c] + 1)..Len(log) : i \in seen[c] \/ log[i] \in {c, Nil}

\* Once its subscribe is answered and its queue is drained, a client misses no
\* operation after its last_seq, for any number of clients and any sizes of queue
\* and batch (handleSubscribe, Replay, Broadcast).
THEOREM CatchUpCorrect == Spec => []CaughtUp
<1>1. Init => NothingLeft
  BY Zenon DEF Init, NothingLeft
<1>2. DeliveryInv /\ NothingLeft /\ [Next]_vars => NothingLeft'
  BY NothingLeftStep, Zenon DEF DeliveryInv
<1>3. NothingLeft /\ NoGap => CaughtUp
  <2> SUFFICES ASSUME NothingLeft, NoGap, NEW c \in Client,
                      Reading(c), owed[c], queue[c] = <<>>, bc = Nil,
                      NEW i \in (base[c] + 1)..Len(log)
               PROVE  i \in seen[c] \/ log[i] \in {c, Nil}
    BY Zenon DEF CaughtUp
  <2>1. phase[c] = "open" /\ ~done[c] /\ pc[c] = "read"
    BY Zenon DEF Reading
  <2>2. Queued(queue[c]) = {}
    BY DEF Queued
  <2>3. todo[c] = NoReplay
    BY <2>1 DEF NothingLeft
  <2>4. Remaining(c) = {}
    BY <2>3, ReplayBatchAssumption DEF Remaining, NoReplay, Range
  <2> QED
    BY <2>1, <2>2, <2>4 DEF NoGap
<1> QED
  BY <1>1, <1>2, <1>3, DeliveryInvariant, GapCorrect, PTL DEF Spec
----------------------------------------------------------------------------
(* The operations of the process are a Stream, as the engine promises.     *)

Server == {"server"}   \* the one process

Sending == [n \in Server |-> IF bc = Nil THEN {} ELSE {bc.seq}]

B == INSTANCE Stream WITH Node <- Server, len <- Len(log), sending <- Sending

\* What is being sent, before and after a step.
LEMMA SendingIs ==
    /\ bc = Nil => Sending = [n \in Server |-> {}]
    /\ bc # Nil => Sending = [n \in Server |-> {bc.seq}]
    /\ bc' = Nil => Sending' = [n \in Server |-> {}]
    /\ bc' # Nil => Sending' = [n \in Server |-> {bc'.seq}]
BY Zenon DEF Sending

\* The commits and the broadcasts that the connections ask for are those that
\* the engine makes of Submit (engine.go:96-145), which is all that this module
\* takes of it.
THEOREM DeliveryStreams == Spec => B!Spec
<1>1. Init => B!Init
  BY DEF Init, B!Init, Sending
<1>2. ASSUME TypeOK, [Next]_vars
      PROVE  [B!Next]_(B!vars)
  <2>1. ASSUME NEW d \in Client, Commit(d)
        PROVE  B!Next
    <3>1. bc = Nil /\ log' = Append(log, d) /\ bc' = [by |-> d, seq |-> Len(log) + 1, targets |-> Nil]
      BY <2>1, Zenon DEF Commit
    <3>2. bc' # Nil /\ bc'.seq = Len(log) + 1
      <4>1. [by |-> d, seq |-> Len(log) + 1, targets |-> Nil]
              \in [by : Client, seq : Nat, targets : (SUBSET Client) \cup {Nil}]
        BY <1>2 DEF TypeOK
      <4> QED
        BY <3>1, <4>1, DeliveryNil, Zenon
    <3>3. Sending["server"] = {} /\ Sending' = [Sending EXCEPT !["server"] = {Len(log) + 1}]
      BY <3>1, <3>2, SendingIs DEF Server
    <3>4. Len(log)' = Len(log) + 1
      BY <1>2, <3>1 DEF TypeOK
    <3> QED
      BY <3>3, <3>4, Zenon DEF B!Next, B!Commit, Server
  <2>2. ASSUME Next, \A d \in Client : ~Commit(d)
        PROVE  [B!Next]_(B!vars)
    <3>1. /\ log' = log \/ (bc = Nil /\ bc' = Nil /\ log' = Append(log, Nil))
          /\ bc' # Nil => bc # Nil /\ bc'.seq = bc.seq
      BY <1>2, <2>2, BroadcastMoves, Zenon
    <3>2. CASE bc' # Nil
      BY <3>1, <3>2, SendingIs, Zenon DEF B!vars
    <3>3. CASE bc' = Nil /\ bc = Nil /\ log' = log
      BY <3>3, SendingIs, Zenon DEF B!vars
    <3>4. CASE bc' = Nil /\ bc = Nil /\ log' = Append(log, Nil)
      <4>1. Len(log)' = Len(log) + 1
        BY <1>2, <3>4 DEF TypeOK
      <4>2. Sending' = Sending
        BY <3>4, SendingIs, Zenon
      <4> QED
        BY <4>1, <4>2, Zenon DEF B!Next, B!CommitReplyLost
    <3>5. CASE bc' = Nil /\ bc # Nil
      <4>1. log' = log
        BY <3>1, <3>5, Zenon
      <4>2. Sending["server"] # {} /\ Sending' = [Sending EXCEPT !["server"] = {}]
        BY <3>5, SendingIs DEF Server
      <4> QED
        BY <4>1, <4>2, Zenon DEF B!Next, B!Sent, Server
    <3> QED
      BY <3>1, <3>2, <3>3, <3>4, <3>5, Zenon
  <2>3. CASE UNCHANGED vars
    BY <2>3, Zenon DEF vars, Sending, B!vars
  <2> QED
    BY <1>2, <2>1, <2>2, <2>3, Zenon
<1> QED
  BY <1>1, <1>2, TypeCorrect, PTL DEF Spec, B!Spec
=============================================================================
