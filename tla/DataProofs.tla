----------------------------- MODULE DataProofs -----------------------------
(***************************************************************************)
(* Safety of the conflict resolver, of the configuration and of schema     *)
(* migration, each for every value of its constants.  A component's        *)
(* inductive invariant comes first, then one lemma per group of actions.   *)
(***************************************************************************)
EXTENDS Integers, Sequences, BackgroundData, BackgroundSchema, TLAPS
----------------------------------------------------------------------------
(* The conflict resolver.                                                  *)

\* The changes acknowledged are in the log; the cached document holds all of the
\* log but what the endpoint left out, and a snapshot all up to its sequence number
\* but what was left out by then.
ResolverInv ==
    /\ C!TypeOK
    /\ acked \subseteq C!Range(log)
    /\ doc # Absent => C!Range(log) \subseteq doc \cup leftOut.doc
    /\ \A i \in 1..snap.seq : log[i] \in snap.state \cup leftOut.snap

\* What Range contains.
LEMMA RangeMember == \A s, x : x \in C!Range(s) <=> \E i \in DOMAIN s : s[i] = x
BY Zenon DEF C!Range

\* The elements of a part of a sequence.
LEMMA SubSeqMember ==
    ASSUME NEW S, NEW s \in Seq(S), NEW a \in 1..(Len(s) + 1), NEW b \in 0..Len(s)
    PROVE  /\ SubSeq(s, a, b) \in Seq(S)
           /\ C!Range(SubSeq(s, a, b)) \subseteq C!Range(s)
           /\ \A i \in a..b : s[i] \in C!Range(SubSeq(s, a, b))
<1> DEFINE t == SubSeq(s, a, b)
<1>1. t \in Seq(S) /\ Len(t) = (IF a <= b THEN b - a + 1 ELSE 0)
  OBVIOUS
<1>2. \A j \in 1..Len(t) : t[j] = s[a + j - 1] /\ a + j - 1 \in 1..Len(s)
  BY <1>1
<1>3. DOMAIN t = 1..Len(t) /\ DOMAIN s = 1..Len(s)
  BY <1>1
<1>4. ASSUME NEW i \in a..b PROVE s[i] \in C!Range(t)
  <2>1. i - a + 1 \in 1..Len(t) /\ a + (i - a + 1) - 1 = i
    BY <1>1
  <2>2. t[i - a + 1] = s[i]
    BY <1>2, <2>1, Zenon
  <2> QED
    BY <2>1, <2>2, <1>3, RangeMember, Zenon
<1>5. ASSUME NEW x \in C!Range(t) PROVE x \in C!Range(s)
  <2>1. PICK j \in 1..Len(t) : t[j] = x
    BY <1>3, RangeMember, Zenon
  <2> QED
    BY <1>2, <1>3, <2>1, RangeMember, Zenon
<1> QED
  BY <1>1, <1>4, <1>5, Zenon

\* The elements of a sequence with one more.
LEMMA AppendMember ==
    ASSUME NEW S, NEW s \in Seq(S), NEW x
    PROVE  C!Range(Append(s, x)) = C!Range(s) \cup {x}
<1>1. DOMAIN Append(s, x) = 1..(Len(s) + 1) /\ DOMAIN s = 1..Len(s) /\ Len(s) \in Nat
  OBVIOUS
<1>2. \A i \in 1..Len(s) : Append(s, x)[i] = s[i]
  OBVIOUS
<1>3. Append(s, x)[Len(s) + 1] = x
  OBVIOUS
<1>4. \A i \in 1..(Len(s) + 1) : i \in 1..Len(s) \/ i = Len(s) + 1
  BY <1>1
<1>5. Len(s) + 1 \in 1..(Len(s) + 1) /\ 1..Len(s) \subseteq 1..(Len(s) + 1)
  BY <1>1
<1> QED
  BY <1>1, <1>2, <1>3, <1>4, <1>5, Zenon DEF C!Range

\* The log consists of changes.
LEMMA LogTyped == \A S : \A s \in Seq(S) : C!Range(s) \subseteq S
BY DEF C!Range

\* Storage, the snapshot and the operations after it, holds every change of the
\* log but what the snapshot was left without.
LEMMA RehydrateLogged == ResolverInv => C!Range(log) \subseteq C!Rehydrate \cup leftOut.snap
<1> SUFFICES ASSUME ResolverInv, NEW x \in C!Range(log)
             PROVE  x \in C!Rehydrate \cup leftOut.snap
  BY Zenon
<1>1. log \in Seq(C!Change) /\ snap.seq \in 0..Len(log)
  BY Zenon DEF ResolverInv, C!TypeOK
<1>2. PICK i \in 1..Len(log) : log[i] = x
  BY <1>1, RangeMember
<1>3. CASE i \in 1..snap.seq
  BY <1>2, <1>3, Zenon DEF ResolverInv, C!Rehydrate
<1>4. CASE i \notin 1..snap.seq
  <2>1. i \in (snap.seq + 1)..Len(log) /\ snap.seq + 1 \in 1..(Len(log) + 1) /\ Len(log) \in 0..Len(log)
    BY <1>1, <1>4
  <2>2. log[i] \in C!Range(SubSeq(log, snap.seq + 1, Len(log)))
    BY <1>1, <2>1, SubSeqMember, Zenon
  <2> QED
    BY <1>2, <2>2, Zenon DEF C!Rehydrate
<1> QED
  BY <1>3, <1>4, Zenon

\* So does the document a Submit starts from.
LEMMA StateLogged == ResolverInv => C!Range(log) \subseteq C!State \cup C!Missing
BY RehydrateLogged, Zenon DEF ResolverInv, C!State, C!Missing

\* The invariant holds at the start.
LEMMA ResolverInit == C!ResolverAssumption /\ C!Init => ResolverInv
<1> SUFFICES ASSUME C!ResolverAssumption, C!Init PROVE ResolverInv
  BY Zenon
<1>1. C!TypeOK
  BY DEF C!ResolverAssumption, C!Init, C!TypeOK
<1>2. acked = {} /\ doc = Absent
  BY Zenon DEF C!Init
<1>3. \A i \in 1..snap.seq : log[i] \in snap.state \cup leftOut.snap
  BY DEF C!Init
<1> QED
  BY <1>1, <1>2, <1>3, Zenon DEF ResolverInv

\* One more change, by a client or by the endpoint, leaves the types as they are.
LEMMA MadeGrows ==
    ASSUME C!TypeOK, NEW a \in Client \cup {Absent}, NEW h \in SUBSET C!Change,
           made' = Append(made, [author |-> a, past |-> h])
    PROVE  /\ made' \in Seq([author : Client \cup {Absent}, past : SUBSET Nat])
           /\ C!Change \subseteq C!Change'
           /\ Len(made) + 1 \in C!Change'
           /\ C!Change' \subseteq Nat
<1> DEFINE R == [author : Client \cup {Absent}, past : SUBSET Nat]
<1>1. made \in Seq(R) /\ Len(made) \in Nat /\ C!Change = 1..Len(made)
  BY DEF C!TypeOK, C!Change
<1>2. [author |-> a, past |-> h] \in R
  BY <1>1
<1>3. made' \in Seq(R) /\ Len(made') = Len(made) + 1
  BY <1>1, <1>2
<1>4. C!Change' = 1..(Len(made) + 1)
  BY <1>3 DEF C!Change
<1> QED
  BY <1>1, <1>3, <1>4

\* The document a Submit starts from consists of changes.
LEMMA StateTyped == ResolverInv => C!State \subseteq C!Change
<1> SUFFICES ASSUME ResolverInv PROVE C!State \subseteq C!Change
  BY Zenon
<1>1. /\ log \in Seq(C!Change) /\ snap.seq \in 0..Len(log)
      /\ C!Range(log) \subseteq C!Change /\ snap.state \subseteq C!Change
  BY LogTyped, Zenon DEF ResolverInv, C!TypeOK
<1>2. snap.seq + 1 \in 1..(Len(log) + 1) /\ Len(log) \in 0..Len(log)
  BY <1>1
<1>3. C!Range(SubSeq(log, snap.seq + 1, Len(log))) \subseteq C!Range(log)
  BY <1>1, <1>2, SubSeqMember, Zenon
<1>4. C!Rehydrate \subseteq C!Change
  BY <1>1, <1>3, Zenon DEF C!Rehydrate
<1> QED
  BY <1>4, Zenon DEF ResolverInv, C!TypeOK, C!State

\* What is left out consists of changes.
LEMMA LeftOutTyped ==
    ASSUME ResolverInv, NEW x \in C!Change, NEW reply
    PROVE  C!LeftOut(x, reply) \subseteq C!Change
<1>1. C!TypeOK /\ C!State \subseteq C!Change
  BY StateTyped, Zenon DEF ResolverInv
<1>2. C!Missing \subseteq C!Change
  BY <1>1 DEF C!TypeOK, C!Missing
<1> QED
  BY <1>1, <1>2, Zenon DEF C!LeftOut

\* Whatever the endpoint replies, what applyChange loses of the document, or of the
\* change, a document of the endpoint's left out.
LEMMA ApplyAdds ==
    ASSUME ResolverInv, NEW x \in C!Change, NEW reply \in C!Replies,
           doc' = C!ApplyChange(C!State, x, reply).state,
           made' = C!ApplyChange(C!State, x, reply).made
    PROVE  /\ C!Range(log) \cup {x} \subseteq doc' \cup C!LeftOut(x, reply)
           /\ doc' \subseteq C!Change'
           /\ C!LeftOut(x, reply) \subseteq C!Change
           /\ made' \in Seq([author : Client \cup {Absent}, past : SUBSET Nat])
           /\ C!Change \subseteq C!Change'
<1>1. /\ C!TypeOK /\ C!State \subseteq C!Change
      /\ C!Range(log) \subseteq C!State \cup C!Missing
  BY StateTyped, StateLogged, Zenon DEF ResolverInv
<1>2. reply.state \subseteq C!Change
  BY DEF C!Replies
<1>4. C!LeftOut(x, reply) \subseteq C!Change
  BY LeftOutTyped, Zenon
<1>5. CASE C!Resolved(C!State, x, reply)
  <2>1. /\ doc' = C!Returned(reply).state /\ made' = C!Returned(reply).made
        /\ C!LeftOut(x, reply) = (C!Missing \cup C!State \cup {x}) \ reply.state
    BY <1>5, Zenon DEF C!ApplyChange, C!LeftOut
  <2>2. /\ reply.state \subseteq doc'
        /\ doc' \subseteq C!Change'
        /\ made' \in Seq([author : Client \cup {Absent}, past : SUBSET Nat])
        /\ C!Change \subseteq C!Change'
    <3>1. CASE reply.own
      <4> DEFINE h == C!Shown(reply.state)
      <4>1. C!Returned(reply) = [state |-> reply.state \cup {Len(made) + 1},
                                 made |-> Append(made, [author |-> Absent, past |-> h])]
        BY <3>1, Zenon DEF C!Returned
      <4>2. doc' = reply.state \cup {Len(made) + 1}
        BY <2>1, <4>1
      <4>3. made' = Append(made, [author |-> Absent, past |-> h])
        BY <2>1, <4>1
      <4>4. h \in SUBSET C!Change /\ Absent \in Client \cup {Absent}
        BY <1>2, Zenon DEF C!Shown
      <4>5. /\ made' \in Seq([author : Client \cup {Absent}, past : SUBSET Nat])
            /\ C!Change \subseteq C!Change'
            /\ Len(made) + 1 \in C!Change'
        BY <1>1, <4>3, <4>4, MadeGrows, Zenon
      <4> QED
        BY <1>2, <4>2, <4>5, Zenon
    <3>2. CASE ~reply.own
      <4>1. C!Returned(reply) = [state |-> reply.state, made |-> made]
        BY <3>2, Zenon DEF C!Returned
      <4>2. doc' = reply.state /\ made' = made
        BY <2>1, <4>1
      <4>3. C!Change' = C!Change
        BY <4>2, Zenon DEF C!Change
      <4> QED
        BY <1>1, <1>2, <4>2, <4>3, Zenon DEF C!TypeOK
    <3> QED
      BY <3>1, <3>2, Zenon
  <2>3. C!Range(log) \cup {x} \subseteq reply.state \cup C!LeftOut(x, reply)
    BY <1>1, <2>1, Zenon
  <2> QED
    BY <1>4, <2>2, <2>3, Zenon
<1>6. CASE ~C!Resolved(C!State, x, reply)
  <2>1. /\ C!ApplyChange(C!State, x, reply) = [state |-> C!State \cup {x}, made |-> made]
        /\ C!LeftOut(x, reply) = C!Missing \ {x}
    BY <1>6, Zenon DEF C!ApplyChange, C!LeftOut
  <2>2. doc' = C!State \cup {x} /\ made' = made
    BY <2>1
  <2>3. C!Change' = C!Change
    BY <2>2, Zenon DEF C!Change
  <2> QED
    BY <1>1, <1>4, <2>1, <2>2, <2>3, Zenon DEF C!TypeOK
<1> QED
  BY <1>5, <1>6, Zenon

\* What clients do, and a restart, keeps the invariant.
LEMMA ResolverClients ==
    ASSUME C!ResolverAssumption, ResolverInv,
           (\E c \in Client : C!Edit(c) \/ C!Receive(c)) \/ C!Restart
    PROVE  ResolverInv'
<1>1. /\ C!TypeOK /\ acked \subseteq C!Range(log)
      /\ doc # Absent => C!Range(log) \subseteq doc \cup leftOut.doc
      /\ \A i \in 1..snap.seq : log[i] \in snap.state \cup leftOut.snap
      /\ leftOut \in [doc : SUBSET C!Change, snap : SUBSET C!Change]
  BY Zenon DEF ResolverInv, C!TypeOK
<1>2. ASSUME NEW c \in Client, C!Edit(c) PROVE ResolverInv'
  <2>1. /\ made' = Append(made, [author |-> c, past |-> C!Shown(C!View(c))])
        /\ UNCHANGED <<seen, doc, log, snap, submits, acked, leftOut>>
    BY <1>2, Zenon DEF C!Edit
  <2>2. log \in Seq(C!Change) /\ seen[c] \in 0..Len(log) /\ C!Range(log) \subseteq C!Change
    BY <1>1, LogTyped, Zenon DEF C!TypeOK
  <2>3. C!Range(SubSeq(log, 1, seen[c])) \subseteq C!Change
    <3>1. 1 \in 1..(Len(log) + 1)
      BY <2>2
    <3> QED
      BY <1>1, <2>2, <3>1, SubSeqMember, Zenon
  <2>4. C!Shown(C!View(c)) \in SUBSET C!Change
    BY <2>3, Zenon DEF C!Shown, C!View, C!Own
  <2>5. /\ made' \in Seq([author : Client \cup {Absent}, past : SUBSET Nat])
        /\ C!Change \subseteq C!Change'
    BY <1>1, <2>1, <2>4, MadeGrows, Zenon
  <2>6. C!TypeOK'
    <3>1. log' \in Seq(C!Change')
      BY <2>1, <2>2, <2>5
    <3>2. leftOut' \in [doc : SUBSET C!Change', snap : SUBSET C!Change']
      BY <1>1, <2>1, <2>5
    <3> QED
      BY <1>1, <2>1, <2>5, <3>1, <3>2, Zenon DEF C!TypeOK
  <2> QED
    BY <1>1, <2>1, <2>6, Zenon DEF ResolverInv
<1>3. ASSUME NEW c \in Client, C!Receive(c) PROVE ResolverInv'
  <2>1. /\ seen' = [seen EXCEPT ![c] = Len(log)]
        /\ UNCHANGED <<made, doc, log, snap, submits, acked, leftOut>>
    BY <1>3, Zenon DEF C!Receive
  <2>2. Len(log) \in 0..Len(log)
    BY <1>1 DEF C!TypeOK
  <2>3. C!TypeOK'
    BY <1>1, <2>1, <2>2, Zenon DEF C!TypeOK, C!Change
  <2> QED
    BY <1>1, <2>1, <2>3, Zenon DEF ResolverInv
<1>4. CASE C!Restart
  <2>1. /\ doc' = Absent /\ leftOut' = [leftOut EXCEPT !.doc = {}]
        /\ UNCHANGED <<made, seen, log, snap, submits, acked>>
    BY <1>4, Zenon DEF C!Restart
  <2>2. /\ leftOut' \in [doc : SUBSET C!Change, snap : SUBSET C!Change]
        /\ leftOut'.snap = leftOut.snap
    BY <1>1, <2>1
  <2>3. C!TypeOK'
    BY <1>1, <2>1, <2>2, Zenon DEF C!TypeOK, C!Change
  <2> QED
    BY <1>1, <2>1, <2>2, <2>3, Zenon DEF ResolverInv
<1> QED
  BY <1>2, <1>3, <1>4, Zenon

\* What a Submit has merged keeps the invariant, whether or not it reached the log:
\* the document holds it unless the endpoint left it out, and a snapshot has the
\* document.
LEMMA ResolverMerged ==
    ASSUME C!ResolverAssumption, ResolverInv, NEW x \in C!Change, NEW reply \in C!Replies,
           doc' = C!ApplyChange(C!State, x, reply).state,
           made' = C!ApplyChange(C!State, x, reply).made,
           log' = log \/ log' = Append(log, x),
           leftOut' \in [doc : SUBSET C!Change, snap : SUBSET C!Change],
           leftOut'.doc = C!LeftOut(x, reply),
           \/ snap' = snap /\ leftOut'.snap = leftOut.snap
           \/ /\ log' = Append(log, x) /\ snap' = [state |-> doc', seq |-> Len(log) + 1]
              /\ leftOut'.snap = leftOut'.doc,
           acked' = acked \/ (log' = Append(log, x) /\ acked' = acked \cup {x}),
           seen' = seen,
           submits < MaxSubmits, submits' = submits + 1
    PROVE  ResolverInv'
<1>1. /\ C!TypeOK /\ acked \subseteq C!Range(log)
      /\ \A i \in 1..snap.seq : log[i] \in snap.state \cup leftOut.snap
  BY Zenon DEF ResolverInv
<1>2. /\ C!Range(log) \cup {x} \subseteq doc' \cup leftOut'.doc
      /\ doc' \subseteq C!Change'
      /\ made' \in Seq([author : Client \cup {Absent}, past : SUBSET Nat])
      /\ C!Change \subseteq C!Change'
  BY ApplyAdds, Zenon
<1>3. log \in Seq(C!Change) /\ Len(log) \in Nat /\ snap.seq \in 0..Len(log) /\ snap.state \subseteq C!Change
  BY <1>1 DEF C!TypeOK
<1>4. /\ log' \in Seq(C!Change')
      /\ Len(log') \in {Len(log), Len(log) + 1}
      /\ \A i \in 1..Len(log) : log'[i] = log[i]
      /\ log' = Append(log, x) => Len(log') = Len(log) + 1
  <2>1. CASE log' = log
    BY <1>2, <1>3, <2>1
  <2>2. CASE log' = Append(log, x)
    BY <1>2, <1>3, <2>2
  <2> QED
    BY <2>1, <2>2, Zenon
<1>5. C!Range(log) \subseteq C!Range(log)' /\ C!Range(log)' \subseteq C!Range(log) \cup {x}
  <2>1. CASE log' = log
    BY <2>1, Zenon
  <2>2. CASE log' = Append(log, x)
    BY <1>3, <2>2, AppendMember, Zenon
  <2> QED
    BY <2>1, <2>2, Zenon
<1>6. acked' \subseteq C!Range(log)'
  <2>1. log' = Append(log, x) => x \in C!Range(log)'
    <3>1. C!Range(Append(log, x)) = C!Range(log) \cup {x}
      BY <1>3, AppendMember, Zenon
    <3> QED
      BY <3>1, Zenon
  <2> QED
    BY <1>1, <1>5, <2>1, Zenon
<1>7. C!Range(log)' \subseteq doc' \cup leftOut'.doc
  BY <1>2, <1>5, Zenon
<1>8. \A i \in 1..Len(log') : log'[i] \in doc' \cup leftOut'.doc
  BY <1>4, <1>7, RangeMember
<1>9. /\ snap'.state \subseteq C!Change' /\ snap'.seq \in 0..Len(log')
      /\ \A i \in 1..snap'.seq : log'[i] \in snap'.state \cup leftOut'.snap
  <2>1. CASE snap' = snap /\ leftOut'.snap = leftOut.snap
    <3>1. 1..snap.seq \subseteq 1..Len(log) /\ snap.seq \in 0..Len(log')
      BY <1>3, <1>4
    <3> QED
      BY <1>1, <1>2, <1>3, <1>4, <2>1, <3>1, Zenon
  <2>2. CASE /\ log' = Append(log, x) /\ snap' = [state |-> doc', seq |-> Len(log) + 1]
             /\ leftOut'.snap = leftOut'.doc
    <3>1. snap'.state = doc' /\ snap'.seq = Len(log')
      BY <1>4, <2>2, Zenon
    <3>2. Len(log') \in 0..Len(log')
      BY <1>3, <1>4
    <3> QED
      BY <1>2, <1>8, <2>2, <3>1, <3>2, Zenon
  <2> QED
    BY <2>1, <2>2, Zenon
<1>10. C!TypeOK'
  <2>1. submits' \in 0..MaxSubmits
    BY <1>1 DEF C!TypeOK, C!ResolverAssumption
  <2>2. seen' \in [Client -> 0..Len(log')]
    <3>1. seen \in [Client -> 0..Len(log)]
      BY <1>1, Zenon DEF C!TypeOK
    <3> QED
      BY <1>3, <1>4, <3>1
  <2>3. acked' \subseteq C!Change'
    BY <1>4, <1>6, LogTyped, Zenon
  <2>4. leftOut' \in [doc : SUBSET C!Change', snap : SUBSET C!Change']
    BY <1>2
  <2> QED
    BY <1>2, <1>4, <1>9, <2>1, <2>2, <2>3, <2>4, Zenon DEF C!TypeOK
<1> QED
  BY <1>6, <1>7, <1>9, <1>10, Zenon DEF ResolverInv

\* A Submit whose AppendOp fails keeps it: nothing is acknowledged.
LEMMA ResolverSubmitFails ==
    ASSUME C!ResolverAssumption, ResolverInv, NEW x \in C!Change, NEW reply \in C!Replies,
           C!SubmitFails(x, reply)
    PROVE  ResolverInv'
<1>1. C!LeftOut(x, reply) \subseteq C!Change /\ leftOut \in [doc : SUBSET C!Change, snap : SUBSET C!Change]
  BY LeftOutTyped, Zenon DEF ResolverInv, C!TypeOK
<1>2. leftOut' = [leftOut EXCEPT !.doc = C!LeftOut(x, reply)]
  BY Zenon DEF C!SubmitFails
<1>3. /\ leftOut' \in [doc : SUBSET C!Change, snap : SUBSET C!Change]
      /\ leftOut'.doc = C!LeftOut(x, reply) /\ leftOut'.snap = leftOut.snap
  BY <1>1, <1>2
<1> QED
  BY <1>3, ResolverMerged, Zenon DEF C!SubmitFails

\* So does a Submit that commits.
LEMMA ResolverSubmit ==
    ASSUME C!ResolverAssumption, ResolverInv, NEW x \in C!Change, NEW reply \in C!Replies,
           NEW saved \in BOOLEAN, C!Submit(x, reply, saved)
    PROVE  ResolverInv'
<1> DEFINE due == saved /\ SnapshotEvery > 0 /\ (Len(log) + 1) % SnapshotEvery = 0
<1>1. C!LeftOut(x, reply) \subseteq C!Change /\ leftOut \in [doc : SUBSET C!Change, snap : SUBSET C!Change]
  BY LeftOutTyped, Zenon DEF ResolverInv, C!TypeOK
<1>2. /\ snap' = IF due THEN [state |-> doc', seq |-> Len(log) + 1] ELSE snap
      /\ leftOut' = [doc |-> C!LeftOut(x, reply),
                     snap |-> IF due THEN C!LeftOut(x, reply) ELSE leftOut.snap]
  BY Zenon DEF C!Submit
<1>3. /\ leftOut' \in [doc : SUBSET C!Change, snap : SUBSET C!Change]
      /\ leftOut'.doc = C!LeftOut(x, reply)
      /\ leftOut'.snap = IF due THEN C!LeftOut(x, reply) ELSE leftOut.snap
  BY <1>1, <1>2
<1> HIDE DEF due
<1> QED
  BY <1>2, <1>3, ResolverMerged, Zenon DEF C!Submit

\* The invariant of the conflict resolver.
THEOREM ResolverInvariant == C!Spec => []ResolverInv
<1> USE ResolverAssumed
<1>1. C!Init => ResolverInv
  BY ResolverInit, Zenon
<1>2. ResolverInv /\ [C!Next]_C!vars => ResolverInv'
  <2> SUFFICES ASSUME ResolverInv, [C!Next]_C!vars PROVE ResolverInv'
    BY Zenon
  <2>1. CASE (\E c \in Client : C!Edit(c) \/ C!Receive(c)) \/ C!Restart
    BY <2>1, ResolverClients, Zenon
  <2>2. ASSUME NEW x \in C!Change, NEW reply \in C!Replies, C!SubmitFails(x, reply)
        PROVE  ResolverInv'
    BY <2>2, ResolverSubmitFails, Zenon
  <2>3. ASSUME NEW x \in C!Change, NEW reply \in C!Replies, NEW saved \in BOOLEAN,
               C!Submit(x, reply, saved)
        PROVE  ResolverInv'
    BY <2>3, ResolverSubmit, Zenon
  <2>4. CASE UNCHANGED C!vars
    BY <2>4, Zenon DEF C!vars, ResolverInv, C!TypeOK, C!Change, C!Range
  <2> QED
    BY <2>1, <2>2, <2>3, <2>4, Zenon DEF C!Next
<1> QED
  BY <1>1, <1>2, PTL DEF C!Spec

\* A change whose Submit returned is in the log; with its history submitted too, it
\* shows in memory and after a restart unless a document of the endpoint's left it
\* out, whatever the endpoint replied and however many changes, submissions,
\* failures and restarts there were (applyChange, Submit, loadDoc).
THEOREM ResolverAckedShown == C!Spec => []AckedShown
<1>1. ASSUME ResolverInv, NEW x \in acked
      PROVE  LET needed == {x} \cup made[x].past IN
             /\ x \in C!Range(log)
             /\ needed \subseteq acked /\ needed \cap leftOut.doc = {} /\ doc # Absent
                  => x \in C!Shown(doc)
             /\ needed \subseteq acked /\ needed \cap leftOut.snap = {}
                  => x \in C!Shown(C!Rehydrate)
  <2> DEFINE needed == {x} \cup made[x].past
  <2>1. acked \subseteq C!Range(log) /\ (doc # Absent => C!Range(log) \subseteq doc \cup leftOut.doc)
    BY <1>1, Zenon DEF ResolverInv
  <2>2. C!Range(log) \subseteq C!Rehydrate \cup leftOut.snap
    BY <1>1, RehydrateLogged, Zenon
  <2>3. ASSUME NEW s, needed \subseteq s PROVE x \in C!Shown(s)
    BY <2>3, Zenon DEF C!Shown
  <2> QED
    BY <2>1, <2>2, <2>3, Zenon
<1>2. ResolverInv => AckedShown
  BY <1>1, Zenon DEF AckedShown, C!AckedShown
<1> QED
  BY <1>2, ResolverInvariant, PTL
----------------------------------------------------------------------------
(* The configuration.                                                      *)

\* What the file and what the environment make of a setting.
FromFile(k) == IF file[k] # Absent THEN file[k] ELSE G!Default[k]
FromEnv(k) == IF env[k] # Absent THEN G!Parsed(k) ELSE FromFile(k)

Parses(s) == \A k \in G!Key : s[k] # Bad

\* At each stage every setting comes from the highest source read so far, and from
\* then on that source held nothing that does not parse.
ConfigInv ==
    /\ G!Fits(file, "file") /\ G!Fits(env, "env")
    /\ step = "default" => cfg = G!Default
    /\ step \in {"file", "env", "loaded"} => Parses(file) /\ DOMAIN cfg = G!Key
    /\ step \in {"env", "loaded"} => Parses(env)
    /\ step = "file" => \A k \in G!Key : cfg[k] = FromFile(k)
    /\ step \in {"env", "loaded"} => \A k \in G!Key : cfg[k] = FromEnv(k)
    /\ step = "ready" => \A k \in G!Key : cfg[k] = G!Highest(k)
    /\ step = "ready" /\ embed.full => Parses(file) /\ Parses(env)
    /\ step \in {"loaded", "ready"} => G!Valid(cfg)

\* The invariant holds at the start.
LEMMA ConfigInit == G!ConfigAssumption /\ G!Init => ConfigInv
<1> SUFFICES ASSUME G!ConfigAssumption, G!Init PROVE ConfigInv
  BY Zenon
<1>1. step = "default" /\ cfg = G!Default
  BY Zenon DEF G!Init
<1>2. PICK s \in Sources : file = s.file /\ env = s.env
  BY Zenon DEF G!Init
<1>3. G!Fits(file, "file") /\ G!Fits(env, "env")
  BY <1>2, Zenon DEF G!ConfigAssumption
<1> QED
  BY <1>1, <1>3, SMT DEF ConfigInv

\* The file and the environment are read, never changed.
LEMMA FitsKept ==
    ASSUME ConfigInv, file' = file, env' = env
    PROVE  G!Fits(file, "file")' /\ G!Fits(env, "env")'
<1>1. G!Fits(file, "file") /\ G!Fits(env, "env")
  BY Zenon DEF ConfigInv
<1> QED
  BY <1>1, Zenon

\* A stage that fails keeps it.
LEMMA ConfigFail == ConfigInv /\ G!Fail => ConfigInv'
<1> SUFFICES ASSUME ConfigInv, G!Fail PROVE ConfigInv'
  BY Zenon
<1>1. step' = "failed" /\ file' = file /\ env' = env
  BY Zenon DEF G!Fail
<1>2. G!Fits(file, "file")' /\ G!Fits(env, "env")'
  BY <1>1, FitsKept, Zenon
<1> QED
  BY <1>1, <1>2, SMT DEF ConfigInv

\* Reading the file keeps it.
LEMMA ConfigReadFile == ConfigInv /\ G!ReadFile => ConfigInv'
<1> SUFFICES ASSUME ConfigInv, G!ReadFile PROVE ConfigInv'
  BY Zenon
<1>1. CASE \E k \in G!Key : file[k] = Bad
  BY <1>1, ConfigFail, Zenon DEF G!ReadFile
<1>2. CASE ~\E k \in G!Key : file[k] = Bad
  <2>1. /\ step = "default" /\ step' = "file" /\ file' = file /\ env' = env
        /\ cfg' = [k \in G!Key |-> IF file[k] = Absent THEN cfg[k] ELSE file[k]]
    BY <1>2, Zenon DEF G!ReadFile
  <2>2. G!Fits(file, "file")' /\ G!Fits(env, "env")' /\ cfg = G!Default
    BY <2>1, FitsKept, Zenon DEF ConfigInv
  <2>3. \A k \in G!Key : cfg'[k] = FromFile(k)'
    BY <2>1, <2>2, Zenon DEF FromFile
  <2>4. DOMAIN cfg' = G!Key /\ Parses(file)'
    BY <1>2, <2>1, Zenon DEF Parses
  <2> QED
    BY <2>1, <2>2, <2>3, <2>4, SMT DEF ConfigInv
<1> QED
  BY <1>1, <1>2, Zenon

\* So does the environment.
LEMMA ConfigApplyEnv == ConfigInv /\ G!ApplyEnv => ConfigInv'
<1> SUFFICES ASSUME ConfigInv, G!ApplyEnv PROVE ConfigInv'
  BY Zenon
<1>1. CASE \E k \in G!Key : env[k] = Bad
  BY <1>1, ConfigFail, Zenon DEF G!ApplyEnv
<1>2. CASE ~\E k \in G!Key : env[k] = Bad
  <2>1. /\ step = "file" /\ step' = "env" /\ file' = file /\ env' = env
        /\ cfg' = [k \in G!Key |-> IF env[k] = Absent THEN cfg[k] ELSE G!Parsed(k)]
    BY <1>2, Zenon DEF G!ApplyEnv
  <2>2. G!Fits(file, "file")' /\ G!Fits(env, "env")'
    BY <2>1, FitsKept, Zenon
  <2>3. Parses(file) /\ \A k \in G!Key : cfg[k] = FromFile(k)
    BY <2>1, SMT DEF ConfigInv
  <2>4. \A k \in G!Key : cfg'[k] = FromEnv(k)'
    BY <2>1, <2>3, Zenon DEF FromFile, FromEnv, G!Parsed
  <2>5. DOMAIN cfg' = G!Key /\ Parses(file)' /\ Parses(env)'
    BY <1>2, <2>1, <2>3, Zenon DEF Parses
  <2> QED
    BY <2>1, <2>2, <2>4, <2>5, SMT DEF ConfigInv
<1> QED
  BY <1>1, <1>2, Zenon

\* Validation keeps it.
LEMMA ConfigLoad == ConfigInv /\ G!Load => ConfigInv'
<1> SUFFICES ASSUME ConfigInv, G!Load PROVE ConfigInv'
  BY Zenon
<1>1. CASE ~G!Valid(cfg)
  BY <1>1, ConfigFail, Zenon DEF G!Load
<1>2. CASE G!Valid(cfg)
  <2>1. /\ step = "env" /\ step' = "loaded"
        /\ file' = file /\ env' = env /\ embed' = embed /\ cfg' = cfg
    BY <1>2, Zenon DEF G!Load
  <2>2. G!Fits(file, "file")' /\ G!Fits(env, "env")'
    BY <2>1, FitsKept, Zenon
  <2>3. Parses(file) /\ Parses(env) /\ DOMAIN cfg = G!Key /\ \A k \in G!Key : cfg[k] = FromEnv(k)
    BY <2>1, SMT DEF ConfigInv
  <2>4. Parses(file)' /\ Parses(env)' /\ DOMAIN cfg' = G!Key /\ \A k \in G!Key : cfg'[k] = FromEnv(k)'
    BY <2>1, <2>3, Zenon DEF Parses, FromEnv, FromFile, G!Parsed
  <2>5. G!Valid(cfg)'
    BY <1>2, <2>1, Zenon
  <2> QED
    BY <2>1, <2>2, <2>4, <2>5, SMT DEF ConfigInv
<1> QED
  BY <1>1, <1>2, Zenon

\* What an embedding program asks for, setting by setting.
LEMMA ConfiguratorsAsk ==
    ASSUME NEW c, DOMAIN c = G!Key, NEW k \in G!Key, NEW e, embed' = e
    PROVE  /\ DOMAIN G!Configurators(c, e) = G!Key
           /\ G!Configurators(c, e)[k] =
                IF G!Asked(k)' # Absent THEN G!Asked(k)' ELSE c[k]
<1>1. /\ "backend" \in DOMAIN c /\ "data_dir" \in DOMAIN c
      /\ "auth_mode" \in DOMAIN c /\ "header_name" \in DOMAIN c
  BY Zenon DEF G!Key, G!Texts, G!Names
<1>2. DOMAIN G!Configurators(c, e) = G!Key
  BY Zenon DEF G!Configurators
<1>3. /\ G!Configurators(c, e)["backend"] = (IF e.storage = Absent THEN c["backend"] ELSE "sqlite")
      /\ G!Configurators(c, e)["data_dir"] = (IF e.storage = Absent THEN c["data_dir"] ELSE e.storage)
      /\ G!Configurators(c, e)["auth_mode"] = (IF e.auth = Absent THEN c["auth_mode"] ELSE e.auth)
      /\ G!Configurators(c, e)["header_name"] = (IF e.header = Absent THEN c["header_name"] ELSE e.header)
  BY <1>1, Zenon DEF G!Configurators
<1>4. k \notin {"backend", "data_dir", "auth_mode", "header_name"} =>
         G!Configurators(c, e)[k] = c[k]
  BY <1>1, Zenon DEF G!Configurators
<1>5. G!Asked(k)' = CASE k = "backend" -> IF e.storage = Absent THEN Absent ELSE "sqlite"
                      [] k = "data_dir" -> e.storage
                      [] k = "auth_mode" -> e.auth
                      [] k = "header_name" -> e.header
                      [] OTHER -> Absent
  BY Zenon DEF G!Asked
<1>6. CASE k \in {"backend", "data_dir", "auth_mode", "header_name"}
  <2>1. CASE k = "backend"
    <3>1. Absent # "sqlite"
      BY ConfigAssumed, Zenon DEF G!ConfigAssumption
    <3> QED
      BY <1>2, <1>3, <1>5, <2>1, <3>1
  <2>2. CASE k = "data_dir"
    BY <1>2, <1>3, <1>5, <2>2
  <2>3. CASE k = "auth_mode"
    BY <1>2, <1>3, <1>5, <2>3
  <2>4. CASE k = "header_name"
    BY <1>2, <1>3, <1>5, <2>4
  <2> QED
    BY <1>6, <2>1, <2>2, <2>3, <2>4, Zenon
<1>7. CASE k \notin {"backend", "data_dir", "auth_mode", "header_name"}
  BY <1>2, <1>4, <1>5, <1>7
<1> QED
  BY <1>6, <1>7, Zenon

\* Building the engine keeps the invariant.
LEMMA ConfigNew ==
    ASSUME ConfigInv, NEW e \in G!Embeddings, G!New(e)
    PROVE  ConfigInv'
<1>1. /\ step = (IF e.full THEN "loaded" ELSE "default")
      /\ embed' = e /\ cfg' = G!Configurators(cfg, e)
      /\ step' = (IF G!Valid(cfg') THEN "ready" ELSE "failed")
      /\ file' = file /\ env' = env
  BY Zenon DEF G!New
<1>2. G!Fits(file, "file")' /\ G!Fits(env, "env")'
  BY <1>1, FitsKept, Zenon
<1>3. DOMAIN cfg = G!Key /\ \A k \in G!Key : cfg[k] = IF e.full THEN FromEnv(k) ELSE G!Default[k]
  <2>1. CASE e.full
    BY <1>1, <2>1, SMT DEF ConfigInv
  <2>2. CASE ~e.full
    <3>1. cfg = G!Default
      BY <1>1, <2>2, SMT DEF ConfigInv
    <3>2. DOMAIN G!Default = G!Key
      BY DEF G!Default, G!Key, G!Texts, G!Names, G!Numbers
    <3> QED
      BY <2>2, <3>1, <3>2, Zenon
  <2> QED
    BY <2>1, <2>2, Zenon
<1>4. e.full => Parses(file)' /\ Parses(env)'
  <2>1. e.full => Parses(file) /\ Parses(env)
    BY <1>1, SMT DEF ConfigInv
  <2> QED
    BY <1>1, <2>1, Zenon DEF Parses
<1>5. ASSUME NEW k \in G!Key PROVE cfg'[k] = G!Highest(k)'
  <2>1. cfg'[k] = IF G!Asked(k)' # Absent THEN G!Asked(k)' ELSE cfg[k]
    BY <1>1, <1>3, ConfiguratorsAsk, Zenon
  <2>2. cfg[k] = IF e.full THEN FromEnv(k) ELSE G!Default[k]
    BY <1>3, Zenon
  <2> QED
    BY <1>1, <2>1, <2>2, Zenon DEF G!Highest, FromEnv, FromFile, G!Parsed
<1>6. CASE G!Valid(cfg')
  <2>1. step' = "ready" /\ G!Valid(cfg)' /\ embed'.full = e.full
    BY <1>1, <1>6, Zenon
  <2> QED
    BY <1>2, <1>4, <1>5, <2>1, SMT DEF ConfigInv
<1>7. CASE ~G!Valid(cfg')
  <2>1. step' = "failed"
    BY <1>1, <1>7, Zenon
  <2> QED
    BY <1>2, <2>1, SMT DEF ConfigInv
<1> QED
  BY <1>6, <1>7, Zenon

\* The invariant of the configuration.
THEOREM ConfigInvariant == G!Spec => []ConfigInv
<1>1. G!Init => ConfigInv
  BY ConfigInit, ConfigAssumed, Zenon
<1>2. ConfigInv /\ [G!Next]_G!vars => ConfigInv'
  <2> SUFFICES ASSUME ConfigInv, [G!Next]_G!vars PROVE ConfigInv'
    BY Zenon
  <2>1. ASSUME NEW e \in G!Embeddings, G!New(e) PROVE ConfigInv'
    BY <2>1, ConfigNew, Zenon
  <2>2. CASE UNCHANGED G!vars
    <3>1. step' = step /\ file' = file /\ env' = env /\ embed' = embed /\ cfg' = cfg
      BY <2>2, Zenon DEF G!vars
    <3>2. G!Fits(file, "file")' /\ G!Fits(env, "env")'
      BY <3>1, FitsKept, Zenon
    <3>3. (Parses(file)' <=> Parses(file)) /\ (Parses(env)' <=> Parses(env)) /\ (G!Valid(cfg)' <=> G!Valid(cfg))
      BY <3>1, Zenon DEF Parses
    <3>4. \A k : FromFile(k)' = FromFile(k) /\ FromEnv(k)' = FromEnv(k) /\ G!Highest(k)' = G!Highest(k)
      BY <3>1, Zenon DEF FromFile, FromEnv, G!Parsed, G!Highest, G!Asked
    <3> QED
      BY <3>1, <3>2, <3>3, <3>4, SMT DEF ConfigInv
  <2> QED
    BY <2>1, <2>2, ConfigReadFile, ConfigApplyEnv, ConfigLoad, Zenon DEF G!Next
<1> QED
  BY <1>1, <1>2, PTL DEF G!Spec

\* Every value of the configuration has its type (Load, New).
LEMMA ConfigTyped == G!Spec => []G!TypeOK
<1>1. G!Init => G!TypeOK
  <2> SUFFICES ASSUME G!Init PROVE G!TypeOK
    BY Zenon
  <2>1. ConfigInv
    BY ConfigInit, ConfigAssumed, Zenon
  <2>2. embed \in G!Embeddings
    BY DEF G!Init, G!Embeddings, G!Standalone
  <2>3. DOMAIN cfg = G!Key
    BY DEF G!Init, G!Default, G!Key, G!Texts, G!Names, G!Numbers
  <2> QED
    BY <2>1, <2>2, <2>3, Zenon DEF ConfigInv, G!TypeOK, G!Init
<1>2. G!TypeOK /\ [G!Next]_G!vars => G!TypeOK'
  <2> SUFFICES ASSUME G!TypeOK, [G!Next]_G!vars PROVE G!TypeOK'
    BY Zenon
  <2>1. file' = file /\ env' = env
    BY Zenon DEF G!Next, G!ReadFile, G!ApplyEnv, G!Load, G!New, G!Fail, G!vars
  <2>2. G!Fits(file, "file")' /\ G!Fits(env, "env")'
    <3>1. G!Fits(file, "file") /\ G!Fits(env, "env")
      BY Zenon DEF G!TypeOK
    <3> QED
      BY <2>1, <3>1, Zenon
  <2>3. step' \in {"default", "file", "env", "loaded", "ready", "failed"}
    BY Zenon DEF G!TypeOK, G!Next, G!ReadFile, G!ApplyEnv, G!Load, G!New, G!Fail, G!vars
  <2>4. embed' \in G!Embeddings
    BY Zenon DEF G!TypeOK, G!Next, G!ReadFile, G!ApplyEnv, G!Load, G!New, G!Fail, G!vars
  <2>5. DOMAIN cfg' = G!Key
    BY Zenon DEF G!TypeOK, G!Next, G!ReadFile, G!ApplyEnv, G!Load, G!New, G!Fail, G!vars,
                 G!Configurators
  <2> QED
    BY <2>2, <2>3, <2>4, <2>5, Zenon DEF G!TypeOK
<1> QED
  BY <1>1, <1>2, PTL DEF G!Spec

\* A number is one once the file and the environment are read.
LEMMA SettingTyped ==
    ASSUME ConfigInv, step = "ready"
    PROVE  /\ cfg["snapshot_interval"] \in Int /\ cfg["max_connections"] \in Int
           /\ cfg["max_retries"] \in Int
<1>1. /\ embed.full => Parses(file) /\ Parses(env)
      /\ G!Fits(file, "file") /\ G!Fits(env, "env")
      /\ \A k \in G!Key : cfg[k] = G!Highest(k)
  BY SMT DEF ConfigInv
<1>2. ASSUME NEW k \in {"snapshot_interval", "max_connections", "max_retries"}
      PROVE  cfg[k] \in Int
  <2>1. k \in G!Key /\ k \in G!Numbers /\ k \notin G!Names
    BY Zenon DEF G!Key, G!Texts, G!Names, G!Numbers
  <2>2. file[k] \in Int \cup {Absent, Bad} /\ env[k] \in Int \cup {Absent, Bad}
    BY <1>1, <2>1, Zenon DEF G!Fits
  <2>3. embed.full => file[k] # Bad /\ env[k] # Bad
    BY <1>1, <2>1, Zenon DEF Parses
  <2>4. G!Default[k] \in Int
    BY DEF G!Default
  <2>5. cfg[k] = G!Highest(k)
    BY <1>1, <2>1, Zenon
  <2>6. G!Asked(k) = Absent
    BY DEF G!Asked
  <2>7. G!Parsed(k) = env[k]
    BY <2>1, Zenon DEF G!Parsed
  <2> QED
    BY <2>2, <2>3, <2>4, <2>5, <2>6, <2>7, SMT DEF G!Highest
<1> QED
  BY <1>2, Zenon

\* An engine is built only from settings that come from the highest source that
\* has them and that the other parts can rely on, whatever the file, the
\* environment and the embedding program hold (Load, applyEnv, Validate, New,
\* SQLiteStorage, NoAuth, HeaderAuth).
THEOREM ConfigIsSound == G!Spec => []ConfigSound
<1>1. ConfigInv => ConfigSound
  <2> SUFFICES ASSUME ConfigInv, step = "ready" PROVE ConfigSound
    BY Zenon DEF ConfigSound, G!ConfigSound
  <2>1. G!Valid(cfg) /\ \A k \in G!Key : cfg[k] = G!Highest(k)
    BY SMT DEF ConfigInv
  <2>2. /\ cfg["cluster_mode"] => cfg["backend"] \in {"postgres", "mysql"} /\ cfg["redis_url"] # Blank
        /\ cfg[IF cfg["backend"] = "sqlite" THEN "data_dir" ELSE "url"] # Blank
        /\ cfg["auth_mode"] = "header" => cfg["header_name"] # Blank
        /\ cfg["auth_mode"] = "webhook" => cfg["webhook_url"] # Blank
    BY <2>1, Zenon DEF G!Valid
  <2>3. cfg["snapshot_interval"] > 0 /\ cfg["max_connections"] > 0 /\ cfg["max_retries"] >= 0
    <3>1. cfg["snapshot_interval"] >= 1 /\ cfg["max_connections"] >= 1 /\ cfg["max_retries"] >= 0
      BY <2>1, Zenon DEF G!Valid
    <3> QED
      BY <3>1, SettingTyped
  <2> QED
    BY <2>1, <2>2, <2>3, Zenon DEF ConfigSound, G!ConfigSound
<1> QED
  BY <1>1, ConfigInvariant, PTL
----------------------------------------------------------------------------
(* The schema.  The inductive invariant says how far each process is and   *)
(* that the recorded versions have no gap.                                 *)

\* Version v is applied in full.
Applied(v) == \A i \in DOMAIN Migrations[v] : Migrations[v][i] \in created

\* How far process n is: the versions before its own are applied, and those of its
\* own version's statements that it is past.
Reached(n) ==
    /\ phase[n] \in {"apply", "record"} =>
         /\ version[n] \in DOMAIN Migrations
         /\ stmt[n] \in DOMAIN Migrations[version[n]]
         /\ \A w \in 1..(version[n] - 1) : Applied(w)
         /\ \A i \in 1..(stmt[n] - 1) : Migrations[version[n]][i] \in created
         /\ opened # "sqlite" => 1..(version[n] - 1) \subseteq versions
    /\ phase[n] = "record" => Applied(version[n])

\* The recorded versions have no gap and are applied.
Recorded ==
    /\ \E top \in 0..Len(Migrations) : versions = 1..top
    /\ \A v \in versions : Applied(v)
    /\ opened = "sqlite" => versions = {}

MigrationInv ==
    /\ M!TypeOK
    /\ Recorded
    /\ \A n \in Node : Reached(n)
    /\ \A n \in Node : phase[n] = "ready" => created = M!AllTables

\* A table once created stays, so what is applied stays applied; this is all a step
\* needs to know of the processes that did not take it.
LEMMA Monotone ==
    ASSUME MigrationInv, created \subseteq created', created' \subseteq M!AllTables,
           versions \subseteq versions', opened' = opened,
           NEW n \in Node, UNCHANGED <<phase[n], version[n], stmt[n]>>
    PROVE  Reached(n)' /\ (phase[n]' = "ready" => created' = M!AllTables)
<1>1. Reached(n) /\ (phase[n] = "ready" => created = M!AllTables)
  BY Zenon DEF MigrationInv
<1>2. \A v : Applied(v) => Applied(v)'
  BY Zenon DEF Applied
<1> QED
  BY <1>1, <1>2, Zenon DEF Reached

\* Past the last version everything is applied.
LEMMA AllApplied ==
    ASSUME M!TypeOK, \A w \in 1..Len(Migrations) : Applied(w)
    PROVE  created = M!AllTables
<1>1. DOMAIN Migrations = 1..Len(Migrations)
  BY MigrationAssumed DEF M!MigrationAssumption
<1>2. M!AllTables \subseteq created
  BY <1>1 DEF M!AllTables, Applied
<1> QED
  BY <1>2, Zenon DEF M!TypeOK

\* A version has statements, numbered from 1.
LEMMA Statements ==
    /\ DOMAIN Migrations = 1..Len(Migrations) /\ Len(Migrations) \in Nat
    /\ \A v \in DOMAIN Migrations :
         /\ Len(Migrations[v]) \in Nat \ {0}
         /\ DOMAIN Migrations[v] = 1..Len(Migrations[v])
BY MigrationAssumed DEF M!MigrationAssumption

\* SELECT MAX(version) yields the number of recorded versions.
LEMMA MaxRecorded ==
    ASSUME NEW top \in Nat, versions = 1..top
    PROVE  M!Max(versions \cup {0}) = top
<1> DEFINE T == versions \cup {0}
<1>1. top \in T /\ \A y \in T : top >= y
  OBVIOUS
<1>2. \A x \in T : (\A y \in T : x >= y) => x = top
  OBVIOUS
<1> QED
  BY <1>1, <1>2, Zenon DEF M!Max

\* A process that enters version v, or is done, has reached it.
LEMMA EnterStep ==
    ASSUME M!TypeOK, M!TypeOK', NEW n \in Node, NEW v \in 1..(Len(Migrations) + 1),
           M!Enter(n, v), \A w \in 1..(v - 1) : Applied(w)',
           opened' # "sqlite" => 1..(v - 1) \subseteq versions'
    PROVE  Reached(n)' /\ (phase'[n] = "ready" => created' = M!AllTables)
<1>1. CASE v <= Len(Migrations)
  <2>1. phase'[n] = "apply" /\ version'[n] = v /\ stmt'[n] = 1
    BY <1>1, Zenon DEF M!Enter, M!TypeOK
  <2> QED
    BY <1>1, <2>1, Statements DEF Reached
<1>2. CASE v = Len(Migrations) + 1
  <2>1. phase'[n] = "ready"
    BY <1>2, Statements DEF M!Enter, M!TypeOK
  <2>2. \A w \in 1..Len(Migrations) : Applied(w)'
    BY <1>2, Statements
  <2>3. M!AllTables \subseteq created'
    BY <2>2, Statements DEF M!AllTables, Applied
  <2>4. created' \subseteq M!AllTables
    BY Zenon DEF M!TypeOK, M!AllTables
  <2> QED
    BY <2>1, <2>3, <2>4, Zenon DEF Reached
<1> QED
  BY <1>1, <1>2, Statements

\* A step of process n is all its own: it moves n, adds tables and versions, and the
\* others stay where they are.
Moves(n) ==
    /\ created \subseteq created' /\ versions \subseteq versions' /\ opened' = opened
    /\ \A b \in Node \ {n} : UNCHANGED <<phase[b], version[b], stmt[b]>>

\* So the invariant is kept when n's part of it is.
LEMMA MoveStep ==
    ASSUME MigrationInv, NEW n \in Node, Moves(n), M!TypeOK', Recorded',
           Reached(n)', phase'[n] = "ready" => created' = M!AllTables
    PROVE  MigrationInv'
<1>1. created' \subseteq M!AllTables
  BY Zenon DEF M!TypeOK, M!AllTables
<1>2. ASSUME NEW b \in Node, b # n
      PROVE  Reached(b)' /\ (phase'[b] = "ready" => created' = M!AllTables)
  BY <1>1, <1>2, Monotone, Zenon DEF Moves
<1>3. ASSUME NEW b \in Node
      PROVE  Reached(b)' /\ (phase'[b] = "ready" => created' = M!AllTables)
  BY <1>2, Zenon
<1> QED
  BY <1>3, Zenon DEF MigrationInv, M!AllTables

\* Start, a failed start and a crash forget where the process was.
LEMMA DownStep ==
    ASSUME MigrationInv, NEW n \in Node,
           \/ M!Start(n) \/ M!Crash(n)
           \/ M!Exit(n) /\ UNCHANGED <<opened, created, versions, crashes>>
    PROVE  MigrationInv'
<1>1. M!TypeOK' /\ Moves(n) /\ phase'[n] \in {"down", "read"}
  <2> USE Statements, MigrationAssumed
          DEF M!MigrationAssumption, MigrationInv, M!TypeOK, M!Exit, Moves
  <2>1. CASE M!Start(n)
    BY <2>1, Zenon DEF M!Start
  <2>2. CASE M!Crash(n)
    BY <2>2 DEF M!Crash
  <2>3. CASE M!Exit(n) /\ UNCHANGED <<opened, created, versions, crashes>>
    BY <2>3
  <2> QED
    BY <2>1, <2>2, <2>3, Zenon
<1>2. Recorded'
  BY Zenon DEF MigrationInv, Recorded, Applied, M!Start, M!Crash
<1>3. Reached(n)'
  BY <1>1, Zenon DEF Reached
<1> QED
  BY <1>1, <1>2, <1>3, MoveStep, Zenon

\* The loop starts after what is recorded.
LEMMA ReadStep == \A n \in Node : MigrationInv /\ M!ReadVersion(n) => MigrationInv'
<1> SUFFICES ASSUME NEW n \in Node, MigrationInv, M!ReadVersion(n) PROVE MigrationInv'
  BY Zenon
<1>1. PICK top \in 0..Len(Migrations) : versions = 1..top
  BY Zenon DEF MigrationInv, Recorded
<1> DEFINE v == IF opened = "sqlite" THEN 1 ELSE top + 1
<1>2. v \in 1..(Len(Migrations) + 1) /\ M!Enter(n, v)
  <2>1. M!Max(versions \cup {0}) = top
    <3>1. top \in Nat
      BY Statements
    <3> QED
      BY <1>1, <3>1, MaxRecorded, Zenon
  <2>2. CASE opened = "sqlite"
    BY <2>2, Statements DEF M!ReadVersion
  <2>3. CASE opened # "sqlite"
    BY <2>1, <2>3, Statements DEF M!ReadVersion
  <2> QED
    BY <2>2, <2>3, Zenon
<1>3. UNCHANGED <<opened, created, versions, crashes>>
  BY Zenon DEF M!ReadVersion
<1>4. \A w \in 1..(v - 1) : Applied(w)
  BY <1>1, Statements DEF MigrationInv, Recorded
<1>5. opened # "sqlite" => 1..(v - 1) \subseteq versions
  BY <1>1
<1> HIDE DEF v
<1>6. M!TypeOK' /\ Moves(n)
  BY <1>2, <1>3, Statements DEF MigrationInv, M!TypeOK, M!Enter, Moves
<1>7. Recorded' /\ \A w \in 1..(v - 1) : Applied(w)'
  BY <1>3, <1>4, Zenon DEF MigrationInv, Recorded, Applied
<1>8. Reached(n)' /\ (phase'[n] = "ready" => created' = M!AllTables)
  BY <1>2, <1>3, <1>5, <1>6, <1>7, EnterStep, Zenon DEF MigrationInv
<1> QED
  BY <1>6, <1>7, <1>8, MoveStep, Zenon

\* A statement adds its table; the last one of a version completes it.
LEMMA CreateStep == \A n \in Node : MigrationInv /\ M!CreateTable(n) => MigrationInv'
<1> SUFFICES ASSUME NEW n \in Node, MigrationInv, M!CreateTable(n) PROVE MigrationInv'
  BY Zenon
<1>0. PICK v, i : v = version[n] /\ i = stmt[n]
  BY Zenon
<1>1. /\ v \in DOMAIN Migrations /\ i \in DOMAIN Migrations[v] /\ phase[n] = "apply"
      /\ \A w \in 1..(v - 1) : Applied(w)
      /\ \A j \in 1..(i - 1) : Migrations[v][j] \in created
      /\ opened # "sqlite" => 1..(v - 1) \subseteq versions
  BY <1>0, Zenon DEF M!CreateTable, MigrationInv, Reached
<1>2. created' = created \cup {Migrations[v][i]} /\ UNCHANGED <<opened, versions, crashes>>
  BY <1>0, Zenon DEF M!CreateTable
<1>3. created' \subseteq M!AllTables
  BY <1>1, <1>2 DEF MigrationInv, M!TypeOK, M!AllTables
<1>4. \A j \in 1..i : Migrations[v][j] \in created'
  BY <1>1, <1>2, Statements
<1>5. \A w : Applied(w) => Applied(w)'
  BY <1>2, Zenon DEF Applied
<1>6. Recorded'
  BY <1>2, <1>5, Zenon DEF MigrationInv, Recorded
<1>7. CASE i < Len(Migrations[v])
  <2>1. stmt' = [stmt EXCEPT ![n] = i + 1] /\ UNCHANGED <<phase, version>>
    BY <1>0, <1>7, Zenon DEF M!CreateTable
  <2>2. M!TypeOK' /\ Moves(n)
    BY <1>0, <1>1, <1>2, <1>3, <2>1, Statements DEF MigrationInv, M!TypeOK, Moves, M!AllTables
  <2>3. stmt'[n] = i + 1 /\ version'[n] = v /\ phase'[n] = "apply"
    BY <1>0, <1>1, <2>1, Zenon DEF MigrationInv, M!TypeOK
  <2>4. Reached(n)'
    <3>1. i + 1 \in DOMAIN Migrations[v] /\ (i + 1) - 1 = i
      BY <1>1, <1>7, Statements
    <3>2. \A w \in 1..(v - 1) : Applied(w)'
      BY <1>1, <1>5, Zenon
    <3>3. "apply" # "record"
      OBVIOUS
    <3> QED
      BY <1>1, <1>2, <1>4, <2>3, <3>1, <3>2, <3>3, Zenon DEF Reached
  <2> QED
    BY <1>6, <2>2, <2>3, <2>4, MoveStep, Zenon
<1>8. CASE i >= Len(Migrations[v])
  <2>1. Applied(v)'
    <3>1. DOMAIN Migrations[v] = 1..i
      BY <1>1, <1>8, Statements
    <3> QED
      BY <1>4, <3>1, Zenon DEF Applied
  <2>2. CASE opened = "sqlite"
    <3>1. M!Enter(n, v + 1) /\ v + 1 \in 1..(Len(Migrations) + 1)
      BY <1>0, <1>1, <1>8, <2>2, Statements DEF M!CreateTable
    <3>2. M!TypeOK' /\ Moves(n)
      BY <1>2, <1>3, <3>1, Statements DEF MigrationInv, M!TypeOK, M!Enter, Moves, M!AllTables
    <3>3. \A w \in 1..((v + 1) - 1) : Applied(w)'
      <4>1. \A w \in 1..((v + 1) - 1) : w \in 1..(v - 1) \/ w = v
        BY <1>1, Statements
      <4> QED
        BY <1>1, <1>5, <2>1, <4>1, Zenon
    <3>4. Reached(n)' /\ (phase'[n] = "ready" => created' = M!AllTables)
      BY <1>2, <2>2, <3>1, <3>2, <3>3, EnterStep, Zenon DEF MigrationInv
    <3> QED
      BY <1>6, <3>2, <3>4, MoveStep, Zenon
  <2>3. CASE opened # "sqlite"
    <3>1. phase' = [phase EXCEPT ![n] = "record"] /\ UNCHANGED <<version, stmt>>
      BY <1>0, <1>1, <1>8, <2>3, Statements DEF M!CreateTable
    <3>2. M!TypeOK' /\ Moves(n)
      BY <1>2, <1>3, <3>1, Zenon DEF MigrationInv, M!TypeOK, Moves, M!AllTables
    <3>3. phase'[n] = "record" /\ version'[n] = v /\ stmt'[n] = i
      BY <1>0, <3>1, Zenon DEF MigrationInv, M!TypeOK
    <3>4. Reached(n)'
      BY <1>1, <1>2, <1>4, <1>5, <2>1, <3>3, Statements, Zenon DEF Reached
    <3> QED
      BY <1>6, <3>2, <3>3, <3>4, MoveStep, Zenon
  <2> QED
    BY <2>2, <2>3, Zenon
<1> QED
  BY <1>1, <1>7, <1>8, Statements

\* A process that applied its version records it and goes on: the version is the
\* next one, so that the recorded ones stay without a gap.
LEMMA RecordStep ==
    ASSUME MigrationInv, NEW n \in Node, opened # "sqlite",
           NEW v, v = version[n], phase[n] \in {"apply", "record"},
           v \notin versions, versions' = versions \cup {v},
           created \subseteq created', created' \subseteq M!AllTables, Applied(v)',
           M!Enter(n, v + 1), UNCHANGED <<opened, crashes>>
    PROVE  MigrationInv'
<1>1. /\ v \in DOMAIN Migrations
      /\ \A w \in 1..(v - 1) : Applied(w)
      /\ 1..(v - 1) \subseteq versions
  BY Zenon DEF MigrationInv, Reached
<1>2. \A w : Applied(w) => Applied(w)'
  BY Zenon DEF Applied
<1>3. PICK top \in 0..Len(Migrations) : versions = 1..top
  BY Zenon DEF MigrationInv, Recorded
<1>4. v = top + 1 /\ versions' = 1..(top + 1) /\ top + 1 \in 0..Len(Migrations)
  <2>1. v \in Nat \ {0} /\ v <= Len(Migrations) /\ top \in Nat
    BY <1>1, Statements
  <2>2. v = top + 1
    <3>1. v > top
      BY <1>3, <2>1
    <3>2. top + 1 \in 1..(v - 1) => top + 1 \in 1..top
      BY <1>1, <1>3, Zenon
    <3> QED
      BY <2>1, <3>1, <3>2
  <2> QED
    BY <1>3, <2>1, <2>2
<1>5. Recorded'
  BY <1>2, <1>4, Zenon DEF MigrationInv, Recorded
<1>6. M!TypeOK' /\ Moves(n)
  BY <1>1, Statements DEF MigrationInv, M!TypeOK, M!Enter, Moves, M!AllTables
<1>7. \A w \in 1..((v + 1) - 1) : Applied(w)'
  <2>1. \A w \in 1..((v + 1) - 1) : w \in 1..(v - 1) \/ w = v
    BY <1>1, Statements
  <2> QED
    BY <1>1, <1>2, <2>1, Zenon
<1>8. 1..((v + 1) - 1) \subseteq versions' /\ v + 1 \in 1..(Len(Migrations) + 1)
  BY <1>1, <1>4, Statements
<1>9. Reached(n)' /\ (phase'[n] = "ready" => created' = M!AllTables)
  BY <1>6, <1>7, <1>8, EnterStep, Zenon DEF MigrationInv
<1> QED
  BY <1>5, <1>6, <1>9, MoveStep, Zenon

\* Every step keeps the invariant.
LEMMA MigrationStep == MigrationInv /\ [M!Next]_(M!vars) => MigrationInv'
<1> SUFFICES ASSUME MigrationInv, [M!Next]_(M!vars) PROVE MigrationInv'
  BY Zenon
<1>1. CASE UNCHANGED M!vars
  BY <1>1, Zenon DEF M!vars, MigrationInv, M!TypeOK, Recorded, Applied, Reached, M!AllTables
<1>2. ASSUME NEW n \in Node, M!MysqlMigrate(n) PROVE MigrationInv'
  <2>1. CASE phase[n] = "record" /\ version[n] \notin versions
    <3>1. Applied(version[n]) /\ created' = created /\ ~M!CreateTable(n)
      BY <1>2, <2>1, Zenon DEF M!MysqlMigrate, M!CreateTable, MigrationInv, Reached
    <3>2. PICK v : v = version[n]
      BY Zenon
    <3>3. Applied(v)' /\ created' \subseteq M!AllTables
      BY <3>1, <3>2, Zenon DEF Applied, MigrationInv, M!TypeOK
    <3> QED
      BY <1>2, <2>1, <3>1, <3>2, <3>3, RecordStep, Zenon DEF M!MysqlMigrate
  <2> QED
    BY <1>2, <2>1, CreateStep, DownStep, Zenon DEF M!MysqlMigrate
<1>3. ASSUME NEW n \in Node, M!PostgresMigrate(n) PROVE MigrationInv'
  <2>1. CASE version[n] \notin versions
    <3>1. PICK v : v = version[n]
      BY Zenon
    <3>2. v \in DOMAIN Migrations
      BY <1>3, <3>1, Zenon DEF M!PostgresMigrate, MigrationInv, Reached
    <3>3. created' = created \cup {Migrations[v][i] : i \in DOMAIN Migrations[v]}
      BY <1>3, <2>1, <3>1, Zenon DEF M!PostgresMigrate
    <3>4. Applied(v)' /\ created' \subseteq M!AllTables
      BY <3>2, <3>3 DEF Applied, MigrationInv, M!TypeOK, M!AllTables
    <3> QED
      BY <1>3, <2>1, <3>1, <3>3, <3>4, RecordStep, Zenon DEF M!PostgresMigrate
  <2> QED
    BY <1>3, <2>1, DownStep, Zenon DEF M!PostgresMigrate
<1> QED
  BY <1>1, <1>2, <1>3, DownStep, ReadStep, CreateStep, Zenon DEF M!Next, M!Step, M!SqliteMigrate

\* The invariant of schema migration.
LEMMA MigrationInvariant == M!Spec => []MigrationInv
<1>1. M!Init => MigrationInv
  BY MigrationAssumed, Statements DEF M!MigrationAssumption, M!Init, MigrationInv, M!TypeOK,
     Recorded, Reached
<1> QED
  BY <1>1, MigrationStep, PTL DEF M!Spec

\* A recorded version is applied in full and a store that opened has all its tables,
\* for any number of processes, backends, versions and crashes (migrate).
THEOREM MigrationCorrect == M!Spec => []RecordedIsApplied
<1>2. MigrationInv => RecordedIsApplied
  <2> SUFFICES ASSUME MigrationInv PROVE RecordedIsApplied
    BY Zenon
  <2>1. \A v \in versions : 1..v \subseteq versions
    BY Statements DEF MigrationInv, Recorded
  <2> QED
    BY <2>1, Zenon DEF MigrationInv, Recorded, Applied, RecordedIsApplied, M!RecordedIsApplied
<1> QED
  BY <1>2, MigrationInvariant, PTL
=============================================================================
