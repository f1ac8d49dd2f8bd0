---------------------------- MODULE PagingProofs ----------------------------
(***************************************************************************)
(* That reading page by page misses nothing, for any number of documents   *)
(* and writes and every limit.  The inductive invariant ties the offset of *)
(* a walk through the list to the number of rows before each document it   *)
(* has yet to see, and the cursor of a walk through a history to the log.  *)
(***************************************************************************)
EXTENDS Integers, Sequences, BackgroundPaging, FiniteSetTheorems, TLAPS

\* The operators of the library, as Paging sees them.
LEMMA SameCardinality == \A S : P!Cardinality(S) = Cardinality(S)
BY Zenon DEF P!Cardinality, Cardinality

LEMMA SameFinite == \A S : P!IsFiniteSet(S) <=> IsFiniteSet(S)
BY Zenon DEF P!IsFiniteSet, IsFiniteSet

LEMMA SameBijection == \A S, T : P!Bijection(S, T) = Bijection(S, T)
BY Zenon DEF P!Bijection, Bijection, P!Injection, Injection, P!Surjection, Surjection, P!IsInjective, IsInjective

\* The clock is no further than the writes moved it, and no row is newer.
PagingBase ==
    /\ P!TypeOK
    /\ clock <= writes /\ latest <= writes
    /\ \A d \in PageDoc : rows[d] # NoRow => rows[d] <= clock

\* As long as its document is not deleted, a walk through the history has a prefix
\* of the log, and between the two reads of a request the log only grows.
HistoryInv ==
    history.calm =>
        /\ \A i \in DOMAIN history.got : history.got[i] = i
        /\ history.at = "ops" => rows[P!Tracked] # NoRow /\ history.floor <= latest
        /\ history.at = "done" => Len(history.got) >= history.floor

\* The rows of the list that come before one.
Ahead(d) == {e \in P!Matching(list.since) : rows[e] > rows[d]}

\* As long as nothing is deleted, no page had ties and no row was set back on a
\* server, a document a walk through the list has yet to see has at least as many
\* rows before it as the offset skips.
ListInv ==
    /\ list.at = "idle" => list.offset = 0 /\ list.seen = {}
    /\ list.calm /\ list.at = "page" =>
         /\ list.still \subseteq P!Matching(list.since)
         /\ \A d \in list.still \ list.seen : list.offset <= Cardinality(Ahead(d))
    /\ list.calm /\ list.at = "done" => list.still \subseteq list.seen

PagingInv == PagingBase /\ HistoryInv /\ ListInv

\* The invariant holds at the start.
LEMMA PagingInit == P!PagingAssumption /\ P!Init => PagingInv
<1> SUFFICES ASSUME P!PagingAssumption, P!Init PROVE PagingInv
  BY Zenon
<1>1. /\ pageBackend \in {"sqlite", "server"} /\ clock = 0 /\ latest = 0 /\ writes = 0
      /\ rows = [d \in PageDoc |-> NoRow]
      /\ list = [at |-> "idle", limit |-> 0, since |-> CHOOSE t \in Sinces : TRUE, offset |-> 0,
                 seen |-> {}, still |-> {}, calm |-> TRUE]
      /\ history = [at |-> "idle", limit |-> 0, got |-> <<>>, floor |-> 0, calm |-> TRUE]
  BY Zenon DEF P!Init
<1>2. MaxWrites \in Nat /\ Sinces # {}
  BY Zenon DEF P!PagingAssumption
<1>3. (CHOOSE t \in Sinces : TRUE) \in Sinces
  BY <1>2, Zenon
<1>4. list \in P!ListWalk
  BY <1>1, <1>3 DEF P!ListWalk
<1>5. history \in P!HistoryWalk
  BY <1>1 DEF P!HistoryWalk
<1>6. P!TypeOK
  <2>1. 0 \in 0..MaxWrites
    BY <1>2
  <2> QED
    BY <1>1, <1>4, <1>5, <2>1, Zenon DEF P!TypeOK
<1>7. PagingBase
  BY <1>1, <1>6 DEF PagingBase
<1>8. HistoryInv
  BY <1>1 DEF HistoryInv
<1>9. ListInv
  BY <1>1, Zenon DEF ListInv
<1> QED
  BY <1>7, <1>8, <1>9, Zenon DEF PagingInv

\* What a write does to the clock and the rows.
LEMMA WriteBase ==
    ASSUME P!PagingAssumption, PagingBase, NEW d \in PageDoc, NEW v, NEW seq \in 0..(latest + 1),
           writes < MaxWrites, writes' = writes + 1, clock' \in {clock, clock + 1},
           rows' = [rows EXCEPT ![d] = v], v \in 0..clock' \/ v = NoRow,
           pageBackend' = pageBackend,
           latest' = seq \/ latest' = latest,
           list' \in P!ListWalk, history' \in P!HistoryWalk
    PROVE  PagingBase'
<1>1. /\ MaxWrites \in Nat /\ NoRow \notin Int
      /\ clock \in Nat /\ writes \in Nat /\ latest \in Nat
      /\ rows \in [PageDoc -> 0..MaxWrites \cup {NoRow}]
      /\ clock <= writes /\ latest <= writes
      /\ \A e \in PageDoc : rows[e] # NoRow => rows[e] <= clock
  BY DEF P!PagingAssumption, PagingBase, P!TypeOK
<1>2. /\ clock' \in 0..MaxWrites /\ writes' \in 0..MaxWrites /\ latest' \in 0..MaxWrites
      /\ clock' <= writes' /\ latest' <= writes' /\ clock <= clock'
  BY <1>1
<1>3. v \in 0..MaxWrites \cup {NoRow}
  BY <1>1, <1>2
<1>4. rows' \in [PageDoc -> 0..MaxWrites \cup {NoRow}]
  BY <1>1, <1>3, Zenon
<1>5. ASSUME NEW e \in PageDoc, rows'[e] # NoRow PROVE rows'[e] <= clock'
  <2>1. CASE e = d
    BY <1>1, <1>2, <1>5, <2>1
  <2>2. CASE e # d
    <3>1. rows'[e] = rows[e] /\ rows[e] \in 0..MaxWrites
      BY <1>1, <1>5, <2>2, Zenon
    <3> QED
      BY <1>1, <1>2, <1>5, <3>1
  <2> QED
    BY <2>1, <2>2, Zenon
<1>6. P!TypeOK'
  BY <1>2, <1>4, Zenon DEF PagingBase, P!TypeOK
<1> QED
  BY <1>2, <1>5, <1>6, Zenon DEF PagingBase

\* A write that gives a document no older time than it had leaves every other
\* document at least as many rows before it as it had.
LEMMA AheadGrows ==
    ASSUME P!PagingAssumption, PagingBase, NEW d \in PageDoc, NEW e \in P!Matching(list.since), e # d,
           NEW v \in Nat, rows' = [rows EXCEPT ![d] = v], rows[d] = NoRow \/ rows[d] <= v,
           list'.since = list.since
    PROVE  /\ e \in P!Matching(list.since)'
           /\ Cardinality(Ahead(e)) \in Nat /\ Cardinality(Ahead(e)') \in Nat
           /\ Cardinality(Ahead(e)) <= Cardinality(Ahead(e)')
<1> DEFINE t == list.since
<1>1. /\ MaxWrites \in Nat /\ NoRow \notin Int /\ IsFiniteSet(PageDoc)
      /\ t \in Nat
      /\ rows \in [PageDoc -> 0..MaxWrites \cup {NoRow}]
  <2>1. /\ MaxWrites \in Nat /\ NoRow \notin Int /\ IsFiniteSet(PageDoc) /\ Sinces \subseteq Nat
        /\ list \in P!ListWalk
        /\ rows \in [PageDoc -> 0..MaxWrites \cup {NoRow}]
    BY SameFinite, Zenon DEF P!PagingAssumption, PagingBase, P!TypeOK
  <2>2. t \in Sinces
    BY <2>1 DEF P!ListWalk
  <2> QED
    BY <2>1, <2>2, Zenon
<1>2. /\ \A f \in PageDoc : f # d => rows'[f] = rows[f]
      /\ rows'[d] = v /\ v # NoRow
  BY <1>1
<1>3. ASSUME NEW f \in P!Matching(t)
      PROVE  /\ f \in PageDoc /\ rows[f] \in Nat /\ rows[f] >= t
             /\ f \in P!Matching(t)' /\ rows'[f] \in Nat /\ rows'[f] >= rows[f]
  <2>1. f \in PageDoc /\ rows[f] # NoRow /\ rows[f] >= t
    BY Zenon DEF P!Matching
  <2>2. rows[f] \in Nat
    BY <1>1, <2>1
  <2>3. rows'[f] \in Nat /\ rows'[f] >= rows[f] /\ rows'[f] # NoRow
    BY <1>1, <1>2, <2>1, <2>2
  <2>4. rows'[f] >= t
    BY <1>1, <2>1, <2>2, <2>3
  <2> QED
    BY <2>1, <2>2, <2>3, <2>4, Zenon DEF P!Matching
<1>4. rows'[e] = rows[e] /\ rows[e] \in Nat
  BY <1>2, <1>3, Zenon
<1>5. ASSUME NEW f \in Ahead(e) PROVE f \in Ahead(e)'
  <2>1. f \in P!Matching(t) /\ rows[f] > rows[e]
    BY Zenon DEF Ahead
  <2>2. f \in P!Matching(t)' /\ rows'[f] > rows'[e]
    BY <1>3, <1>4, <2>1
  <2> QED
    BY <2>2, Zenon DEF Ahead
<1>6. Ahead(e)' \subseteq PageDoc
  BY Zenon DEF Ahead, P!Matching
<1>7. IsFiniteSet(Ahead(e)')
  BY <1>1, <1>6, FS_Subset, Zenon
<1>8. Ahead(e) \in SUBSET Ahead(e)'
  BY <1>5, Zenon
<1>9. IsFiniteSet(Ahead(e)) /\ Cardinality(Ahead(e)) <= Cardinality(Ahead(e)')
  BY <1>7, <1>8, FS_Subset, Zenon
<1> QED
  BY <1>3, <1>7, <1>9, FS_CardinalityType, Zenon

\* So such a write leaves the walk through the list as it was.
LEMMA ListWritten ==
    ASSUME P!PagingAssumption, PagingInv, NEW d \in PageDoc,
           NEW v \in Nat, rows' = [rows EXCEPT ![d] = v],
           list'.at = list.at, list'.since = list.since, list'.offset = list.offset,
           list'.seen = list.seen, list'.calm => list.calm,
           list'.calm /\ list.at = "page" => rows[d] = NoRow \/ rows[d] <= v,
           list'.still \subseteq list.still,
           d \notin list'.still \/ rows[d] = NoRow,
           list.at # "done"
    PROVE  ListInv'
<1>1. list.at = "idle" => list.offset = 0 /\ list.seen = {}
  BY Zenon DEF PagingInv, ListInv
<1>2. ASSUME list'.calm, list.at = "page"
      PROVE  /\ list'.still \subseteq P!Matching(list.since)'
             /\ \A e \in list'.still \ list.seen : list.offset <= Cardinality(Ahead(e)')
  <2>1. /\ list.still \subseteq P!Matching(list.since)
        /\ \A e \in list.still \ list.seen : list.offset <= Cardinality(Ahead(e))
    BY <1>2, Zenon DEF PagingInv, ListInv
  <2>2. list.offset \in Nat
    BY Zenon DEF PagingInv, PagingBase, P!TypeOK, P!ListWalk
  <2>3. ASSUME NEW e \in list'.still
        PROVE  /\ e \in P!Matching(list.since)'
               /\ e \notin list.seen => list.offset <= Cardinality(Ahead(e)')
    <3>1. e \in list.still /\ e \in P!Matching(list.since) /\ e # d
      BY <2>1, Zenon DEF P!Matching
    <3>2. /\ e \in P!Matching(list.since)'
          /\ Cardinality(Ahead(e)) \in Nat /\ Cardinality(Ahead(e)') \in Nat
          /\ Cardinality(Ahead(e)) <= Cardinality(Ahead(e)')
      BY <1>2, <3>1, AheadGrows, Zenon DEF PagingInv
    <3>3. e \notin list.seen => list.offset <= Cardinality(Ahead(e))
      BY <2>1, <3>1, Zenon
    <3> QED
      BY <2>2, <3>2, <3>3
  <2> QED
    BY <2>3, Zenon
<1> QED
  BY <1>1, <1>2, SMT DEF ListInv

\* Creating a document keeps the invariant.
LEMMA PagingCreate ==
    ASSUME P!PagingAssumption, PagingInv, NEW d \in PageDoc, P!CreateDocument(d)
    PROVE  PagingInv'
<1>1. /\ rows[d] = NoRow /\ list' = list /\ history' = history
      /\ writes < MaxWrites /\ writes' = writes + 1
      /\ "done" \notin {list.at, history.at}
      /\ clock' \in {clock, clock + 1} /\ pageBackend' = pageBackend
      /\ latest' = IF d = P!Tracked THEN 0 ELSE latest
  BY Zenon DEF P!CreateDocument, P!Write
<1>v. PICK v \in 0..clock' : rows' = [rows EXCEPT ![d] = v]
  BY Zenon DEF P!CreateDocument, P!Earlier
<1>2. PagingBase /\ list' \in P!ListWalk /\ history' \in P!HistoryWalk /\ 0 \in 0..(latest + 1)
  <2>1. PagingBase /\ list \in P!ListWalk /\ history \in P!HistoryWalk /\ latest \in 0..MaxWrites
    BY Zenon DEF PagingInv, PagingBase, P!TypeOK
  <2> QED
    BY <1>1, <2>1
<1>3. list.at # "done" /\ history.at # "done" /\ (latest' = 0 \/ latest' = latest)
  BY <1>1, Zenon
<1>4. PagingBase'
  BY <1>1, <1>v, <1>2, <1>3, WriteBase, Zenon
<1>5. ListInv'
  <2>1. v \in Nat
    BY <1>v
  <2> QED
    BY <1>1, <1>v, <1>3, <2>1, ListWritten, Zenon
<1>6. HistoryInv'
  <2> SUFFICES ASSUME history.calm PROVE
           /\ \A i \in DOMAIN history.got : history.got[i] = i
           /\ history.at = "ops" => rows'[P!Tracked] # NoRow /\ history.floor <= latest'
    BY <1>1, <1>3, SMT DEF HistoryInv
  <2>1. /\ \A i \in DOMAIN history.got : history.got[i] = i
        /\ history.at = "ops" => rows[P!Tracked] # NoRow /\ history.floor <= latest
    BY Zenon DEF PagingInv, HistoryInv
  <2>2. ASSUME history.at = "ops" PROVE P!Tracked # d /\ rows'[P!Tracked] = rows[P!Tracked] /\ latest' = latest
    <3>1. P!Tracked # d /\ rows \in [PageDoc -> 0..MaxWrites \cup {NoRow}] /\ P!Tracked \in PageDoc
      <4>1. P!Tracked # d
        BY <1>1, <2>1, <2>2, Zenon
      <4>2. rows \in [PageDoc -> 0..MaxWrites \cup {NoRow}]
        BY Zenon DEF PagingInv, PagingBase, P!TypeOK
      <4>3. P!Tracked \in PageDoc
        BY Zenon DEF P!PagingAssumption, P!Tracked
      <4> QED
        BY <4>1, <4>2, <4>3, Zenon
    <3> QED
      BY <1>1, <1>v, <3>1, Zenon
  <2> QED
    BY <2>1, <2>2, Zenon
<1> QED
  BY <1>4, <1>5, <1>6, Zenon DEF PagingInv

\* What a write to a document leaves of its walk.
LEMMA Unlisted ==
    ASSUME PagingBase, NEW d, NEW c \in BOOLEAN,
           \/ list' = [list EXCEPT !.still = @ \ {d}] /\ c = list.calm
           \/ list' = [list EXCEPT !.still = @ \ {d}, !.calm = c]
    PROVE  /\ list' \in P!ListWalk
           /\ list'.at = list.at /\ list'.since = list.since /\ list'.offset = list.offset
           /\ list'.seen = list.seen /\ list'.calm = c /\ list'.still = list.still \ {d}
<1>1. list \in P!ListWalk
  BY Zenon DEF PagingBase, P!TypeOK
<1> QED
  BY <1>1, Zenon DEF P!ListWalk

\* Appending an operation keeps the invariant.
LEMMA PagingAppend ==
    ASSUME P!PagingAssumption, PagingInv, NEW d \in PageDoc, P!AppendOp(d)
    PROVE  PagingInv'
<1>1. /\ history' = history
      /\ writes < MaxWrites /\ writes' = writes + 1
      /\ "done" \notin {list.at, history.at}
      /\ clock' \in {clock, clock + 1} /\ pageBackend' = pageBackend
      /\ latest' = IF d = P!Tracked THEN latest + 1 ELSE latest
  BY Zenon DEF P!AppendOp, P!Write
<1>v. PICK v \in (IF pageBackend = "sqlite" THEN {clock'} ELSE 0..clock') :
        /\ rows' = [rows EXCEPT ![d] = v]
        /\ list' = [list EXCEPT
             !.still = @ \ {d},
             !.calm = @ /\ \/ list.at # "page" \/ pageBackend = "sqlite"
                           \/ rows[d] = NoRow \/ rows[d] <= v]
  BY Zenon DEF P!AppendOp, P!Earlier
<1> DEFINE still == list.at # "page" \/ pageBackend = "sqlite" \/ rows[d] = NoRow \/ rows[d] <= v
<1>2. /\ PagingBase /\ history \in P!HistoryWalk /\ latest \in 0..MaxWrites /\ list.calm \in BOOLEAN
      /\ clock \in Nat /\ NoRow \notin Int /\ rows \in [PageDoc -> 0..MaxWrites \cup {NoRow}]
  BY DEF PagingInv, PagingBase, P!TypeOK, P!ListWalk, P!PagingAssumption
<1>3. /\ list' \in P!ListWalk
      /\ list'.at = list.at /\ list'.since = list.since /\ list'.offset = list.offset
      /\ list'.seen = list.seen /\ list'.calm = (list.calm /\ still) /\ list'.still = list.still \ {d}
  BY <1>v, <1>2, Unlisted, Zenon
<1>4. list.at # "done" /\ history.at # "done" /\ (latest' = latest + 1 \/ latest' = latest)
  BY <1>1, Zenon
<1>5. latest + 1 \in 0..(latest + 1) /\ latest <= latest' /\ latest \in Nat /\ latest' \in Nat
  BY <1>2, <1>4
<1>w. v \in 0..clock' /\ v \in Nat /\ v # NoRow
  BY <1>1, <1>v, <1>2
<1>6. PagingBase'
  BY <1>1, <1>v, <1>w, <1>2, <1>3, <1>4, <1>5, WriteBase, Zenon
<1>7. ListInv'
  <2>1. ASSUME list'.calm, list.at = "page" PROVE rows[d] = NoRow \/ rows[d] <= v
    <3>1. CASE pageBackend = "sqlite" /\ rows[d] # NoRow
      <4>1. rows[d] \in 0..MaxWrites /\ rows[d] <= clock
        BY <1>2, <3>1, Zenon DEF PagingBase
      <4>2. v = clock'
        BY <1>v, <3>1, Zenon
      <4> QED
        BY <1>1, <1>2, <4>1, <4>2
    <3> QED
      BY <1>3, <2>1, <3>1, Zenon
  <2>2. list'.calm => list.calm
    BY <1>3, Zenon
  <2> QED
    BY <1>v, <1>w, <1>3, <1>4, <2>1, <2>2, ListWritten, Zenon
<1>8. HistoryInv'
  <2> SUFFICES ASSUME history.calm, history.at = "ops"
               PROVE  rows'[P!Tracked] # NoRow /\ history.floor <= latest'
    BY <1>1, <1>4, SMT DEF HistoryInv, PagingInv
  <2>1. rows[P!Tracked] # NoRow /\ history.floor <= latest
    BY Zenon DEF PagingInv, HistoryInv
  <2>2. history.floor \in Nat
    BY <1>2, Zenon DEF P!HistoryWalk
  <2>3. history.floor <= latest'
    BY <1>5, <2>1, <2>2
  <2>4. rows'[P!Tracked] # NoRow
    <3>1. P!Tracked \in PageDoc
      BY Zenon DEF P!PagingAssumption, P!Tracked
    <3> QED
      BY <1>v, <1>w, <1>2, <2>1, <3>1, Zenon
  <2> QED
    BY <2>3, <2>4, Zenon
<1> QED
  BY <1>6, <1>7, <1>8, Zenon DEF PagingInv

\* Deleting a document keeps the invariant, for the walks it disturbs are no
\* longer calm.
LEMMA PagingDelete ==
    ASSUME P!PagingAssumption, PagingInv, NEW d \in PageDoc, P!DeleteDocument(d)
    PROVE  PagingInv'
<1>1. /\ list' = [list EXCEPT !.still = @ \ {d}, !.calm = list.calm /\ list.at # "page"]
      /\ history' = [history EXCEPT !.calm = history.calm /\ (history.at = "idle" \/ d # P!Tracked)]
      /\ writes < MaxWrites /\ writes' = writes + 1
      /\ "done" \notin {list.at, history.at}
      /\ clock' \in {clock, clock + 1} /\ pageBackend' = pageBackend
      /\ rows' = [rows EXCEPT ![d] = NoRow]
      /\ latest' = IF d = P!Tracked THEN 0 ELSE latest
  BY Zenon DEF P!DeleteDocument, P!Write
<1>2. /\ PagingBase /\ history \in P!HistoryWalk /\ latest \in 0..MaxWrites
      /\ rows \in [PageDoc -> 0..MaxWrites \cup {NoRow}]
  BY Zenon DEF PagingInv, PagingBase, P!TypeOK
<1>3. /\ list' \in P!ListWalk
      /\ list'.at = list.at /\ list'.offset = list.offset
      /\ list'.seen = list.seen /\ (list'.calm <=> list.calm /\ list.at # "page")
  <2>1. (list.calm /\ list.at # "page") \in BOOLEAN
    BY Zenon
  <2> QED
    BY <1>1, <1>2, <2>1, Unlisted, Zenon
<1>4. /\ history' \in P!HistoryWalk
      /\ history'.at = history.at /\ history'.got = history.got /\ history'.floor = history.floor
      /\ history'.calm <=> history.calm /\ (history.at = "idle" \/ d # P!Tracked)
  BY <1>1, <1>2, Zenon DEF P!HistoryWalk
<1>5. list.at # "done" /\ history.at # "done" /\ (latest' = 0 \/ latest' = latest)
  BY <1>1, Zenon
<1>6. 0 \in 0..(latest + 1)
  BY <1>2
<1>7. PagingBase'
  BY <1>1, <1>2, <1>3, <1>4, <1>5, <1>6, WriteBase, Zenon
<1>8. ListInv'
  BY <1>3, <1>5, SMT DEF PagingInv, ListInv
<1>9. HistoryInv'
  <2> SUFFICES ASSUME history'.calm
               PROVE  /\ \A i \in DOMAIN history'.got : history'.got[i] = i
                      /\ history'.at = "ops" => rows'[P!Tracked] # NoRow /\ history'.floor <= latest'
    BY <1>4, <1>5, SMT DEF HistoryInv
  <2>1. /\ \A i \in DOMAIN history.got : history.got[i] = i
        /\ history.at = "ops" => rows[P!Tracked] # NoRow /\ history.floor <= latest
    BY <1>4, Zenon DEF PagingInv, HistoryInv
  <2>2. ASSUME history.at = "ops" PROVE latest' = latest /\ rows'[P!Tracked] = rows[P!Tracked]
    <3>1. d # P!Tracked
      BY <1>4, <2>2, Zenon
    <3>2. P!Tracked \in PageDoc
      BY Zenon DEF P!PagingAssumption, P!Tracked
    <3> QED
      BY <1>1, <1>2, <3>1, <3>2, Zenon
  <2> QED
    BY <1>4, <2>1, <2>2, Zenon
<1> QED
  BY <1>7, <1>8, <1>9, Zenon DEF PagingInv

\* What a read leaves alone.
LEMMA BaseKept ==
    ASSUME PagingBase, UNCHANGED <<pageBackend, clock, rows, latest, writes>>,
           list' \in P!ListWalk, history' \in P!HistoryWalk
    PROVE  PagingBase'
<1>1. pageBackend' = pageBackend /\ clock' = clock /\ rows' = rows /\ latest' = latest /\ writes' = writes
  BY Zenon
<1>2. P!TypeOK'
  BY <1>1, Zenon DEF PagingBase, P!TypeOK
<1> QED
  BY <1>1, <1>2, Zenon DEF PagingBase

LEMMA ListKept ==
    ASSUME ListInv, list' = list, rows' = rows
    PROVE  ListInv'
<1>1. P!Matching(list.since)' = P!Matching(list.since)
  BY Zenon DEF P!Matching
<1>2. \A d : Ahead(d)' = Ahead(d)
  BY <1>1, Zenon DEF Ahead
<1> QED
  BY <1>1, <1>2, SMT DEF ListInv

LEMMA HistoryKept ==
    ASSUME HistoryInv, history' = history, rows' = rows, latest' = latest
    PROVE  HistoryInv'
BY SMT DEF HistoryInv

\* A query parameter is a number, or absent and then 0.
LEMMA AtoiInt ==
    ASSUME P!PagingAssumption, NEW limit \in Limits
    PROVE  P!AtoiDefault(limit) \in Int
BY DEF P!PagingAssumption, P!AtoiDefault

\* The first request for a page keeps the invariant.
LEMMA PagingStartList ==
    ASSUME P!PagingAssumption, PagingInv, NEW limit \in Limits, NEW since \in Sinces,
           P!StartList(limit, since)
    PROVE  PagingInv'
<1>1. /\ list.at = "idle" /\ UNCHANGED <<pageBackend, clock, rows, latest, writes, history>>
      /\ list' = [list EXCEPT !.at = "page", !.limit = P!AtoiDefault(limit), !.since = since,
                              !.still = P!Matching(since)]
  BY Zenon DEF P!StartList
<1>2. /\ PagingBase /\ HistoryInv /\ ListInv
      /\ list \in P!ListWalk /\ history \in P!HistoryWalk
  BY Zenon DEF PagingInv, PagingBase, P!TypeOK
<1>3. P!Matching(since) \subseteq PageDoc
  BY Zenon DEF P!Matching
<1>4. /\ list' \in P!ListWalk
      /\ list'.at = "page" /\ list'.since = since /\ list'.still = P!Matching(since)
      /\ list'.offset = list.offset /\ list'.seen = list.seen
  BY <1>1, <1>2, <1>3, AtoiInt, Zenon DEF P!ListWalk
<1>5. list.offset = 0 /\ list.seen = {}
  BY <1>1, <1>2, Zenon DEF ListInv
<1>6. PagingBase'
  BY <1>1, <1>2, <1>4, BaseKept, Zenon
<1>7. HistoryInv'
  BY <1>1, <1>2, HistoryKept, Zenon
<1>8. P!Matching(list.since)' = P!Matching(since)
  BY <1>1, <1>4, Zenon DEF P!Matching
<1>9. ASSUME NEW d \in list'.still PROVE list'.offset <= Cardinality(Ahead(d)')
  <2>1. Ahead(d)' \subseteq PageDoc /\ IsFiniteSet(PageDoc)
    BY SameFinite, Zenon DEF Ahead, P!Matching, P!PagingAssumption
  <2>2. Cardinality(Ahead(d)') \in Nat
    BY <2>1, FS_Subset, FS_CardinalityType, Zenon
  <2> QED
    BY <1>4, <1>5, <2>2
<1>10. ListInv'
  BY <1>4, <1>8, <1>9, SMT DEF ListInv
<1> QED
  BY <1>6, <1>7, <1>10, Zenon DEF PagingInv

\* So does the first request for the history, and the check that the document is
\* there, with which every request begins.
LEMMA PagingHistoryGet ==
    ASSUME P!PagingAssumption, PagingInv,
           (\E limit \in Limits : P!StartHistory(limit)) \/ P!HistoryGet
    PROVE  PagingInv'
<1>1. /\ PagingBase /\ HistoryInv /\ ListInv
      /\ list \in P!ListWalk /\ history \in P!HistoryWalk /\ latest \in Nat
  <2>1. /\ PagingBase /\ HistoryInv /\ ListInv
        /\ list \in P!ListWalk /\ history \in P!HistoryWalk /\ latest \in 0..MaxWrites
    BY Zenon DEF PagingInv, PagingBase, P!TypeOK
  <2> QED
    BY <2>1
<1>2. UNCHANGED <<pageBackend, clock, rows, latest, writes, list>>
  BY Zenon DEF P!StartHistory, P!HistoryGet
<1>3. ASSUME NEW limit \in Limits, P!StartHistory(limit)
      PROVE  history' \in P!HistoryWalk /\ HistoryInv'
  <2>1. history' = [history EXCEPT !.at = "get", !.limit = P!AtoiDefault(limit)]
    BY <1>3, Zenon DEF P!StartHistory
  <2>2. /\ history' \in P!HistoryWalk /\ history'.at = "get"
        /\ history'.got = history.got /\ history'.calm = history.calm
    BY <1>1, <2>1, AtoiInt, Zenon DEF P!HistoryWalk
  <2> QED
    BY <1>1, <2>2, SMT DEF HistoryInv
<1>4. ASSUME P!HistoryGet PROVE history' \in P!HistoryWalk /\ HistoryInv'
  <2>1. CASE rows[P!Tracked] = NoRow
    <3>1. history' = [history EXCEPT !.at = "done", !.floor = 0]
      BY <1>4, <2>1, Zenon DEF P!HistoryGet
    <3>2. /\ history' \in P!HistoryWalk /\ history'.at = "done" /\ history'.floor = 0
          /\ history'.got = history.got /\ history'.calm = history.calm
      BY <1>1, <3>1, Zenon DEF P!HistoryWalk
    <3>3. Len(history'.got) >= 0
      BY <3>2 DEF P!HistoryWalk
    <3> QED
      BY <1>1, <3>2, <3>3, SMT DEF HistoryInv
  <2>2. CASE rows[P!Tracked] # NoRow
    <3>1. history' = [history EXCEPT !.at = "ops", !.floor = latest]
      BY <1>4, <2>2, Zenon DEF P!HistoryGet
    <3>2. /\ history' \in P!HistoryWalk /\ history'.at = "ops" /\ history'.floor = latest
          /\ history'.got = history.got /\ history'.calm = history.calm
      BY <1>1, <3>1, Zenon DEF P!HistoryWalk
    <3>3. latest' = latest /\ rows' = rows /\ latest <= latest
      BY <1>1, <1>2
    <3> QED
      BY <1>1, <2>2, <3>2, <3>3, SMT DEF HistoryInv
  <2> QED
    BY <2>1, <2>2, Zenon
<1>5. history' \in P!HistoryWalk /\ HistoryInv'
  BY <1>3, <1>4, Zenon
<1> QED
  BY <1>1, <1>2, <1>5, BaseKept, ListKept, Zenon DEF PagingInv

\* The operations after a cursor.
LEMMA OpsSince ==
    ASSUME latest \in Nat, NEW after \in Nat
    PROVE  /\ P!GetOpsSince(after) \in Seq(Nat)
           /\ Len(P!GetOpsSince(after)) = IF after < latest THEN latest - after ELSE 0
           /\ \A i \in 1..Len(P!GetOpsSince(after)) : P!GetOpsSince(after)[i] = after + i
<1> DEFINE n == IF after < latest THEN latest - after ELSE 0
<1>1. n \in Nat /\ 1..(latest - after) = 1..n
  OBVIOUS
<1> HIDE DEF n
<1>2. P!GetOpsSince(after) = [i \in 1..n |-> after + i]
  BY <1>1, Zenon DEF P!GetOpsSince
<1>3. [i \in 1..n |-> after + i] \in Seq(Nat) /\ Len([i \in 1..n |-> after + i]) = n
  BY <1>1
<1>4. \A i \in 1..n : [j \in 1..n |-> after + j][i] = after + i
  BY Zenon
<1> QED
  BY <1>2, <1>3, <1>4, Zenon DEF n

\* The first operations of an answer, and all of them when the answer is not full.
LEMMA Cut ==
    ASSUME NEW ops \in Seq(Nat), NEW limit \in Int, limit > 0
    PROVE  /\ P!Slice(ops, 0, limit) \in Seq(Nat)
           /\ Len(P!Slice(ops, 0, limit)) = IF limit < Len(ops) THEN limit ELSE Len(ops)
           /\ \A i \in 1..Len(P!Slice(ops, 0, limit)) : i \in 1..Len(ops) /\ P!Slice(ops, 0, limit)[i] = ops[i]
<1> DEFINE m == IF limit < Len(ops) THEN limit ELSE Len(ops)
<1>1. m \in Nat /\ m <= Len(ops) /\ Len(ops) \in Nat
  OBVIOUS
<1>2. P!Slice(ops, 0, limit) = SubSeq(ops, 1, m)
  BY <1>1 DEF P!Slice
<1> HIDE DEF m
<1>3. SubSeq(ops, 1, m) \in Seq(Nat) /\ Len(SubSeq(ops, 1, m)) = m
  BY <1>1
<1>4. \A i \in 1..m : SubSeq(ops, 1, m)[i] = ops[i] /\ i \in 1..Len(ops)
  BY <1>1
<1> QED
  BY <1>2, <1>3, <1>4, Zenon DEF m

\* A prefix of the log with the operations that follow it is a longer prefix.
LEMMA Prefixes ==
    ASSUME NEW got \in Seq(Nat), NEW page \in Seq(Nat),
           \A i \in 1..Len(got) : got[i] = i,
           \A i \in 1..Len(page) : page[i] = Len(got) + i
    PROVE  \A i \in DOMAIN (got \o page) : (got \o page)[i] = i
<1>1. Len(got) \in Nat /\ Len(page) \in Nat
  OBVIOUS
<1>2. DOMAIN (got \o page) = 1..(Len(got) + Len(page))
  OBVIOUS
<1>3. ASSUME NEW i \in 1..(Len(got) + Len(page)) PROVE (got \o page)[i] = i
  <2>1. CASE i <= Len(got)
    BY <1>1, <2>1
  <2>2. CASE i > Len(got)
    <3>1. (got \o page)[i] = page[i - Len(got)]
      BY <1>1, <2>2
    <3>2. i - Len(got) \in 1..Len(page)
      BY <1>1, <2>2
    <3>3. page[i - Len(got)] = Len(got) + (i - Len(got))
      BY <3>2, Zenon
    <3> QED
      BY <1>1, <3>1, <3>3
  <2> QED
    BY <1>1, <2>1, <2>2
<1> QED
  BY <1>2, <1>3, Zenon

\* The cursor a client sends.
Cursor == IF history.got = <<>> THEN 0 ELSE history.got[Len(history.got)]

\* What a request for the history returns.
Page ==
    IF history.limit > 0 THEN P!Slice(P!GetOpsSince(Cursor), 0, history.limit)
    ELSE P!GetOpsSince(Cursor)

\* It has the operations after the cursor, all of them unless it is full.
LEMMA HistoryPage ==
    ASSUME PagingBase
    PROVE  /\ Cursor \in Nat /\ Page \in Seq(Nat)
           /\ \A i \in 1..Len(Page) : Page[i] = Cursor + i
           /\ ~(history.limit > 0 /\ Len(Page) = history.limit) => Cursor + Len(Page) >= latest
<1>1. history.got \in Seq(Nat) /\ history.limit \in Int /\ latest \in Nat
  <2>1. history \in P!HistoryWalk /\ latest \in 0..MaxWrites
    BY Zenon DEF PagingBase, P!TypeOK
  <2> QED
    BY <2>1 DEF P!HistoryWalk
<1>2. Cursor \in Nat
  BY <1>1 DEF Cursor
<1> DEFINE ops == P!GetOpsSince(Cursor)
<1>3. /\ ops \in Seq(Nat)
      /\ Len(ops) = IF Cursor < latest THEN latest - Cursor ELSE 0
      /\ \A i \in 1..Len(ops) : ops[i] = Cursor + i
  BY <1>1, <1>2, OpsSince, Zenon
<1> HIDE DEF ops
<1>4. Cursor + Len(ops) >= latest /\ Len(ops) \in Nat
  BY <1>1, <1>2, <1>3
<1>5. CASE ~(history.limit > 0)
  <2>1. Page = ops
    BY <1>5, Zenon DEF Page, ops
  <2> QED
    BY <1>2, <1>3, <1>4, <2>1, Zenon
<1>6. CASE history.limit > 0
  <2>1. Page = P!Slice(ops, 0, history.limit)
    BY <1>6, Zenon DEF Page, ops
  <2>2. /\ Page \in Seq(Nat)
        /\ Len(Page) = IF history.limit < Len(ops) THEN history.limit ELSE Len(ops)
        /\ \A i \in 1..Len(Page) : i \in 1..Len(ops) /\ Page[i] = ops[i]
    BY <1>1, <1>3, <1>6, <2>1, Cut, Zenon
  <2>3. Len(Page) # history.limit => Len(Page) = Len(ops)
    BY <2>2, Zenon
  <2>4. \A i \in 1..Len(Page) : Page[i] = Cursor + i
    BY <1>3, <2>2, Zenon
  <2>5. Len(Page) # history.limit => Cursor + Len(Page) >= latest
    BY <1>4, <2>3, Zenon
  <2> QED
    BY <1>2, <1>6, <2>2, <2>4, <2>5, Zenon
<1> QED
  BY <1>5, <1>6, Zenon

\* Answering a request for the history keeps the invariant.
LEMMA PagingHistoryOps ==
    ASSUME P!PagingAssumption, PagingInv, P!HistoryOps
    PROVE  PagingInv'
<1>1. /\ PagingBase /\ HistoryInv /\ ListInv
      /\ list \in P!ListWalk /\ history \in P!HistoryWalk
  BY Zenon DEF PagingInv, PagingBase, P!TypeOK
<1>2. UNCHANGED <<pageBackend, clock, rows, latest, writes, list>> /\ history.at = "ops"
  BY Zenon DEF P!HistoryOps
<1>3. history' = [history EXCEPT
         !.at = IF history.limit > 0 /\ Len(Page) = history.limit THEN "get" ELSE "done",
         !.got = history.got \o Page]
  BY Zenon DEF P!HistoryOps, Page, Cursor
<1>4. /\ history.got \in Seq(Nat) /\ history.floor \in Nat
      /\ Cursor \in Nat /\ Page \in Seq(Nat)
      /\ \A i \in 1..Len(Page) : Page[i] = Cursor + i
      /\ ~(history.limit > 0 /\ Len(Page) = history.limit) => Cursor + Len(Page) >= latest
  BY <1>1, HistoryPage, Zenon DEF P!HistoryWalk
<1>5. history.got \o Page \in Seq(Nat) /\ Len(history.got \o Page) = Len(history.got) + Len(Page)
  BY <1>4
<1>6. /\ history' \in P!HistoryWalk
      /\ history'.at = (IF history.limit > 0 /\ Len(Page) = history.limit THEN "get" ELSE "done")
      /\ history'.got = history.got \o Page
      /\ history'.floor = history.floor /\ history'.calm = history.calm
  BY <1>1, <1>3, <1>5, Zenon DEF P!HistoryWalk
<1>7. HistoryInv'
  <2> SUFFICES ASSUME history.calm
               PROVE  /\ \A i \in DOMAIN history'.got : history'.got[i] = i
                      /\ history'.at = "done" => Len(history'.got) >= history.floor
    <3>1. history'.at # "ops"
      BY <1>6, Zenon
    <3> QED
      BY <1>6, <3>1, Zenon DEF HistoryInv
  <2>1. (\A i \in DOMAIN history.got : history.got[i] = i) /\ history.floor <= latest
    BY <1>1, <1>2, Zenon DEF HistoryInv
  <2>2. Cursor = Len(history.got)
    <3>1. CASE history.got = <<>>
      BY <3>1, Zenon DEF Cursor
    <3>2. CASE history.got # <<>>
      <4>1. Len(history.got) \in DOMAIN history.got
        BY <1>4, <3>2
      <4> QED
        BY <2>1, <3>2, <4>1, Zenon DEF Cursor
    <3> QED
      BY <3>1, <3>2, Zenon
  <2>3. \A i \in 1..Len(history.got) : history.got[i] = i
    BY <1>4, <2>1
  <2>4. \A i \in DOMAIN (history.got \o Page) : (history.got \o Page)[i] = i
    BY <1>4, <2>2, <2>3, Prefixes, Zenon
  <2>5. ASSUME history'.at = "done" PROVE Len(history'.got) >= history.floor
    <3>1. ~(history.limit > 0 /\ Len(Page) = history.limit)
      BY <1>6, <2>5, Zenon
    <3>2. Len(history'.got) = Cursor + Len(Page) /\ Cursor + Len(Page) >= latest
      BY <1>4, <1>5, <1>6, <2>2, <3>1, Zenon
    <3>3. latest \in Nat /\ Len(Page) \in Nat
      <4>1. latest \in 0..MaxWrites
        BY <1>1, Zenon DEF PagingBase, P!TypeOK
      <4> QED
        BY <1>4, <4>1
    <3> QED
      BY <1>4, <2>1, <3>2, <3>3
  <2> QED
    BY <1>6, <2>4, <2>5, Zenon
<1> QED
  BY <1>1, <1>2, <1>6, <1>7, BaseKept, ListKept, Zenon DEF PagingInv

\* No two of the rows that a query returns have the same time.
NoTies(t) == \A d, e \in P!Matching(t) : rows[d] = rows[e] => d = e

\* What a query orders: each matching row once, the newer before the older.
LEMMA SortedRows ==
    ASSUME P!PagingAssumption, PagingBase, NEW t \in Sinces, NEW s \in P!Sorted(t)
    PROVE  /\ s \in Seq(P!Matching(t))
           /\ \A i, j \in 1..Len(s) : s[i] = s[j] => i = j
           /\ \A d \in P!Matching(t) : \E i \in 1..Len(s) : s[i] = d
           /\ \A i, j \in 1..Len(s) : i < j => rows[s[i]] >= rows[s[j]]
           /\ \A d \in P!Matching(t) : rows[d] \in Nat
<1> DEFINE n == Cardinality(P!Matching(t))
<1>1. s \in Bijection(1..n, P!Matching(t)) /\ \A i, j \in 1..n : i < j => rows[s[i]] >= rows[s[j]]
  BY SameCardinality, SameBijection, Zenon DEF P!Sorted
<1>2. n \in Nat
  <2>1. P!Matching(t) \subseteq PageDoc /\ IsFiniteSet(PageDoc)
    BY SameFinite, Zenon DEF P!Matching, P!PagingAssumption
  <2> QED
    BY <2>1, FS_Subset, FS_CardinalityType, Zenon
<1> HIDE DEF n
<1>3. /\ s \in [1..n -> P!Matching(t)]
      /\ \A i, j \in 1..n : s[i] = s[j] => i = j
      /\ \A d \in P!Matching(t) : \E i \in 1..n : s[i] = d
  BY <1>1, Zenon DEF Bijection, Injection, IsInjective, Surjection
<1>4. s \in Seq(P!Matching(t)) /\ Len(s) = n
  BY <1>2, <1>3
<1>5. \A d \in P!Matching(t) : rows[d] \in Nat
  <2>1. rows \in [PageDoc -> 0..MaxWrites \cup {NoRow}]
    BY Zenon DEF PagingBase, P!TypeOK
  <2> QED
    BY <2>1 DEF P!Matching
<1> QED
  BY <1>1, <1>3, <1>4, <1>5, Zenon

\* The row at a position has at most the rows before that position ahead of it,
\* and, when no two rows tie, has all of those.
LEMMA Position ==
    ASSUME P!PagingAssumption, PagingBase, NEW s \in P!Sorted(list.since), NEW p \in 1..Len(s)
    PROVE  /\ Cardinality(Ahead(s[p])) \in Nat
           /\ Cardinality(Ahead(s[p])) <= p - 1
           /\ NoTies(list.since) => \A m \in Nat : m < p => m <= Cardinality(Ahead(s[p]))
<1> DEFINE M == P!Matching(list.since)
           A == Ahead(s[p])
<1>1. list.since \in Sinces
  <2>1. list \in P!ListWalk
    BY Zenon DEF PagingBase, P!TypeOK
  <2> QED
    BY <2>1, Zenon DEF P!ListWalk
<1>2. /\ s \in Seq(M)
      /\ \A i, j \in 1..Len(s) : s[i] = s[j] => i = j
      /\ \A d \in M : \E i \in 1..Len(s) : s[i] = d
      /\ \A i, j \in 1..Len(s) : i < j => rows[s[i]] >= rows[s[j]]
      /\ \A d \in M : rows[d] \in Nat
  BY <1>1, SortedRows, Zenon
<1>3. IsFiniteSet(A) /\ Cardinality(A) \in Nat
  <2>1. A \subseteq PageDoc /\ IsFiniteSet(PageDoc)
    BY SameFinite, Zenon DEF P!Matching, P!PagingAssumption, Ahead
  <2> QED
    BY <2>1, FS_Subset, FS_CardinalityType, Zenon
<1>4. s[p] \in M /\ rows[s[p]] \in Nat /\ Len(s) \in Nat
  BY <1>2
<1>5. Cardinality(A) <= p - 1
  <2> DEFINE T == {s[i] : i \in 1..(p - 1)}
             f == [i \in 1..(p - 1) |-> s[i]]
  <2>1. ASSUME NEW e \in A PROVE e \in T
    <3>1. e \in M /\ rows[e] > rows[s[p]] /\ rows[e] \in Nat
      BY <1>2, Zenon DEF Ahead
    <3>2. PICK i \in 1..Len(s) : s[i] = e
      BY <1>2, <3>1, Zenon
    <3>3. ~(p < i) /\ p # i
      <4>1. p < i => rows[s[p]] >= rows[s[i]]
        BY <1>2, Zenon
      <4> QED
        BY <1>4, <3>1, <3>2, <4>1
    <3>4. i \in 1..(p - 1)
      BY <3>3
    <3> QED
      BY <3>2, <3>4, Zenon
  <2>2. f \in Surjection(1..(p - 1), T)
    BY Zenon DEF Surjection
  <2>3. IsFiniteSet(1..(p - 1)) /\ Cardinality(1..(p - 1)) = p - 1
    <3>1. p - 1 \in Int /\ 1 \in Int /\ (1 > p - 1 => p - 1 = 0) /\ p - 1 - 1 + 1 = p - 1
      OBVIOUS
    <3>2. IsFiniteSet(1..(p - 1)) /\ Cardinality(1..(p - 1)) = IF 1 > p - 1 THEN 0 ELSE p - 1 - 1 + 1
      BY <3>1, FS_Interval, Zenon
    <3> QED
      BY <3>1, <3>2, Zenon
  <2>4. IsFiniteSet(T) /\ Cardinality(T) <= p - 1
    <3> HIDE DEF f, T
    <3>1. IsFiniteSet(T) /\ Cardinality(T) <= Cardinality(1..(p - 1))
      BY <2>2, <2>3, FS_Surjection, Zenon
    <3> QED
      BY <2>3, <3>1, Zenon
  <2>5. A \in SUBSET T
    BY <2>1, Zenon
  <2>6. Cardinality(A) <= Cardinality(T) /\ Cardinality(T) \in Nat
    BY <2>4, <2>5, FS_Subset, FS_CardinalityType, Zenon
  <2> HIDE DEF A, T
  <2> QED
    BY <1>3, <2>4, <2>6
<1>6. ASSUME NoTies(list.since), NEW m \in Nat, m < p PROVE m <= Cardinality(A)
  <2> DEFINE f == [i \in 1..m |-> s[i]]
  <2>1. ASSUME NEW i \in 1..m PROVE i \in 1..Len(s) /\ s[i] \in A
    <3>1. i \in 1..Len(s) /\ i < p
      BY <1>4, <1>6
    <3>2. s[i] \in M /\ rows[s[i]] \in Nat /\ rows[s[i]] >= rows[s[p]] /\ s[i] # s[p]
      <4>1. s[i] \in M
        BY <1>2, <3>1
      <4>2. rows[s[i]] >= rows[s[p]]
        BY <1>2, <3>1, Zenon
      <4>3. i # p
        BY <3>1
      <4> QED
        BY <1>2, <3>1, <4>1, <4>2, <4>3, Zenon
    <3>3. rows[s[i]] # rows[s[p]]
      BY <1>4, <1>6, <3>2, Zenon DEF NoTies
    <3>4. rows[s[i]] > rows[s[p]]
      BY <1>4, <3>2, <3>3
    <3> QED
      BY <3>1, <3>2, <3>4, Zenon DEF Ahead
  <2>2. f \in Injection(1..m, A)
    BY <1>2, <2>1, Zenon DEF Injection, IsInjective
  <2>3. Cardinality(1..m) = m
    <3>1. m \in Int /\ 1 \in Int /\ (1 > m => m = 0) /\ m - 1 + 1 = m
      BY <1>6
    <3>2. Cardinality(1..m) = IF 1 > m THEN 0 ELSE m - 1 + 1
      BY <3>1, FS_Interval, Zenon
    <3> QED
      BY <3>1, <3>2, Zenon
  <2>4. Cardinality(1..m) <= Cardinality(A)
    BY <1>3, <2>2, FS_Injection, Zenon
  <2> QED
    BY <2>3, <2>4, Zenon
<1> QED
  BY <1>3, <1>5, <1>6, Zenon

\* The rows of a page, by position, and where it ends.
LEMMA ListPage ==
    ASSUME NEW S, NEW s \in Seq(S), NEW k \in Nat, NEW limit \in Int, limit > 0
    PROVE  /\ P!Slice(s, k, limit) \in Seq(S)
           /\ \A p \in 1..Len(s) : k < p =>
                \/ \E i \in 1..Len(P!Slice(s, k, limit)) : P!Slice(s, k, limit)[i] = s[p]
                \/ Len(P!Slice(s, k, limit)) = limit /\ k + limit < p
<1> DEFINE m == IF k + limit < Len(s) THEN k + limit ELSE Len(s)
           page == SubSeq(s, k + 1, m)
<1>1. Len(s) \in Nat /\ m \in Nat /\ m <= Len(s) /\ k + 1 \in Nat /\ (m = k + limit \/ m = Len(s)) /\ (m # Len(s) => m = k + limit)
  OBVIOUS
<1>2. P!Slice(s, k, limit) = page
  BY Zenon DEF P!Slice
<1> HIDE DEF m
<1>3. page \in Seq(S) /\ Len(page) = (IF k + 1 <= m THEN m - k ELSE 0)
  BY <1>1
<1>4. ASSUME NEW p \in 1..Len(s), k < p, p <= m
      PROVE  \E i \in 1..Len(page) : page[i] = s[p]
  <2>1. k + 1 <= m /\ p - k \in 1..(m - k) /\ k + 1 + (p - k) - 1 = p
    BY <1>1, <1>4
  <2>2. page[p - k] = s[k + 1 + (p - k) - 1]
    BY <1>1, <1>4, <2>1
  <2> QED
    BY <1>3, <2>1, <2>2, Zenon
<1>5. ASSUME NEW p \in 1..Len(s), k < p, ~(p <= m)
      PROVE  Len(page) = limit /\ k + limit < p
  <2>1. m = k + limit
    BY <1>1, <1>5
  <2> QED
    BY <1>1, <1>3, <1>5, <2>1
<1> HIDE DEF page
<1> QED
  BY <1>2, <1>3, <1>4, <1>5, Zenon

\* Answering a request for a page of the list keeps the invariant.
LEMMA PagingHandleList ==
    ASSUME P!PagingAssumption, PagingInv, P!HandleListDocs
    PROVE  PagingInv'
<1> DEFINE M == P!Matching(list.since)
<1>1. /\ PagingBase /\ HistoryInv /\ ListInv
      /\ list \in P!ListWalk /\ history \in P!HistoryWalk
  BY Zenon DEF PagingInv, PagingBase, P!TypeOK
<1>2. /\ UNCHANGED <<pageBackend, clock, rows, latest, writes, history>> /\ list.at = "page"
      /\ \E page \in P!ListDocuments(list.since, list.limit, list.offset) :
           list' = [list EXCEPT
                     !.at = IF list.limit > 0 /\ Len(page) = list.limit THEN "page" ELSE "done",
                     !.offset = list.offset + Len(page),
                     !.seen = list.seen \cup P!Range(page),
                     !.calm = list.calm /\ NoTies(list.since)]
  BY Zenon DEF P!HandleListDocs, NoTies
<1>3. PICK page \in P!ListDocuments(list.since, list.limit, list.offset) :
        list' = [list EXCEPT
                  !.at = IF list.limit > 0 /\ Len(page) = list.limit THEN "page" ELSE "done",
                  !.offset = list.offset + Len(page),
                  !.seen = list.seen \cup P!Range(page),
                  !.calm = list.calm /\ NoTies(list.since)]
  BY <1>2, Zenon
<1>4. PICK s \in P!Sorted(list.since) :
         page = IF list.limit > 0 THEN P!Slice(s, list.offset, list.limit) ELSE s
  BY Zenon DEF P!ListDocuments
<1> DEFINE more == list.limit > 0 /\ Len(page) = list.limit
<1>5. /\ list.since \in Sinces /\ list.offset \in Nat /\ list.limit \in Int
      /\ list.still \subseteq PageDoc /\ list.seen \subseteq PageDoc /\ list.calm \in BOOLEAN
  BY <1>1, Zenon DEF P!ListWalk
<1>6. /\ s \in Seq(M)
      /\ \A d \in M : \E i \in 1..Len(s) : s[i] = d
  BY <1>1, <1>5, SortedRows
<1>7. page \in Seq(M) /\ Len(page) \in Nat
  <2>1. page \in Seq(M)
    BY <1>4, <1>5, <1>6, ListPage, Zenon
  <2> QED
    BY <2>1
<1>8. P!Range(page) \subseteq PageDoc
  <2>1. DOMAIN page = 1..Len(page) /\ \A i \in 1..Len(page) : page[i] \in M
    BY <1>7
  <2> QED
    BY <2>1, Zenon DEF P!Range, P!Matching
<1>9. /\ list' \in P!ListWalk
      /\ list'.at = (IF more THEN "page" ELSE "done")
      /\ list'.offset = list.offset + Len(page)
      /\ list'.seen = list.seen \cup P!Range(page)
      /\ list'.calm = (list.calm /\ NoTies(list.since))
      /\ list'.since = list.since /\ list'.still = list.still
  <2>1. list' = [list EXCEPT !.at = IF more THEN "page" ELSE "done",
                             !.offset = list.offset + Len(page),
                             !.seen = list.seen \cup P!Range(page),
                             !.calm = list.calm /\ NoTies(list.since)]
    BY <1>3, Zenon
  <2>2. (list.calm /\ NoTies(list.since)) \in BOOLEAN /\ list.offset + Len(page) \in Nat
    BY <1>5, <1>7
  <2> HIDE DEF more
  <2> QED
    BY <1>1, <1>5, <1>8, <2>1, <2>2, Zenon DEF P!ListWalk
<1>10. ASSUME list.calm, NoTies(list.since), NEW d \in list.still, d \notin list'.seen
      PROVE  d \in M /\ more /\ list'.offset <= Cardinality(Ahead(d))
  <2>1. d \in M /\ d \notin P!Range(page) /\ list.offset <= Cardinality(Ahead(d))
    BY <1>1, <1>2, <1>9, <1>10, Zenon DEF ListInv
  <2>2. PICK p \in 1..Len(s) : s[p] = d
    BY <1>6, <2>1, Zenon
  <2>3. /\ Cardinality(Ahead(d)) \in Nat /\ Cardinality(Ahead(d)) <= p - 1
        /\ \A m \in Nat : m < p => m <= Cardinality(Ahead(d))
    BY <1>1, <1>10, <2>2, Position, Zenon
  <2>4. list.offset < p
    BY <1>5, <2>1, <2>3
  <2>5. ~\E i \in 1..Len(page) : page[i] = s[p]
    <3>1. DOMAIN page = 1..Len(page)
      BY <1>7
    <3> QED
      BY <2>1, <2>2, <3>1, Zenon DEF P!Range
  <2>6. list.limit > 0
    BY <1>4, <2>5, Zenon
  <2>7. Len(page) = list.limit /\ list.offset + list.limit < p
    <3>1. page = P!Slice(s, list.offset, list.limit)
      BY <1>4, <2>6, Zenon
    <3>2. \A q \in 1..Len(s) : list.offset < q =>
             \/ \E i \in 1..Len(P!Slice(s, list.offset, list.limit)) :
                  P!Slice(s, list.offset, list.limit)[i] = s[q]
             \/ /\ Len(P!Slice(s, list.offset, list.limit)) = list.limit
                /\ list.offset + list.limit < q
      BY <1>5, <1>6, <2>6, ListPage, Zenon
    <3> QED
      BY <2>4, <2>5, <3>1, <3>2, Zenon
  <2>8. list.offset + list.limit \in Nat
    BY <1>5, <2>6
  <2> QED
    BY <1>9, <2>1, <2>3, <2>6, <2>7, <2>8, Zenon
<1> HIDE DEF more
<1>11. ListInv'
  <2>1. M' = M /\ \A d : Ahead(d)' = Ahead(d)
    <3>1. rows' = rows /\ list'.since = list.since
      BY <1>2, <1>9, Zenon
    <3>2. M' = M
      BY <3>1, Zenon DEF P!Matching
    <3> QED
      BY <3>1, <3>2, Zenon DEF Ahead
  <2>2. list'.at # "idle" /\ (list'.at = "done" => ~more)
    BY <1>9, Zenon
  <2>3. list'.calm => list.calm /\ NoTies(list.since)
    BY <1>9, Zenon
  <2>4. list.calm => list.still \subseteq M
    BY <1>1, <1>2, Zenon DEF ListInv
  <2>5. ASSUME list'.calm, list'.at = "page"
        PROVE  /\ list'.still \subseteq M'
               /\ \A d \in list'.still \ list'.seen : list'.offset <= Cardinality(Ahead(d)')
    BY <1>9, <1>10, <2>1, <2>3, <2>4, <2>5, Zenon
  <2>6. ASSUME list'.calm, list'.at = "done" PROVE list'.still \subseteq list'.seen
    BY <1>9, <1>10, <2>2, <2>3, <2>6, Zenon
  <2> QED
    BY <2>2, <2>5, <2>6, Zenon DEF ListInv
<1> QED
  BY <1>1, <1>2, <1>9, <1>11, BaseKept, HistoryKept, Zenon DEF PagingInv

\* The invariant of paged reads.
THEOREM PagingInvariant == P!Spec => []PagingInv
<1>1. P!Init => PagingInv
  BY PagingInit, PagingAssumed, Zenon
<1>2. PagingInv /\ [P!Next]_P!vars => PagingInv'
  <2> SUFFICES ASSUME PagingInv, [P!Next]_P!vars PROVE PagingInv'
    BY Zenon
  <2>1. P!PagingAssumption
    BY PagingAssumed, Zenon
  <2>2. ASSUME NEW d \in PageDoc, P!CreateDocument(d) PROVE PagingInv'
    BY <2>1, <2>2, PagingCreate, Zenon
  <2>3. ASSUME NEW d \in PageDoc, P!AppendOp(d) PROVE PagingInv'
    BY <2>1, <2>3, PagingAppend, Zenon
  <2>4. ASSUME NEW d \in PageDoc, P!DeleteDocument(d) PROVE PagingInv'
    BY <2>1, <2>4, PagingDelete, Zenon
  <2>5. ASSUME NEW limit \in Limits, NEW since \in Sinces, P!StartList(limit, since)
        PROVE  PagingInv'
    BY <2>1, <2>5, PagingStartList, Zenon
  <2>6. CASE P!HandleListDocs
    BY <2>1, <2>6, PagingHandleList, Zenon
  <2>7. CASE (\E limit \in Limits : P!StartHistory(limit)) \/ P!HistoryGet
    BY <2>1, <2>7, PagingHistoryGet, Zenon
  <2>8. CASE P!HistoryOps
    BY <2>1, <2>8, PagingHistoryOps, Zenon
  <2>9. CASE UNCHANGED P!vars
    <3>1. UNCHANGED <<pageBackend, clock, rows, latest, writes>> /\ list' = list /\ history' = history
      BY <2>9, Zenon DEF P!vars
    <3>2. list \in P!ListWalk /\ history \in P!HistoryWalk
      BY Zenon DEF PagingInv, PagingBase, P!TypeOK
    <3> QED
      BY <3>1, <3>2, BaseKept, ListKept, HistoryKept, Zenon DEF PagingInv
  <2> QED
    BY <2>2, <2>3, <2>4, <2>5, <2>6, <2>7, <2>8, <2>9, Zenon DEF P!Next
<1> QED
  BY <1>1, <1>2, PTL DEF P!Spec

\* A walk through the history of a document that is not deleted gets its
\* operations from the first on, in order, and at its end all that were there when
\* its last request began, for every limit and however many writes come between
\* (handleHistory, GetOpsSince).
THEOREM PagingHistoryComplete == P!Spec => []HistoryComplete
<1>1. PagingInv => HistoryComplete
  BY Zenon DEF PagingInv, HistoryInv, HistoryComplete, P!HistoryComplete
<1> QED
  BY <1>1, PagingInvariant, PTL

\* A walk through the list of documents misses none that was there all the time
\* and that nobody wrote, if nothing is deleted, no page has ties and, on Postgres
\* and MySQL, no append gives a row an older time, for every number of documents
\* and every limit (handleListDocs, ListDocuments, AppendOp).
THEOREM PagingListComplete == P!Spec => []ListComplete
<1>1. PagingInv => ListComplete
  BY Zenon DEF PagingInv, ListInv, ListComplete, P!ListComplete
<1> QED
  BY <1>1, PagingInvariant, PTL
=============================================================================
