---------------------------- MODULE EngineProofs ----------------------------
(***************************************************************************)
(* What holds of the engine, proved.                                       *)
(*                                                                         *)
(* On any number of processes: types, and the order of broadcasts.  Base   *)
(* holds of every behaviour: what a worker holds at each location.  Quiet  *)
(* holds until a DELETE overlaps with another request: each process has    *)
(* one docState, and the seq a worker carries is in the log and newer than *)
(* what its process broadcast.                                             *)
(*                                                                         *)
(* On a single process: Durable, the cached document, every snapshot and   *)
(* every document being loaded contain the log they stand for; and Exact,  *)
(* they contain nothing but the log, changes whose commit or deletion was  *)
(* reported as failed, and the one change that is applied and about to be  *)
(* committed.                                                              *)
(***************************************************************************)
EXTENDS Engine, TLAPS

\* A location of Submit, Snapshot or Export before st.mu is taken.
Entering == {"state", "getSnapshot", "getOps", "install", "lock"}

\* Between AppendOp and the end of Submit.
Committed == {"committed", "broadcast"}

CallAt(w) ==
    /\ pc[w] = "idle" => st[w] = Nil
    /\ pc[w] # "idle" => req[w] \in Request
    /\ pc[w] \in Entering => req[w].call \in {"Submit", "Snapshot", "Export"}
    /\ pc[w] \in {"append"} \cup Committed => req[w].call = "Submit"
    /\ pc[w] \in {"latestSeq", "save"} => req[w].call = "Snapshot"
    /\ pc[w] = "forget" => req[w].call = "Delete"
    /\ pc[w] \in {"lock"} \cup Critical => st[w] \in DocState
    /\ pc[w] \notin {"lock"} \cup Critical => st[w] = Nil

\* Every location agrees with the request and the pointer the worker carries,
\* and a worker inside Submit's or Snapshot's critical section holds the mutex.
Base ==
    \A w \in Worker :
        CallAt(w) /\ (pc[w] \in Critical => mu[st[w]] = w)

----------------------------------------------------------------------------
(* The operators on sequences.                                             *)

\* Appending an operation adds its change to the content of the log and leaves
\* every earlier prefix alone (engine.go:116).
LEMMA AppendContent ==
    ASSUME NEW s \in Seq(Change), NEW c \in Change
    PROVE  /\ Append(s, c) \in Seq(Change)
           /\ Len(Append(s, c)) = Len(s) + 1
           /\ Content(Append(s, c)) = Content(s) \cup {c}
           /\ \A n \in Nat : n <= Len(s) => Prefix(Append(s, c), n) = Prefix(s, n)
<1> DEFINE t == Append(s, c)
<1>1. t \in Seq(Change) /\ Len(t) = Len(s) + 1 /\ Len(s) \in Nat
  OBVIOUS
<1>2. \A i \in 1..Len(s) : t[i] = s[i]
  OBVIOUS
<1>3. t[Len(s) + 1] = c
  OBVIOUS
<1>4. Content(t) = Content(s) \cup {c}
  <2>1. 1..Len(t) = (1..Len(s)) \cup {Len(s) + 1}
    BY <1>1
  <2>2. QED
    BY <1>2, <1>3, <2>1, Zenon DEF Content
<1>5. ASSUME NEW n \in Nat, n <= Len(s)
      PROVE  Prefix(t, n) = Prefix(s, n)
  <2>1. {j \in 1..Len(t) : j <= n} = {j \in 1..Len(s) : j <= n}
    BY <1>1, <1>5
  <2>2. QED
    BY <1>2, <2>1, Zenon DEF Prefix
<1>6. QED
  BY <1>1, <1>4, <1>5, Zenon

\* A log is what is in its first n operations and what comes after them
\* (engine.go:224-241).
LEMMA SplitContent ==
    ASSUME NEW s \in Seq(Change), NEW n \in Nat
    PROVE  /\ Content(s) = Prefix(s, n) \cup Since(s, n)
           /\ Content(s) \subseteq Change
<1>1. 1..Len(s) = {j \in 1..Len(s) : j <= n} \cup {j \in 1..Len(s) : j > n}
  OBVIOUS
<1>2. Content(s) = Prefix(s, n) \cup Since(s, n)
  BY <1>1, Zenon DEF Content, Prefix, Since
<1>3. Content(s) \subseteq Change
  BY DEF Content
<1>4. QED
  BY <1>2, <1>3, Zenon

\* The content of the empty log is empty (documents.go:108).
LEMMA EmptyContent == Content(<<>>) = {}
BY DEF Content
----------------------------------------------------------------------------
(* Type correctness.                                                       *)

\* What every request carries, and what a Submit carries (engine.go:96).
LEMMA RequestFields ==
    \A r \in Request :
        /\ r.node \in Node
        /\ r.call = "Submit" => r.change \in Change
BY Zenon DEF Request

\* Types and locations hold initially (engine.go:70-90).
LEMMA InitTyped == Init => TypeOK /\ Base
<1> SUFFICES ASSUME Init
             PROVE  TypeOK /\ Base
  BY Zenon
<1>1. FlagsOK
  BY Zenon DEF Init, FlagsOK
<1>2. TypeOK
  BY <1>1 DEF Init, TypeOK, Locations
<1>3. Base
  BY Zenon DEF Init, Base, CallAt, Entering, Committed, Critical
<1>4. QED
  BY <1>2, <1>3, Zenon

\* Every step keeps the types, and the agreement between a worker's location,
\* its request, its docState pointer and the mutex (engine.go:96-280).
LEMMA StepTyped == TypeOK /\ Base /\ [Next]_vars => TypeOK' /\ Base'
<1> USE NilAssumption
<1> SUFFICES ASSUME TypeOK, Base, [Next]_vars
             PROVE  TypeOK' /\ Base'
  BY Zenon
<1> USE DEF Locations, storeVars, memoryVars, workerVars, historyVars,
            CallAt, Entering, Committed, Critical, Request
<1>1. ASSUME NEW w \in Worker, NEW n \in Node, NEW c \in Change,
             CallSubmit(w, n, c)
      PROVE  TypeOK' /\ Base'
  <2>1. FlagsOK'
    BY <1>1, Zenon DEF CallSubmit, FlagsOK, TypeOK
  <2>2. QED
    BY <1>1, <2>1 DEF CallSubmit, Begin, TypeOK, Base
<1>2. ASSUME NEW w \in Worker, NEW n \in Node,
             NEW api \in {"Snapshot", "Export"}, CallRead(w, n, api)
      PROVE  TypeOK' /\ Base'
  <2>1. FlagsOK'
    BY <1>2, Zenon DEF CallRead, FlagsOK, TypeOK
  <2>2. QED
    BY <1>2, <2>1 DEF CallRead, Begin, TypeOK, Base
<1>3. ASSUME NEW w \in Worker, NEW n \in Node, CallDelete(w, n)
      PROVE  TypeOK' /\ Base'
  <2>1. FlagsOK'
    BY <1>3, Zenon DEF CallDelete, FlagsOK, TypeOK
  <2>2. QED
    BY <1>3, <2>1 DEF CallDelete, Begin, TypeOK, Base
<1>29. CASE DeleteFails
  <2>1. FlagsOK'
    BY <1>29, Zenon DEF DeleteFails, FlagsOK, TypeOK
  <2>2. Content(ops) \subseteq Change
    BY SplitContent DEF TypeOK
  <2>3. QED
    BY <1>29, <2>1, <2>2 DEF DeleteFails, TypeOK, Base
<1>4. CASE CreateDocument
  <2>1. FlagsOK'
    BY <1>4, Zenon DEF CreateDocument, FlagsOK, TypeOK, Base
  <2>2. QED
    BY <1>4, <2>1, Zenon DEF CreateDocument, TypeOK, Base
<1>5. ASSUME NEW w \in Worker, Lookup(w)
      PROVE  TypeOK' /\ Base'
  <2>1. FlagsOK'
    BY <1>5, Zenon DEF Lookup, FlagsOK, TypeOK
  <2>2. req[w] \in Request /\ st[w] \in DocState \cup {Nil}
    BY <1>5, Zenon DEF Lookup, TypeOK, Base
  <2>3. req[w].node \in Node /\ (req[w].call = "Submit" => req[w].change \in Change)
    BY <2>2, RequestFields, Zenon
  <2> HIDE DEF Request
  <2>4. TypeOK'
    <3>1. CASE docs[req[w].node] # Nil
      <4>1. docs[req[w].node] \in DocState
        BY <2>3, <3>1, Zenon DEF TypeOK
      <4>2. st' \in [Worker -> DocState \cup {Nil}]
        BY <1>5, <3>1, <4>1, Zenon DEF Lookup, TypeOK
      <4>3. pc' \in [Worker -> Locations]
        BY <1>5, <3>1, Zenon DEF Lookup, Goto, TypeOK
      <4>4. QED
        BY <1>5, <2>1, <4>2, <4>3, Zenon DEF Lookup, Goto, TypeOK
    <3>2. CASE docs[req[w].node] = Nil
      BY <1>5, <2>1, <2>2, <2>3, <3>2, Zenon DEF Lookup, Goto, TypeOK
    <3>3. QED
      BY <3>1, <3>2, Zenon
  <2>5. Base'
    BY <1>5, <2>2, <2>3 DEF Lookup, Goto, TypeOK, Base
  <2>6. QED
    BY <2>4, <2>5, Zenon
<1>6. ASSUME NEW w \in Worker, GetSnapshot(w)
      PROVE  TypeOK' /\ Base'
  <2>1. FlagsOK'
    BY <1>6, Zenon DEF GetSnapshot, FlagsOK, TypeOK
  <2>2. TypeOK'
    BY <1>6, <2>1, Zenon DEF GetSnapshot, Goto, TypeOK
  <2>3. Base'
    BY <1>6 DEF GetSnapshot, Goto, TypeOK, Base
  <2>4. QED
    BY <2>2, <2>3, Zenon
<1>7. ASSUME NEW w \in Worker, GetOpsSince(w)
      PROVE  TypeOK' /\ Base'
  <2>1. FlagsOK'
    BY <1>7, Zenon DEF GetOpsSince, FlagsOK, TypeOK
  <2>2. TypeOK'
    BY <1>7, <2>1 DEF GetOpsSince, Goto, Since, TypeOK
  <2>3. Base'
    BY <1>7 DEF GetOpsSince, Goto, Since, TypeOK, Base
  <2>4. QED
    BY <2>2, <2>3, Zenon
<1>8. ASSUME NEW w \in Worker, LoadFails(w)
      PROVE  TypeOK' /\ Base'
  <2>1. FlagsOK'
    BY <1>8, Zenon DEF LoadFails, FlagsOK, TypeOK
  <2>2. TypeOK'
    BY <1>8, <2>1, Zenon DEF LoadFails, Return, TypeOK
  <2>3. Base'
    BY <1>8 DEF LoadFails, Return, TypeOK, Base
  <2>4. QED
    BY <2>2, <2>3, Zenon
<1>9. ASSUME NEW w \in Worker, Install(w)
      PROVE  TypeOK' /\ Base'
  <2>1. FlagsOK'
    BY <1>9, Zenon DEF Install, FlagsOK, TypeOK
  <2>2. req[w] \in Request /\ st[w] \in DocState \cup {Nil}
    BY <1>9, Zenon DEF Install, TypeOK, Base
  <2>3. req[w].node \in Node /\ (req[w].call = "Submit" => req[w].change \in Change)
    BY <2>2, RequestFields, Zenon
  <2> HIDE DEF Request
  <2>4. TypeOK'
    <3>1. CASE docs[req[w].node] # Nil
      <4>1. docs[req[w].node] \in DocState
        BY <2>3, <3>1, Zenon DEF TypeOK
      <4>2. st' \in [Worker -> DocState \cup {Nil}] /\ UNCHANGED <<docs, doc, mu>>
        BY <1>9, <3>1, <4>1, Zenon DEF Install, TypeOK
      <4>3. QED
        BY <1>9, <2>1, <4>2, Zenon DEF Install, Goto, TypeOK
    <3>2. CASE docs[req[w].node] = Nil
      <4>1. PICK o \in DocState :
                /\ docs' = [docs EXCEPT ![req[w].node] = o]
                /\ doc' = [doc EXCEPT ![o] = loaded[w]]
                /\ mu' = [mu EXCEPT ![o] = Nil]
                /\ st' = [st EXCEPT ![w] = o]
        BY <1>9, <3>2, Zenon DEF Install, TypeOK
      <4>2. /\ docs' \in [Node -> DocState \cup {Nil}]
            /\ doc' \in [DocState -> SUBSET Change]
            /\ mu' \in [DocState -> Worker \cup {Nil}]
            /\ st' \in [Worker -> DocState \cup {Nil}]
        BY <2>3, <4>1, Zenon DEF TypeOK
      <4>3. QED
        BY <1>9, <2>1, <4>2, Zenon DEF Install, Goto, TypeOK
    <3>3. QED
      BY <3>1, <3>2, Zenon
  <2>5. Base'
    BY <1>9, <2>2, <2>3 DEF Install, Goto, TypeOK, Base
  <2>6. QED
    BY <2>4, <2>5, Zenon
<1>10. ASSUME NEW w \in Worker, LockAndApply(w)
      PROVE  TypeOK' /\ Base'
  <2>1. FlagsOK'
    BY <1>10, Zenon DEF LockAndApply, FlagsOK, TypeOK
  <2>2. req[w] \in Request /\ st[w] \in DocState \cup {Nil}
    BY <1>10, Zenon DEF LockAndApply, TypeOK, Base
  <2>3. req[w].node \in Node /\ (req[w].call = "Submit" => req[w].change \in Change)
    BY <2>2, RequestFields, Zenon
  <2> HIDE DEF Request
  <2>4. TypeOK'
    BY <1>10, <2>1, <2>2, <2>3, Zenon DEF LockAndApply, Goto, TypeOK
  <2>5. Base'
    BY <1>10, <2>2, <2>3 DEF LockAndApply, Goto, TypeOK, Base
  <2>6. QED
    BY <2>4, <2>5, Zenon
<1>11. ASSUME NEW w \in Worker, ApplyFails(w)
      PROVE  TypeOK' /\ Base'
  <2>1. FlagsOK'
    BY <1>11, Zenon DEF ApplyFails, FlagsOK, TypeOK
  <2>2. TypeOK'
    BY <1>11, <2>1, Zenon DEF ApplyFails, Return, TypeOK
  <2>3. Base'
    BY <1>11 DEF ApplyFails, Return, TypeOK, Base
  <2>4. QED
    BY <2>2, <2>3, Zenon
<1>12. ASSUME NEW w \in Worker, AppendOp(w)
      PROVE  TypeOK' /\ Base'
  <2>1. FlagsOK'
    BY <1>12, Zenon DEF AppendOp, FlagsOK, TypeOK
  <2>2. req[w] \in Request /\ st[w] \in DocState \cup {Nil}
    BY <1>12, Zenon DEF AppendOp, TypeOK, Base
  <2>3. req[w].node \in Node /\ (req[w].call = "Submit" => req[w].change \in Change)
    BY <2>2, RequestFields, Zenon
  <2> HIDE DEF Request
  <2>4. TypeOK'
    BY <1>12, <2>1, <2>2, <2>3 DEF AppendOp, Goto, TypeOK, Base
  <2>5. Base'
    BY <1>12, <2>2, <2>3, Zenon DEF AppendOp, Goto, TypeOK, Base
  <2>6. QED
    BY <2>4, <2>5, Zenon
<1>13. ASSUME NEW w \in Worker, AppendFails(w)
      PROVE  TypeOK' /\ Base'
  <2>1. FlagsOK'
    BY <1>13, Zenon DEF AppendFails, FlagsOK, TypeOK
  <2>2. req[w] \in Request /\ st[w] \in DocState \cup {Nil}
    BY <1>13, Zenon DEF AppendFails, TypeOK, Base
  <2>3. req[w].node \in Node /\ (req[w].call = "Submit" => req[w].change \in Change)
    BY <2>2, RequestFields, Zenon
  <2> HIDE DEF Request
  <2>4. TypeOK'
    <3>1. req[w].change \in Change
      BY <1>13, <2>3, Zenon DEF AppendFails, TypeOK, Base
    <3>2. ops' \in Seq(Change)
      <4>1. ops' = ops \/ ops' = Append(ops, req[w].change)
        BY <1>13, Zenon DEF AppendFails, TypeOK
      <4>2. ops \in Seq(Change)
        BY Zenon DEF TypeOK
      <4>3. Append(ops, req[w].change) \in Seq(Change)
        BY <3>1, <4>2, AppendContent, Zenon
      <4>4. QED
        BY <4>1, <4>2, <4>3, Zenon
    <3>3. QED
      <4>1. mu' \in [DocState -> Worker \cup {Nil}] /\ failed' \subseteq Change
        BY <1>13, <3>1, Zenon DEF AppendFails, Unlock, TypeOK
      <4>2. QED
        BY <1>13, <2>1, <3>2, <4>1, Zenon DEF AppendFails, Return, TypeOK
  <2>5. Base'
    BY <1>13, <2>2, <2>3 DEF AppendFails, Return, Unlock, TypeOK, Base
  <2>6. QED
    BY <2>4, <2>5, Zenon
<1>14. ASSUME NEW w \in Worker, AfterCommit(w)
      PROVE  TypeOK' /\ Base'
  <2>1. FlagsOK'
    BY <1>14, Zenon DEF AfterCommit, FlagsOK, TypeOK
  <2>2. TypeOK'
    BY <1>14, <2>1 DEF AfterCommit, Goto, PutSnapshot, TypeOK, Base
  <2>3. Base'
    BY <1>14 DEF AfterCommit, Goto, PutSnapshot, TypeOK, Base
  <2>4. QED
    BY <2>2, <2>3, Zenon
<1>15. ASSUME NEW w \in Worker, Broadcast(w)
      PROVE  TypeOK' /\ Base'
  <2>1. FlagsOK'
    BY <1>15, Zenon DEF Broadcast, FlagsOK, TypeOK
  <2>2. TypeOK'
    <3>1. req[w].change \in Change
      <4>1. req[w] \in Request /\ req[w].call = "Submit"
        BY <1>15, Zenon DEF Broadcast, Base
      <4>2. QED
        BY <4>1, RequestFields, Zenon
    <3>2. acked' \subseteq Change
      BY <1>15, <3>1, Zenon DEF Broadcast, TypeOK
    <3>3. lastSent' \in [Node -> Nat] /\ mu' \in [DocState -> Worker \cup {Nil}]
      BY <1>15, Zenon DEF Broadcast, Unlock, TypeOK
    <3>4. QED
      BY <1>15, <2>1, <3>2, <3>3, Zenon DEF Broadcast, Return, TypeOK
  <2>3. Base'
    BY <1>15 DEF Broadcast, Return, Unlock, TypeOK, Base
  <2>4. QED
    BY <2>2, <2>3, Zenon
<1>16. ASSUME NEW w \in Worker, LockForSnapshot(w)
      PROVE  TypeOK' /\ Base'
  <2>1. FlagsOK'
    BY <1>16, Zenon DEF LockForSnapshot, FlagsOK, TypeOK
  <2>2. TypeOK'
    BY <1>16, <2>1, Zenon DEF LockForSnapshot, Goto, TypeOK
  <2>3. Base'
    BY <1>16 DEF LockForSnapshot, Goto, TypeOK, Base
  <2>4. QED
    BY <2>2, <2>3, Zenon
<1>17. ASSUME NEW w \in Worker, GetLatestSeq(w)
      PROVE  TypeOK' /\ Base'
  <2>1. FlagsOK'
    BY <1>17, Zenon DEF GetLatestSeq, FlagsOK, TypeOK
  <2>2. TypeOK'
    BY <1>17, <2>1 DEF GetLatestSeq, Goto, TypeOK
  <2>3. Base'
    BY <1>17 DEF GetLatestSeq, Goto, TypeOK, Base
  <2>4. QED
    BY <2>2, <2>3, Zenon
<1>18. ASSUME NEW w \in Worker, SaveSnapshot(w)
      PROVE  TypeOK' /\ Base'
  <2>1. FlagsOK'
    BY <1>18, Zenon DEF SaveSnapshot, FlagsOK, TypeOK
  <2>2. TypeOK'
    BY <1>18, <2>1 DEF SaveSnapshot, Return, Unlock, PutSnapshot, TypeOK, Base
  <2>3. Base'
    BY <1>18 DEF SaveSnapshot, Return, Unlock, PutSnapshot, TypeOK, Base
  <2>4. QED
    BY <2>2, <2>3, Zenon
<1>19. ASSUME NEW w \in Worker, SnapshotFails(w)
      PROVE  TypeOK' /\ Base'
  <2>1. FlagsOK'
    BY <1>19, Zenon DEF SnapshotFails, FlagsOK, TypeOK
  <2>2. TypeOK'
    BY <1>19, <2>1, Zenon DEF SnapshotFails, Return, Unlock, TypeOK
  <2>3. Base'
    BY <1>19 DEF SnapshotFails, Return, Unlock, TypeOK, Base
  <2>4. QED
    BY <2>2, <2>3, Zenon
<1>20. ASSUME NEW w \in Worker, Export(w)
      PROVE  TypeOK' /\ Base'
  <2>1. FlagsOK'
    BY <1>20, Zenon DEF Export, FlagsOK, TypeOK
  <2>2. TypeOK'
    BY <1>20, <2>1, Zenon DEF Export, Goto, TypeOK, Base
  <2>3. Base'
    BY <1>20 DEF Export, Goto, TypeOK, Base
  <2>4. QED
    BY <2>2, <2>3, Zenon
<1>21. ASSUME NEW w \in Worker, Reply(w)
      PROVE  TypeOK' /\ Base'
  <2>1. FlagsOK'
    BY <1>21, Zenon DEF Reply, FlagsOK, TypeOK
  <2>2. TypeOK'
    BY <1>21, <2>1, Zenon DEF Reply, Return, TypeOK
  <2>3. Base'
    BY <1>21 DEF Reply, Return, TypeOK, Base
  <2>4. QED
    BY <2>2, <2>3, Zenon
<1>22. ASSUME NEW w \in Worker, Forget(w)
      PROVE  TypeOK' /\ Base'
  <2>1. FlagsOK'
    BY <1>22, Zenon DEF Forget, FlagsOK, TypeOK
  <2>2. TypeOK'
    BY <1>22, <2>1, Zenon DEF Forget, Return, TypeOK
  <2>3. Base'
    BY <1>22, Zenon DEF Forget, Return, TypeOK, Base
  <2>4. QED
    BY <2>2, <2>3, Zenon
<1>30. ASSUME NEW n \in Node, Crash(n)
       PROVE  TypeOK' /\ Base'
  <2>1. FlagsOK'
    BY <1>30, Zenon DEF Crash, FlagsOK, TypeOK
  <2>2. QED
    BY <1>30, <2>1, Zenon DEF Crash, Busy, TypeOK, Base
<1>31. CASE UNCHANGED vars
  <2>1. FlagsOK'
    BY <1>31, Zenon DEF vars, FlagsOK, TypeOK
  <2>2. QED
    BY <1>31, <2>1, Zenon DEF vars, TypeOK, Base
<1>32. QED
  <2>1. QED
    BY <1>1, <1>2, <1>3, <1>4, <1>5, <1>6, <1>7, <1>8, <1>9, <1>10, <1>11, <1>12, <1>13, <1>14, <1>15, <1>16, <1>17, <1>18, <1>19, <1>20, <1>21, <1>22, <1>29, <1>30, <1>31, Zenon
    DEF Next, Arrive, Step

\* Every reachable state of the engine is well typed (engine.go:40-59).
THEOREM TypeCorrect == Spec => []TypeOK
<1>1. QED
  BY InitTyped, StepTyped, PTL DEF Spec
----------------------------------------------------------------------------
(* What a step of one worker leaves alone.                                 *)

Others(w) ==
    \A v \in Worker \ {w} :
        /\ pc'[v] = pc[v] /\ req'[v] = req[v] /\ st'[v] = st[v]
        /\ loaded'[v] = loaded[v] /\ seq'[v] = seq[v] /\ floor'[v] = floor[v]

Moves(w) ==
    /\ pc[w] # "idle"
    /\ pc'[w] # "forget"
    /\ pc'[w] # "idle" => req'[w] = req[w] /\ floor'[w] = floor[w]
    /\ Others(w)

\* A worker inside a request changes no other worker's locals, and leaves its
\* request alone until it returns (engine.go:96-280).
LEMMA StepMoves ==
    ASSUME TypeOK, NEW w \in Worker, Step(w)
    PROVE  Moves(w) /\ raced' = raced
<1>1. raced' = raced
  BY Zenon DEF Step, historyVars, Lookup, GetSnapshot, GetOpsSince, LoadFails,
     Install, LockAndApply, ApplyFails, AppendOp, AppendFails, AfterCommit,
     Broadcast, LockForSnapshot, GetLatestSeq, SaveSnapshot, SnapshotFails,
     Export, Reply, Forget
<1> USE DEF TypeOK, Moves, Others, Goto, Return
<1>2. Lookup(w) => Moves(w)
  BY Zenon DEF Lookup
<1>3. GetSnapshot(w) => Moves(w)
  BY Zenon DEF GetSnapshot
<1>4. GetOpsSince(w) => Moves(w)
  BY Zenon DEF GetOpsSince
<1>5. LoadFails(w) => Moves(w)
  BY DEF LoadFails
<1>6. Install(w) => Moves(w)
  BY Zenon DEF Install
<1>7. LockAndApply(w) => Moves(w)
  BY Zenon DEF LockAndApply
<1>8. ApplyFails(w) => Moves(w)
  BY DEF ApplyFails
<1>9. AppendOp(w) => Moves(w)
  BY Zenon DEF AppendOp
<1>10. AppendFails(w) => Moves(w)
  BY DEF AppendFails
<1>11. AfterCommit(w) => Moves(w)
  BY Zenon DEF AfterCommit
<1>12. Broadcast(w) => Moves(w)
  BY Zenon DEF Broadcast
<1>13. LockForSnapshot(w) => Moves(w)
  BY Zenon DEF LockForSnapshot
<1>14. GetLatestSeq(w) => Moves(w)
  BY Zenon DEF GetLatestSeq
<1>15. SaveSnapshot(w) => Moves(w)
  BY Zenon DEF SaveSnapshot
<1>16. SnapshotFails(w) => Moves(w)
  BY Zenon DEF SnapshotFails
<1>17. Export(w) => Moves(w)
  BY Zenon DEF Export
<1>18. Reply(w) => Moves(w)
  BY Zenon DEF Reply
<1>19. Forget(w) => Moves(w)
  BY Zenon DEF Forget
<1>30. QED
  BY <1>1, <1>2, <1>3, <1>4, <1>5, <1>6, <1>7, <1>8, <1>9, <1>10, <1>11, <1>12, <1>13, <1>14, <1>15, <1>16, <1>17, <1>18, <1>19, Zenon DEF Step

\* An arriving request touches no other worker and no process's memory, and
\* overlaps with a DELETE only if the flag says so (documents.go:106-182).
LEMMA ArriveMoves ==
    ASSUME TypeOK, NEW w \in Worker, Arrive(w)
    PROVE  /\ pc[w] = "idle" /\ st'[w] = st[w] /\ Others(w)
           /\ UNCHANGED <<docs, doc, mu, failed>>
           /\ floor'[w] = acked
           /\ \/ /\ pc'[w] = "state"
                 /\ ~raced' => ~raced /\ \A v \in Worker : pc[v] # "forget"
                 /\ UNCHANGED <<ops, snaps, acked, lastSent, created>>
              \/ /\ pc'[w] = "forget"
                 /\ ~raced' => ~raced /\ \A v \in Worker \ {w} : pc[v] = "idle"
                 /\ ops' = <<>> /\ snaps' = {} /\ acked' = {} /\ created' = 0
                 /\ lastSent' = [m \in Node |-> 0]
<1> USE DEF TypeOK, Others, Begin, storeVars, memoryVars, Busy
<1>1. ASSUME NEW n \in Node, NEW c \in Change, CallSubmit(w, n, c)
      PROVE  /\ pc[w] = "idle" /\ st'[w] = st[w] /\ Others(w)
             /\ UNCHANGED <<docs, doc, mu, failed>>
             /\ floor'[w] = acked
             /\ pc'[w] = "state"
             /\ UNCHANGED <<ops, snaps, acked, lastSent, created>>
  BY <1>1, Zenon DEF CallSubmit
<1>2. ASSUME NEW n \in Node, NEW api \in {"Snapshot", "Export"},
             CallRead(w, n, api)
      PROVE  /\ pc[w] = "idle" /\ st'[w] = st[w] /\ Others(w)
             /\ UNCHANGED <<docs, doc, mu, failed>>
             /\ floor'[w] = acked
             /\ pc'[w] = "state"
             /\ UNCHANGED <<ops, snaps, acked, lastSent, created>>
  BY <1>2, Zenon DEF CallRead
<1>3. ASSUME NEW n \in Node, CallDelete(w, n)
      PROVE  /\ pc[w] = "idle" /\ st'[w] = st[w] /\ Others(w)
             /\ UNCHANGED <<docs, doc, mu, failed>>
             /\ floor'[w] = acked
             /\ pc'[w] = "forget"
             /\ ops' = <<>> /\ snaps' = {} /\ acked' = {} /\ created' = 0
             /\ lastSent' = [m \in Node |-> 0]
  BY <1>3, Zenon DEF CallDelete
<1>4. ASSUME NEW n \in Node, NEW c \in Change, CallSubmit(w, n, c), ~raced'
      PROVE  ~raced /\ \A v \in Worker : pc[v] # "forget"
  BY <1>4, Zenon DEF CallSubmit
<1>5. ASSUME NEW n \in Node, NEW api \in {"Snapshot", "Export"},
             CallRead(w, n, api), ~raced'
      PROVE  ~raced /\ \A v \in Worker : pc[v] # "forget"
  BY <1>5, Zenon DEF CallRead
<1>6. ASSUME NEW n \in Node, CallDelete(w, n), ~raced'
      PROVE  ~raced /\ \A v \in Worker \ {w} : pc[v] = "idle"
  BY <1>6, Zenon DEF CallDelete
<1> HIDE DEF TypeOK, Others, Begin, storeVars, memoryVars, Busy
<1>7. CASE \E n \in Node, c \in Change : CallSubmit(w, n, c)
  BY <1>1, <1>4, <1>7, Zenon
<1>8. CASE \E n \in Node, api \in {"Snapshot", "Export"} : CallRead(w, n, api)
  BY <1>2, <1>5, <1>8, Zenon
<1>9. CASE \E n \in Node : CallDelete(w, n)
  BY <1>3, <1>6, <1>9, Zenon
<1>10. QED
  BY <1>7, <1>8, <1>9, Zenon DEF Arrive

\* A DELETE that is reported as failed empties the storage and nothing else.
LEMMA DeleteMoves ==
    ASSUME DeleteFails
    PROVE  /\ UNCHANGED <<docs, doc, mu, pc, req, st, loaded, seq, floor>>
           /\ exists /\ exists' = FALSE
           /\ ops' = <<>> /\ snaps' = {} /\ acked' = {} /\ created' = 0
           /\ lastSent' = [m \in Node |-> 0]
           /\ failed' = failed \cup Content(ops)
           /\ ~raced' => ~raced /\ \A v \in Worker : pc[v] = "idle"
<1>1. ~raced' => ~raced /\ \A v \in Worker : pc[v] = "idle"
  BY Zenon DEF DeleteFails, Busy
<1>2. QED
  BY <1>1, Zenon DEF DeleteFails, memoryVars, workerVars
----------------------------------------------------------------------------
(* Without an overlapping DELETE.                                          *)

\* A DELETE that has not called Forget yet is alone.
ForgetAlone ==
    \A v, w \in Worker : pc[w] = "forget" /\ v # w => pc[v] = "idle"

\* Every docState in use is the one its process caches.
OneDocState ==
    /\ \A w \in Worker : st[w] # Nil => st[w] = docs[req[w].node]
    /\ \A m, n \in Node : docs[m] = docs[n] /\ docs[m] # Nil => m = n

\* The seq of a commit is in the log and has not been broadcast.
SeqFresh ==
    /\ \A n \in Node : lastSent[n] <= Len(ops)
    /\ \A w \in Worker : pc[w] \in Committed =>
         /\ seq[w] \in 1..Len(ops)
         /\ lastSent[req[w].node] < seq[w]
         /\ req[w].change \in Content(ops)
    /\ \A v, w \in Worker :
         pc[v] \in Committed /\ pc[w] \in Committed /\ v # w => seq[v] # seq[w]
    /\ \A w \in Worker : pc[w] = "save" => seq[w] <= Len(ops)
    /\ acked \subseteq Content(ops)

CreatedInv ==
    /\ created <= 1
    /\ created = 1 => Len(ops) >= 1
    /\ created = 1 => \A w \in Worker : pc[w] = "committed" => seq[w] # 1

Orderly == ForgetAlone /\ OneDocState /\ SeqFresh /\ CreatedInv

Quiet == ~raced => Orderly
----------------------------------------------------------------------------
(* Quiet: one docState per process, and fresh sequence numbers.            *)

\* A pending DELETE stays alone while another worker steps: it cannot step.
LEMMA ForgetAloneStep ==
    ASSUME NEW w \in Worker, Moves(w), ForgetAlone
    PROVE  ForgetAlone'
BY DEF Moves, Others, ForgetAlone

\* A step that neither fills the cache nor picks up a docState keeps pointers
\* and caches in agreement (engine.go:198-220).
LEMMA OneDocStateFrame ==
    ASSUME NEW w \in Worker, Moves(w), OneDocState, docs' = docs,
           st'[w] = Nil \/ (st'[w] = st[w] /\ pc'[w] # "idle")
    PROVE  OneDocState'
BY DEF Moves, Others, OneDocState

\* A step that commits, counts and broadcasts nothing keeps the sequence
\* numbers fresh (engine.go:109-143).
LEMMA SeqFreshFrame ==
    ASSUME NEW w \in Worker, Moves(w), SeqFresh,
           UNCHANGED <<ops, lastSent, acked>>,
           pc'[w] \in Committed => pc[w] \in Committed /\ seq'[w] = seq[w],
           pc'[w] # "save"
    PROVE  SeqFresh'
<1> USE DEF Moves, Others, SeqFresh, Committed
<1>1. (\A n \in Node : lastSent[n] <= Len(ops))'
  BY Zenon
<1>2. \A v \in Worker : pc'[v] \in Committed =>
         pc[v] \in Committed /\ seq'[v] = seq[v] /\ req'[v] = req[v]
  BY Zenon
<1>3. \A v \in Worker : pc'[v] = "save" => pc[v] = "save" /\ seq'[v] = seq[v]
  BY Zenon
<1>4. QED
  BY <1>1, <1>2, <1>3

\* Arithmetic of log lengths.
LEMMA Longer ==
    /\ \A x, a, b \in Nat : x <= a /\ a <= b => x <= b
    /\ \A a, b \in Nat : a <= b => \A x \in 1..a : x \in 1..b
    /\ \A a, b \in Nat : \A x \in 1..a : \A y \in 1..b : a < y => x # y
    /\ \A a \in Nat : /\ a <= a /\ a <= a + 1 /\ a < a + 1 /\ a + 1 \in 1..(a + 1)
                      /\ \A x \in Nat : x <= a => x < a + 1
                      /\ \A x \in 1..a : x <= a
OBVIOUS

\* A log that grew keeps them fresh, and so does a commit at its end
\* (engine.go:115-119).
LEMMA SeqFreshGrows ==
    ASSUME NEW w \in Worker, Moves(w), SeqFresh,
           Len(ops) \in Nat, Len(ops') \in Nat, Len(ops) <= Len(ops'),
           Content(ops) \subseteq Content(ops'),
           \A n \in Node : lastSent[n] \in Nat, \A v \in Worker : seq[v] \in Nat,
           lastSent' = lastSent, acked' = acked, pc'[w] # "save",
           pc'[w] \in Committed =>
               /\ seq'[w] \in 1..Len(ops') /\ Len(ops) < seq'[w]
               /\ lastSent[req'[w].node] < seq'[w]
               /\ req'[w].change \in Content(ops')
    PROVE  SeqFresh'
<1>1. \A v \in Worker \ {w} : pc'[v] = pc[v] /\ req'[v] = req[v] /\ seq'[v] = seq[v]
  BY Zenon DEF Moves, Others
<1>2. ASSUME NEW n \in Node PROVE lastSent[n] <= Len(ops')
  <2>1. lastSent[n] <= Len(ops)
    BY Zenon DEF SeqFresh
  <2>2. QED
    BY <2>1, Longer, Zenon
<1>3. ASSUME NEW v \in Worker \ {w}, pc[v] \in Committed
      PROVE  /\ seq[v] \in 1..Len(ops) /\ seq[v] \in 1..Len(ops')
             /\ lastSent[req[v].node] < seq[v]
             /\ req[v].change \in Content(ops')
  <2>1. /\ seq[v] \in 1..Len(ops) /\ lastSent[req[v].node] < seq[v]
        /\ req[v].change \in Content(ops)
    BY <1>3, Zenon DEF SeqFresh
  <2>2. QED
    BY <2>1, Longer, Zenon
<1>4. \A v \in Worker : pc'[v] \in Committed =>
         /\ seq'[v] \in 1..Len(ops')
         /\ lastSent[req'[v].node] < seq'[v]
         /\ req'[v].change \in Content(ops')
  BY <1>1, <1>3, Zenon
<1>5. \A u, v \in Worker :
         pc'[u] \in Committed /\ pc'[v] \in Committed /\ u # v => seq'[u] # seq'[v]
  <2>1. ASSUME NEW v \in Worker \ {w}, pc'[w] \in Committed, pc'[v] \in Committed
        PROVE  seq'[w] # seq'[v]
    <3>1. seq'[v] = seq[v] /\ seq[v] \in 1..Len(ops)
      BY <1>1, <1>3, <2>1, Zenon
    <3>2. QED
      BY <2>1, <3>1, Longer, Zenon
  <2>2. ASSUME NEW u \in Worker \ {w}, NEW v \in Worker \ {w},
               pc'[u] \in Committed, pc'[v] \in Committed, u # v
        PROVE  seq'[u] # seq'[v]
    <3>1. seq[u] # seq[v]
      BY <1>1, <2>2, Zenon DEF SeqFresh
    <3>2. QED
      BY <1>1, <3>1, Zenon
  <2>3. QED
    BY <2>1, <2>2, Zenon
<1>6. ASSUME NEW v \in Worker, pc'[v] = "save" PROVE seq'[v] <= Len(ops')
  <2>1. v # w /\ pc[v] = "save" /\ seq'[v] = seq[v]
    BY <1>1, <1>6, Zenon
  <2>2. seq[v] <= Len(ops)
    BY <2>1, Zenon DEF SeqFresh
  <2>3. QED
    BY <2>1, <2>2, Longer, Zenon
<1>7. acked \subseteq Content(ops')
  BY Zenon DEF SeqFresh
<1>8. QED
  BY <1>2, <1>4, <1>5, <1>6, <1>7, Zenon DEF SeqFresh

\* Steps that commit nothing leave the on_document_created count right
\* (engine.go:121-127).
LEMMA CreatedFrame ==
    ASSUME NEW w \in Worker, Moves(w), CreatedInv, created' = created,
           Len(ops') >= Len(ops), Len(ops) \in Nat, Len(ops') \in Nat,
           pc'[w] # "committed"
    PROVE  CreatedInv'
<1>1. \A v \in Worker : pc'[v] = "committed" => pc[v] = "committed" /\ seq'[v] = seq[v]
  BY Zenon DEF Moves, Others
<1>2. QED
  BY <1>1 DEF CreatedInv

\* Worker w neither fills the cache, commits, counts nor broadcasts.
Still(w) ==
    /\ docs' = docs
    /\ st'[w] = Nil \/ (st'[w] = st[w] /\ pc'[w] # "idle")
    /\ UNCHANGED <<ops, lastSent, acked, created>>
    /\ pc'[w] \notin {"committed", "broadcast", "save"}

\* The reads of loadDoc, taking a mutex and every return but those of Submit and
\* Forget are such steps (engine.go:104-114, 224-272).
LEMMA StillSteps ==
    ASSUME TypeOK, NEW w \in Worker,
           \/ GetSnapshot(w) \/ GetOpsSince(w) \/ LoadFails(w) \/ LockAndApply(w)
           \/ ApplyFails(w) \/ LockForSnapshot(w) \/ SaveSnapshot(w)
           \/ SnapshotFails(w) \/ Export(w) \/ Reply(w)
    PROVE  Still(w)
<1> USE DEF TypeOK, Still, Goto, Return, storeVars, memoryVars, historyVars
<1>1. GetSnapshot(w) => Still(w)
  BY Zenon DEF GetSnapshot
<1>2. GetOpsSince(w) => Still(w)
  BY Zenon DEF GetOpsSince
<1>3. LoadFails(w) => Still(w)
  BY Zenon DEF LoadFails
<1>4. LockAndApply(w) => Still(w)
  BY Zenon DEF LockAndApply
<1>5. ApplyFails(w) => Still(w)
  BY Zenon DEF ApplyFails
<1>6. LockForSnapshot(w) => Still(w)
  BY Zenon DEF LockForSnapshot
<1>7. SaveSnapshot(w) => Still(w)
  BY Zenon DEF SaveSnapshot
<1>8. SnapshotFails(w) => Still(w)
  BY Zenon DEF SnapshotFails
<1>9. Export(w) => Still(w)
  BY Zenon DEF Export
<1>10. Reply(w) => Still(w)
  BY Zenon DEF Reply
<1> HIDE DEF TypeOK, Still, Goto, Return, storeVars, memoryVars, historyVars
<1>11. QED
  BY <1>1, <1>2, <1>3, <1>4, <1>5, <1>6, <1>7, <1>8, <1>9, <1>10, Zenon

\* They keep one docState per process and the sequence numbers fresh.
LEMMA OrderlyStill ==
    ASSUME NEW w \in Worker, Moves(w), Still(w), Orderly, Len(ops) \in Nat
    PROVE  Orderly'
<1>1. ForgetAlone'
  BY ForgetAloneStep, Zenon DEF Orderly
<1>2. OneDocState'
  BY OneDocStateFrame, Zenon DEF Orderly, Still
<1>3. SeqFresh'
  BY SeqFreshFrame, Zenon DEF Orderly, Still, Committed
<1>4. CreatedInv'
  <2>1. Len(ops') = Len(ops)
    BY Zenon DEF Still
  <2>2. QED
    BY <2>1, CreatedFrame DEF Orderly, Still
<1>5. QED
  BY <1>1, <1>2, <1>3, <1>4, Zenon DEF Orderly

\* Every step inside a request keeps one docState per process and the
\* sequence numbers fresh (engine.go:96-280).
LEMMA OrderlyStep ==
    ASSUME TypeOK, Base, Orderly, NEW w \in Worker, Step(w)
    PROVE  Orderly'
<1>1. Moves(w)
  BY StepMoves, Zenon
<1>2. ForgetAlone'
  BY <1>1, ForgetAloneStep, Zenon DEF Orderly
<1>3. /\ Len(ops) \in Nat /\ created \in Nat
      /\ lastSent \in [Node -> Nat] /\ seq \in [Worker -> Nat]
  BY DEF TypeOK
<1>4. req[w] \in Request
  BY <1>1, Zenon DEF Moves, Base, CallAt
<1>5. req[w].node \in Node /\ (req[w].call = "Submit" => req[w].change \in Change)
  BY <1>4, RequestFields, Zenon
<1>6. CASE Still(w)
  BY <1>1, <1>3, <1>6, OrderlyStill, Zenon
<1>7. ASSUME Lookup(w)
      PROVE  Orderly'
  <2>1. /\ docs' = docs /\ pc'[w] # "idle" /\ req'[w] = req[w]
        /\ st'[w] = Nil \/ st'[w] = docs[req[w].node] \/ st'[w] = st[w]
        /\ UNCHANGED <<ops, lastSent, acked, created>>
        /\ pc'[w] \notin {"committed", "broadcast", "save"}
    BY <1>7, Zenon DEF TypeOK, Lookup, Goto, storeVars, memoryVars, historyVars
  <2>2. OneDocState'
    <3>1. \A v \in Worker \ {w} : st'[v] = st[v] /\ req'[v] = req[v]
      BY <1>1, Zenon DEF Moves, Others
    <3>2. \A v \in Worker : st'[v] # Nil => st'[v] = docs[req'[v].node]
      BY <2>1, <3>1, Zenon DEF OneDocState, Orderly
    <3>3. QED
      BY <2>1, <3>2, Zenon DEF OneDocState, Orderly
  <2>3. SeqFresh'
    BY <1>1, <2>1, SeqFreshFrame, Zenon DEF Orderly, Committed
  <2>4. CreatedInv'
    BY <1>1, <1>3, <2>1, CreatedFrame DEF Orderly
  <2>5. QED
    BY <1>2, <2>2, <2>3, <2>4, Zenon DEF Orderly
<1>8. ASSUME Install(w)
      PROVE  Orderly'
  <2>1. OneDocState'
    <3>1. pc'[w] # "idle" /\ req'[w] = req[w]
      BY <1>8, Zenon DEF Install, Goto, TypeOK
    <3>2. \A v \in Worker \ {w} : st'[v] = st[v] /\ req'[v] = req[v]
      BY <1>1, Zenon DEF Moves, Others
    <3>3. \A v \in Worker : st[v] # Nil => st[v] = docs[req[v].node]
      BY Zenon DEF OneDocState, Orderly
    <3>4. CASE docs[req[w].node] # Nil
      <4>1. docs' = docs /\ st'[w] = docs[req[w].node]
        BY <1>8, <3>4, Zenon DEF Install, TypeOK
      <4>2. \A v \in Worker \ {w} : st'[v] # Nil => st'[v] = docs[req'[v].node]
        BY <3>2, <3>3, Zenon
      <4>3. \A m, n \in Node : docs[m] = docs[n] /\ docs[m] # Nil => m = n
        BY Zenon DEF OneDocState, Orderly
      <4>4. QED
        BY <3>1, <4>1, <4>2, <4>3, Zenon DEF OneDocState
    <3>5. CASE docs[req[w].node] = Nil
      <4>1. PICK o \in DocState :
                /\ \A m \in Node : docs[m] # o
                /\ docs' = [docs EXCEPT ![req[w].node] = o]
                /\ st' = [st EXCEPT ![w] = o]
        BY <1>8, <3>5, Zenon DEF Install
      <4>2. \A v \in Worker \ {w} : st'[v] # Nil =>
                /\ st'[v] = docs[req[v].node]
                /\ req[v].node # req[w].node
        BY <3>2, <3>3, <3>5, Zenon
      <4>3. \A v \in Worker \ {w} : st'[v] # Nil => req[v].node \in Node
        <5>1. ASSUME NEW v \in Worker \ {w}, st'[v] # Nil
              PROVE  req[v].node \in Node
          <6>1. st[v] # Nil
            BY <1>1, <5>1, Zenon DEF Moves, Others
          <6>2. req[v] \in Request
            BY <6>1, Zenon DEF Base, CallAt
          <6>3. QED
            BY <6>2, RequestFields, Zenon
        <5>2. QED
          BY <5>1, Zenon
      <4>4. \A v \in Worker : st'[v] # Nil => st'[v] = docs'[req'[v].node]
        BY <1>1, <1>5, <3>1, <4>1, <4>2, <4>3 DEF Moves, Others, TypeOK
      <4>5. \A m, n \in Node : docs'[m] = docs'[n] /\ docs'[m] # Nil => m = n
        BY <1>5, <4>1, Zenon DEF OneDocState, Orderly, TypeOK
      <4>6. QED
        BY <4>4, <4>5, Zenon DEF OneDocState
    <3>6. QED
      BY <3>4, <3>5, Zenon
  <2>2. /\ UNCHANGED <<ops, lastSent, acked, created>>
        /\ pc'[w] \notin {"committed", "broadcast", "save"}
    BY <1>8, Zenon DEF TypeOK, Install, Goto, storeVars, historyVars
  <2>3. SeqFresh'
    BY <1>1, <2>2, SeqFreshFrame, Zenon DEF Orderly, Committed
  <2>4. CreatedInv'
    BY <1>1, <1>3, <2>2, CreatedFrame DEF Orderly
  <2>5. QED
    BY <1>2, <2>1, <2>3, <2>4, Zenon DEF Orderly
<1>9. ASSUME Forget(w)
      PROVE  Orderly'
  <2>1. /\ pc[w] = "forget" /\ pc'[w] = "idle" /\ st'[w] = Nil
        /\ docs' = [docs EXCEPT ![req[w].node] = Nil]
        /\ UNCHANGED <<ops, lastSent, acked, created>>
    BY <1>9, Zenon DEF TypeOK, Forget, Return, storeVars, historyVars
  <2>2. OneDocState'
    <3>1. \A v \in Worker \ {w} : pc[v] = "idle"
      BY <2>1, Zenon DEF Orderly, ForgetAlone
    <3>2. \A v \in Worker : st'[v] = Nil
      BY <1>1, <2>1, <3>1, Zenon DEF Moves, Others, Base, CallAt
    <3>3. \A m, n \in Node : docs'[m] = docs'[n] /\ docs'[m] # Nil => m = n
      BY <1>5, <2>1, Zenon DEF OneDocState, Orderly, TypeOK
    <3>4. QED
      BY <3>2, <3>3, Zenon DEF OneDocState
  <2>3. SeqFresh'
    BY <1>1, <2>1, SeqFreshFrame, Zenon DEF Orderly, Committed
  <2>4. CreatedInv'
    BY <1>1, <1>3, <2>1, CreatedFrame DEF Orderly
  <2>5. QED
    BY <1>2, <2>2, <2>3, <2>4, Zenon DEF Orderly
<1>10. ASSUME GetLatestSeq(w)
      PROVE  Orderly'
  <2>1. /\ UNCHANGED <<docs, ops, lastSent, acked, created>>
        /\ pc'[w] = "save" /\ seq'[w] = Len(ops) /\ st'[w] = st[w]
    BY <1>10, Zenon DEF TypeOK, GetLatestSeq, Goto, storeVars, memoryVars, historyVars
  <2>2. OneDocState'
    BY <1>1, <2>1, OneDocStateFrame, Zenon DEF Orderly
  <2>3. SeqFresh'
    <3>1. \A v \in Worker : pc'[v] \in Committed =>
             pc[v] \in Committed /\ seq'[v] = seq[v] /\ req'[v] = req[v]
      BY <1>1, <2>1, Zenon DEF Moves, Others, Committed
    <3>2. \A v \in Worker : pc'[v] = "save" => seq'[v] <= Len(ops)
      <4>1. Len(ops) <= Len(ops)
        BY <1>3, Longer, Zenon
      <4>2. \A v \in Worker \ {w} : pc'[v] = pc[v] /\ seq'[v] = seq[v]
        BY <1>1, Zenon DEF Moves, Others
      <4>3. QED
        BY <2>1, <4>1, <4>2, Zenon DEF SeqFresh, Orderly
    <3>3. QED
      BY <2>1, <3>1, <3>2, Zenon DEF SeqFresh, Orderly
  <2>4. CreatedInv'
    BY <1>1, <1>3, <2>1, CreatedFrame DEF Orderly
  <2>5. QED
    BY <1>2, <2>2, <2>3, <2>4, Zenon DEF Orderly
<1>11. ASSUME AppendOp(w)
      PROVE  Orderly'
  <2>1. /\ docs' = docs /\ st'[w] = st[w] /\ ops' = Append(ops, req[w].change)
        /\ UNCHANGED <<lastSent, acked, created>>
        /\ pc'[w] = "committed" /\ seq'[w] = Len(ops) + 1 /\ req'[w] = req[w]
    BY <1>11, Zenon DEF TypeOK, AppendOp, Goto, memoryVars, historyVars
  <2>2. req[w].change \in Change
    BY <1>11, <1>5, Zenon DEF AppendOp, Base, CallAt
  <2>3. OneDocState'
    BY <1>1, <2>1, OneDocStateFrame, Zenon DEF Orderly
  <2>4. /\ Len(ops') = Len(ops) + 1
        /\ Content(ops') = Content(ops) \cup {req[w].change}
    BY <2>1, <2>2, AppendContent, Zenon DEF TypeOK
  <2>5. SeqFresh'
    <3>1. \A n \in Node : lastSent[n] <= Len(ops) /\ lastSent[n] \in Nat
      BY <1>3, Zenon DEF Orderly, SeqFresh
    <3>2. /\ Len(ops') \in Nat /\ Len(ops) <= Len(ops')
          /\ seq'[w] \in 1..Len(ops') /\ Len(ops) < seq'[w]
          /\ lastSent[req[w].node] < seq'[w]
      <4>1. Len(ops) + 1 \in Nat
        BY <1>3
      <4>2. Len(ops) <= Len(ops) + 1 /\ Len(ops) < Len(ops) + 1 /\ Len(ops) + 1 \in 1..(Len(ops) + 1)
        BY <1>3, Longer, Zenon
      <4>3. lastSent[req[w].node] < Len(ops) + 1
        BY <1>3, <1>5, <3>1, Longer, Zenon
      <4>4. QED
        BY <2>1, <2>4, <4>1, <4>2, <4>3, Zenon
    <3>3. req'[w].change \in Content(ops') /\ Content(ops) \subseteq Content(ops')
      BY <2>1, <2>4, Zenon
    <3>4. pc'[w] # "save" /\ \A v \in Worker : seq[v] \in Nat
      BY <1>3, <2>1, Zenon
    <3>5. SeqFresh
      BY Zenon DEF Orderly
    <3>6. QED
      BY <1>1, <1>3, <2>1, <3>1, <3>2, <3>3, <3>4, <3>5, SeqFreshGrows, Zenon
  <2>6. CreatedInv'
    <3>1. \A v \in Worker \ {w} : pc'[v] = pc[v] /\ seq'[v] = seq[v]
      BY <1>1, Zenon DEF Moves, Others
    <3>2. created = 1 => seq'[w] # 1
      BY <1>3, <2>1 DEF Orderly, CreatedInv
    <3>3. QED
      <4>1. created' = created /\ Len(ops') >= Len(ops)
        BY <1>3, <2>1, <2>4
      <4>2. created' <= 1 /\ (created' = 1 => Len(ops') >= 1)
        BY <1>3, <2>4, <4>1 DEF Orderly, CreatedInv
      <4>3. created' = 1 => \A v \in Worker : pc'[v] = "committed" => seq'[v] # 1
        BY <3>1, <3>2, <4>1, Zenon DEF Orderly, CreatedInv
      <4>4. QED
        BY <4>2, <4>3, Zenon DEF CreatedInv
  <2>7. QED
    BY <1>2, <2>3, <2>5, <2>6, Zenon DEF Orderly
<1>12. ASSUME AppendFails(w)
      PROVE  Orderly'
  <2>1. /\ docs' = docs /\ st'[w] = Nil /\ pc'[w] = "idle"
        /\ UNCHANGED <<lastSent, acked, created>>
    BY <1>12, Zenon DEF TypeOK, AppendFails, Return
  <2>2. req[w].change \in Change
    BY <1>12, <1>5, Zenon DEF AppendFails, Base, CallAt
  <2>3. ops' = ops \/ ops' = Append(ops, req[w].change)
    BY <1>12, Zenon DEF AppendFails
  <2>4. /\ Len(ops') \in Nat /\ Len(ops) <= Len(ops')
        /\ Content(ops) \subseteq Content(ops')
    <3>1. /\ Len(Append(ops, req[w].change)) = Len(ops) + 1
          /\ Content(Append(ops, req[w].change)) = Content(ops) \cup {req[w].change}
      BY <2>2, AppendContent, Zenon DEF TypeOK
    <3>2. CASE ops' = ops
      BY <1>3, <3>2
    <3>3. CASE ops' = Append(ops, req[w].change)
      BY <1>3, <3>1, <3>3
    <3>4. QED
      BY <2>3, <3>2, <3>3, Zenon
  <2>5. OneDocState'
    BY <1>1, <2>1, OneDocStateFrame, Zenon DEF Orderly
  <2>6. SeqFresh'
    <3>1. \A n \in Node : lastSent[n] \in Nat
      BY <1>3, Zenon
    <3>2. pc'[w] \notin Committed /\ pc'[w] # "save" /\ \A v \in Worker : seq[v] \in Nat
      BY <1>3, <2>1, Zenon DEF Committed
    <3>3. SeqFresh
      BY Zenon DEF Orderly
    <3>4. QED
      BY <1>1, <1>3, <2>1, <2>4, <3>1, <3>2, <3>3, SeqFreshGrows, Zenon
  <2>7. CreatedInv'
    BY <1>1, <1>3, <2>1, <2>4, CreatedFrame, Zenon DEF Orderly
  <2>8. QED
    BY <1>2, <2>5, <2>6, <2>7, Zenon DEF Orderly
<1>13. ASSUME AfterCommit(w)
      PROVE  Orderly'
  <2>1. /\ UNCHANGED <<docs, ops, lastSent, acked>>
        /\ st'[w] = st[w] /\ seq'[w] = seq[w]
        /\ pc[w] = "committed" /\ pc'[w] = "broadcast"
        /\ created' = IF seq[w] = 1 THEN created + 1 ELSE created
    BY <1>13, Zenon DEF TypeOK, AfterCommit, Goto, FirstOp, memoryVars
  <2>2. OneDocState'
    BY <1>1, <2>1, OneDocStateFrame, Zenon DEF Orderly
  <2>3. SeqFresh'
    <3>1. pc[w] \in Committed /\ pc'[w] # "save"
      BY <2>1, Zenon DEF Committed
    <3>2. QED
      BY <1>1, <2>1, <3>1, SeqFreshFrame, Zenon DEF Orderly
  <2>4. CreatedInv'
    <3>1. /\ seq[w] \in 1..Len(ops)
          /\ \A v \in Worker \ {w} : pc[v] = "committed" => seq[v] # seq[w]
      BY <2>1, Zenon DEF Orderly, SeqFresh, Committed
    <3>2. \A v \in Worker : pc'[v] = "committed" =>
             v # w /\ pc[v] = "committed" /\ seq'[v] = seq[v]
      BY <1>1, <2>1, Zenon DEF Moves, Others
    <3>3. QED
      BY <1>3, <2>1, <3>1, <3>2 DEF Orderly, CreatedInv
  <2>5. QED
    BY <1>2, <2>2, <2>3, <2>4, Zenon DEF Orderly
<1>14. ASSUME Broadcast(w)
      PROVE  Orderly'
  <2>1. /\ docs' = docs /\ ops' = ops /\ created' = created /\ st'[w] = Nil
        /\ pc[w] = "broadcast" /\ pc'[w] = "idle"
        /\ lastSent' = [lastSent EXCEPT ![req[w].node] = seq[w]]
        /\ acked' = acked \cup {req[w].change}
    BY <1>14, Zenon DEF TypeOK, Broadcast, Return, storeVars
  <2>2. OneDocState'
    BY <1>1, <2>1, OneDocStateFrame, Zenon DEF Orderly
  <2>3. SeqFresh'
    <3>1. seq[w] \in 1..Len(ops) /\ req[w].change \in Content(ops)
      BY <2>1, Zenon DEF Orderly, SeqFresh, Committed
    <3>2. \A v \in Worker \ {w} : pc[v] \in Committed => req[v].node # req[w].node
      <4>1. ASSUME NEW v \in Worker \ {w}, pc[v] \in Committed, req[v].node = req[w].node
            PROVE  FALSE
        <5>1. mu[st[v]] = v /\ mu[st[w]] = w /\ st[v] # Nil /\ st[w] # Nil
          BY <2>1, <4>1, NilAssumption, Zenon DEF Base, CallAt, Committed, Critical
        <5>2. st[v] = st[w]
          <6>1. st[v] = docs[req[v].node] /\ st[w] = docs[req[w].node]
            BY <5>1, Zenon DEF Orderly, OneDocState
          <6>2. QED
            BY <4>1, <6>1, Zenon
        <5>3. QED
          BY <5>1, <5>2, Zenon
      <4>2. QED
        BY <4>1, Zenon
    <3>3. \A n \in Node : lastSent'[n] <= Len(ops')
      <4>1. seq[w] <= Len(ops)
        BY <1>3, <3>1, Longer, Zenon
      <4>2. \A n \in Node : lastSent'[n] = seq[w] \/ lastSent'[n] = lastSent[n]
        BY <1>3, <2>1, Zenon
      <4>3. QED
        BY <2>1, <4>1, <4>2, Zenon DEF Orderly, SeqFresh
    <3>4. \A v \in Worker : pc'[v] \in Committed =>
             v # w /\ pc[v] \in Committed /\ seq'[v] = seq[v] /\ req'[v] = req[v]
      BY <1>1, <2>1, Zenon DEF Moves, Others, Committed
    <3>5. \A v \in Worker : pc'[v] \in Committed =>
             /\ seq'[v] \in 1..Len(ops')
             /\ lastSent'[req'[v].node] < seq'[v]
             /\ req'[v].change \in Content(ops')
      <4>1. \A v \in Worker : pc'[v] \in Committed =>
               req[v].node # req[w].node /\ lastSent[req[v].node] < seq[v]
        BY <3>2, <3>4, Zenon DEF Orderly, SeqFresh
      <4>2. \A v \in Worker : pc'[v] \in Committed => req[v].node \in Node
        <5>1. \A v \in Worker : pc'[v] \in Committed => req[v] \in Request
          BY <3>4, Zenon DEF Base, CallAt, Committed
        <5>2. QED
          BY <5>1, RequestFields, Zenon
      <4>3. \A v \in Worker : pc'[v] \in Committed => lastSent'[req[v].node] < seq[v]
        BY <1>3, <2>1, <4>1, <4>2, Zenon
      <4>4. QED
        BY <2>1, <3>4, <4>3, Zenon DEF Orderly, SeqFresh
    <3>6. \A u, v \in Worker :
             pc'[u] \in Committed /\ pc'[v] \in Committed /\ u # v => seq'[u] # seq'[v]
      BY <3>4, Zenon DEF Orderly, SeqFresh
    <3>7. \A v \in Worker : pc'[v] = "save" => seq'[v] <= Len(ops')
      BY <1>1, <2>1, Zenon DEF Moves, Others, Orderly, SeqFresh
    <3>8. acked' \subseteq Content(ops')
      BY <2>1, <3>1, Zenon DEF Orderly, SeqFresh
    <3>9. QED
      BY <3>3, <3>5, <3>6, <3>7, <3>8, Zenon DEF SeqFresh
  <2>4. CreatedInv'
    BY <1>1, <1>3, <2>1, CreatedFrame DEF Orderly
  <2>5. QED
    BY <1>2, <2>2, <2>3, <2>4, Zenon DEF Orderly
<1>15. QED
  BY <1>6, <1>7, <1>8, <1>9, <1>10, <1>11, <1>12, <1>13, <1>14, StillSteps, Zenon DEF Step

\* A new request, an empty document, a crash and a stuttering step keep them.
LEMMA OrderlyOther ==
    ASSUME TypeOK, Base, Orderly,
           \/ \E w \in Worker : Arrive(w) /\ ~raced'
           \/ DeleteFails /\ ~raced'
           \/ CreateDocument
           \/ \E n \in Node : Crash(n)
           \/ UNCHANGED vars
    PROVE  Orderly'
<1>1. CASE \E w \in Worker : Arrive(w) /\ ~raced'
  <2>1. PICK w \in Worker : Arrive(w) /\ ~raced'
    BY <1>1, Zenon
  <2>2. /\ pc[w] = "idle" /\ st'[w] = st[w] /\ Others(w) /\ docs' = docs
        /\ pc'[w] \in {"state", "forget"}
    BY <2>1, ArriveMoves, Zenon
  <2>3. ForgetAlone'
    <3>1. CASE pc'[w] = "forget"
      BY <2>1, <2>2, <3>1, ArriveMoves DEF Others, ForgetAlone
    <3>2. CASE pc'[w] = "state"
      BY <2>1, <2>2, <3>2, ArriveMoves, Zenon DEF Others, ForgetAlone
    <3>3. QED
      BY <2>2, <3>1, <3>2, Zenon
  <2>4. OneDocState'
    <3>1. st[w] = Nil
      BY <2>2, Zenon DEF Base, CallAt
    <3>2. QED
      BY <2>2, <3>1, Zenon DEF Others, Orderly, OneDocState
  <2>5. \A v \in Worker : pc'[v] \in Committed \cup {"save"} =>
           pc[v] = pc'[v] /\ seq'[v] = seq[v] /\ req'[v] = req[v]
    BY <2>2, Zenon DEF Others, Committed
  <2>6. SeqFresh' /\ CreatedInv'
    <3>1. CASE pc'[w] = "state"
      <4>1. UNCHANGED <<ops, acked, lastSent, created>>
        BY <2>1, <3>1, ArriveMoves, Zenon
      <4>2. SeqFresh'
        BY <2>5, <4>1, Zenon DEF Orderly, SeqFresh
      <4>3. CreatedInv'
        BY <2>5, <4>1, Zenon DEF Orderly, CreatedInv, Committed
      <4>4. QED
        BY <4>2, <4>3, Zenon
    <3>2. CASE pc'[w] = "forget"
      <4>1. /\ ops' = <<>> /\ acked' = {} /\ created' = 0
            /\ lastSent' = [m \in Node |-> 0]
            /\ \A v \in Worker \ {w} : pc[v] = "idle"
        BY <2>1, <3>2, ArriveMoves, Zenon
      <4>2. \A v \in Worker : pc'[v] \notin Committed \cup {"save"}
        BY <2>2, <3>2, <4>1, Zenon DEF Others, Committed
      <4>3. SeqFresh'
        BY <4>1, <4>2 DEF SeqFresh
      <4>4. CreatedInv'
        BY <4>1 DEF CreatedInv
      <4>5. QED
        BY <4>3, <4>4, Zenon
    <3>3. QED
      BY <2>2, <3>1, <3>2, Zenon
  <2>7. QED
    BY <2>3, <2>4, <2>6, Zenon DEF Orderly
<1>6. CASE DeleteFails /\ ~raced'
  <2>1. /\ UNCHANGED <<docs, pc, req, st, seq>>
        /\ ops' = <<>> /\ acked' = {} /\ created' = 0
        /\ lastSent' = [m \in Node |-> 0]
        /\ \A v \in Worker : pc[v] = "idle"
    BY <1>6, DeleteMoves, Zenon
  <2>2. ForgetAlone' /\ OneDocState'
    BY <2>1, Zenon DEF Orderly, ForgetAlone, OneDocState
  <2>3. \A v \in Worker : pc'[v] \notin Committed \cup {"save"}
    BY <2>1, Zenon DEF Committed
  <2>4. SeqFresh'
    BY <2>1, <2>3 DEF SeqFresh
  <2>5. CreatedInv'
    BY <2>1 DEF CreatedInv
  <2>6. QED
    BY <2>2, <2>4, <2>5, Zenon DEF Orderly
<1>2. CASE CreateDocument
  BY <1>2, Zenon DEF CreateDocument, memoryVars, workerVars, historyVars,
     Orderly, ForgetAlone, OneDocState, SeqFresh, CreatedInv
<1>3. CASE \E n \in Node : Crash(n)
  <2>1. PICK n \in Node : Crash(n)
    BY <1>3, Zenon
  <2>2. \A w \in Worker : pc'[w] # "idle" =>
           /\ pc'[w] = pc[w] /\ req'[w] = req[w] /\ seq'[w] = seq[w]
    BY <2>1, Zenon DEF Crash, TypeOK
  <2>3. \A w \in Worker : st'[w] # Nil =>
           /\ st'[w] = st[w] /\ req'[w] = req[w] /\ req[w].node # n
           /\ req[w] \in Request
    BY <2>1, Zenon DEF Crash, TypeOK, Base, CallAt, Busy
  <2>4. UNCHANGED <<ops, lastSent, created, acked>>
    BY <2>1, Zenon DEF Crash, storeVars, historyVars
  <2>5. docs' = [docs EXCEPT ![n] = Nil]
    BY <2>1, Zenon DEF Crash
  <2>6. \A w \in Worker : pc[w] = "idle" => pc'[w] = "idle"
    BY <2>1, Zenon DEF Crash, TypeOK
  <2>7. ForgetAlone'
    BY <2>2, <2>6, Zenon DEF Orderly, ForgetAlone
  <2>8. OneDocState'
    <3>1. \A w \in Worker : st'[w] # Nil => req[w].node \in Node
      BY <2>3, RequestFields, Zenon
    <3>2. \A w \in Worker : st'[w] # Nil => st'[w] = docs'[req'[w].node]
      BY <2>3, <2>5, <3>1, Zenon DEF Orderly, OneDocState, TypeOK
    <3>3. \A m, k \in Node : docs'[m] = docs'[k] /\ docs'[m] # Nil => m = k
      BY <2>5, Zenon DEF Orderly, OneDocState, TypeOK
    <3>4. QED
      BY <3>2, <3>3, Zenon DEF OneDocState
  <2>9. SeqFresh'
    BY <2>2, <2>4, Zenon DEF Orderly, SeqFresh, Committed
  <2>10. CreatedInv'
    BY <2>2, <2>4, Zenon DEF Orderly, CreatedInv
  <2>11. QED
    BY <2>7, <2>8, <2>9, <2>10, Zenon DEF Orderly
<1>4. CASE UNCHANGED vars
  BY <1>4, Zenon DEF vars, storeVars, memoryVars, workerVars, historyVars,
     Orderly, ForgetAlone, OneDocState, SeqFresh, CreatedInv
<1>5. QED
  BY <1>1, <1>2, <1>3, <1>4, <1>6, Zenon

\* A run in which no DELETE has overlapped so far had none before.
LEMMA CalmBefore ==
    ASSUME TypeOK, [Next]_vars, ~raced'
    PROVE  ~raced
<1>1. ASSUME NEW w \in Worker, Arrive(w)
      PROVE  ~raced
  BY <1>1, ArriveMoves, Zenon
<1>2. ASSUME NEW w \in Worker, Step(w)
      PROVE  ~raced
  BY <1>2, StepMoves, Zenon
<1>3. CASE CreateDocument
  BY <1>3, Zenon DEF CreateDocument, historyVars
<1>4. ASSUME NEW n \in Node, Crash(n)
      PROVE  ~raced
  BY <1>4, Zenon DEF Crash, historyVars
<1>5. CASE UNCHANGED vars
  BY <1>5, Zenon DEF vars, historyVars
<1>6. CASE DeleteFails
  BY <1>6, DeleteMoves, Zenon
<1>7. QED
  BY <1>1, <1>2, <1>3, <1>4, <1>5, <1>6, Zenon DEF Next

\* The part of the inductive invariant that holds for any number of processes.
LEMMA StepQuiet == TypeOK /\ Base /\ Quiet /\ [Next]_vars => Quiet'
<1> SUFFICES ASSUME TypeOK, Base, Quiet, [Next]_vars, ~raced'
             PROVE  Orderly'
  BY Zenon DEF Quiet
<1>1. Orderly
  BY CalmBefore, Zenon DEF Quiet
<1>2. CASE \E w \in Worker : Step(w)
  BY <1>1, <1>2, OrderlyStep, Zenon
<1>3. CASE ~ \E w \in Worker : Step(w)
  BY <1>1, <1>3, OrderlyOther, Zenon DEF Next
<1>4. QED
  BY <1>2, <1>3, Zenon

\* An engine with no document cached (engine.go:70-90).
LEMMA InitQuiet == Init => Quiet
BY EmptyContent DEF Init, Quiet, Orderly, ForgetAlone, OneDocState, SeqFresh,
   CreatedInv, Committed

\* Every reachable state satisfies the process-independent invariant.
THEOREM QuietInvariant == Spec => [](TypeOK /\ Base /\ Quiet)
<1>1. QED
  BY InitTyped, InitQuiet, StepTyped, StepQuiet, PTL DEF Spec

\* on_document_created fires at most once per life of a document, and only for
\* a committed operation (engine.go:121-127), however many processes run.
THEOREM CreatedCorrect == Spec => []CreatedAtMostOnce
<1>1. TypeOK /\ Quiet => CreatedAtMostOnce
  <2> SUFFICES ASSUME TypeOK, Orderly
               PROVE  created <= 1 /\ (created = 1 => ops # <<>>)
    BY Zenon DEF CreatedAtMostOnce, Quiet
  <2>1. created <= 1 /\ (created = 1 => Len(ops) >= 1)
    BY Zenon DEF Orderly, CreatedInv
  <2>2. ops = <<>> => Len(ops) = 0
    OBVIOUS
  <2>3. QED
    BY <2>1, <2>2
<1>2. QED
  BY <1>1, QuietInvariant, PTL

\* The mutex of a docState makes broadcast order agree with sequence order on
\* every process (engine.go:54-59, 109-142), however many processes run.
THEOREM BroadcastOrderCorrect == Spec => BroadcastInOrder
<1>1. ASSUME TypeOK, Base, Quiet, [Next]_vars, ~raced'
      PROVE  SendsInOrder
  <2>1. Orderly
    BY <1>1, CalmBefore, Zenon DEF Quiet
  <2>2. CASE UNCHANGED lastSent
    BY <2>2, Zenon DEF SendsInOrder
  <2>3. ASSUME NEW w \in Worker, Arrive(w)
        PROVE  SendsInOrder
    BY <1>1, <2>3, ArriveMoves, Zenon DEF SendsInOrder
  <2>4. ASSUME NEW w \in Worker, Broadcast(w)
        PROVE  SendsInOrder
    <3>1. /\ lastSent' = [lastSent EXCEPT ![req[w].node] = seq[w]]
          /\ lastSent[req[w].node] < seq[w]
      BY <2>1, <2>4, Zenon DEF Broadcast, Orderly, SeqFresh, Committed
    <3>2. QED
      BY <1>1, <3>1, Zenon DEF SendsInOrder, TypeOK
  <2>5. ASSUME NEW w \in Worker, Step(w), ~Broadcast(w)
        PROVE  UNCHANGED lastSent
    BY <2>5, Zenon DEF Step, historyVars, Lookup, GetSnapshot, GetOpsSince,
       LoadFails, Install, LockAndApply, ApplyFails, AppendOp, AppendFails,
       AfterCommit, LockForSnapshot, GetLatestSeq, SaveSnapshot, SnapshotFails,
       Export, Reply, Forget
  <2>6. CASE CreateDocument \/ (\E n \in Node : Crash(n)) \/ UNCHANGED vars
    <3>1. UNCHANGED lastSent
      BY <2>6, Zenon DEF CreateDocument, Crash, vars, historyVars
    <3>2. QED
      BY <2>2, <3>1, Zenon
  <2>7. CASE DeleteFails
    BY <2>7, DeleteMoves, Zenon DEF SendsInOrder
  <2>8. QED
    BY <1>1, <2>2, <2>3, <2>4, <2>5, <2>6, <2>7, Zenon DEF Next
<1>2. TypeOK /\ Base /\ Quiet /\ [Next]_vars => [~raced' => SendsInOrder]_vars
  BY <1>1, Zenon
<1>3. QED
  BY <1>2, QuietInvariant, PTL DEF Spec, BroadcastInOrder
----------------------------------------------------------------------------
(* The mutex of a docState, on any number of processes.                    *)

\* Whoever holds st.mu is in Submit or Snapshot, between its Lock and its
\* Unlock, with that docState: no return, early return or error path leaves a
\* document locked, and since none of those places waits for a mutex, nobody
\* waits for somebody who waits (engine.go:109-145, 251-261).
MutexHeld ==
    \A o \in DocState : mu[o] # Nil =>
        mu[o] \in Worker /\ pc[mu[o]] \in Critical /\ st[mu[o]] = o

\* A step of a worker takes the mutex as it enters the critical section and
\* releases it as it leaves.
LEMMA MutexStep ==
    ASSUME TypeOK, Base, MutexHeld, NEW w \in Worker, Step(w)
    PROVE  MutexHeld'
<1>1. Others(w)
  BY StepMoves, Zenon DEF Moves
<1>2. CASE mu' = mu /\ pc[w] \notin Critical
  BY <1>1, <1>2, Zenon DEF MutexHeld, Others
<1>3. CASE mu' = mu /\ pc'[w] \in Critical /\ st'[w] = st[w]
  BY <1>1, <1>3, Zenon DEF MutexHeld, Others
<1>4. ASSUME NEW o \in DocState, mu' = [mu EXCEPT ![o] = Nil], pc[w] \notin Critical
      PROVE  MutexHeld'
  <2>1. \A p \in DocState : mu'[p] # Nil => mu'[p] = mu[p]
    BY <1>4, Zenon DEF TypeOK
  <2>2. \A p \in DocState : mu[p] # Nil => mu[p] # w
    BY <1>4, Zenon DEF MutexHeld
  <2> QED
    BY <1>1, <2>1, <2>2 DEF MutexHeld, Others
<1>5. CASE mu' = [mu EXCEPT ![st[w]] = w] /\ pc[w] \notin Critical /\ pc'[w] \in Critical /\ st'[w] = st[w]
  <2>1. \A p \in DocState : mu'[p] = mu[p] \/ (p = st[w] /\ mu'[p] = w)
    BY <1>5, Zenon DEF TypeOK
  <2>2. \A p \in DocState : mu[p] # Nil => mu[p] # w
    BY <1>5, Zenon DEF MutexHeld
  <2> QED
    BY <1>1, <1>5, <2>1, <2>2 DEF MutexHeld, Others
<1>6. CASE mu' = [mu EXCEPT ![st[w]] = Nil] /\ pc[w] \in Critical
  <2>1. st[w] \in DocState
    BY <1>6, Zenon DEF Base, CallAt
  <2>2. mu'[st[w]] = Nil /\ \A p \in DocState : p # st[w] => mu'[p] = mu[p]
    BY <1>6, <2>1, Zenon DEF TypeOK
  <2>3. \A p \in DocState : p # st[w] /\ mu[p] # Nil => mu[p] # w
    BY Zenon DEF MutexHeld
  <2>4. ASSUME NEW p \in DocState, mu'[p] # Nil
        PROVE  mu'[p] \in Worker /\ pc'[mu'[p]] \in Critical /\ st'[mu'[p]] = p
    <3>1. mu'[p] = mu[p] /\ mu[p] # w
      BY <2>2, <2>3, <2>4, Zenon
    <3>2. mu[p] \in Worker /\ pc[mu[p]] \in Critical /\ st[mu[p]] = p
      BY <2>4, <3>1, Zenon DEF MutexHeld
    <3> QED
      BY <1>1, <3>1, <3>2 DEF Others
  <2> QED
    BY <2>4, Zenon DEF MutexHeld
<1>7. CASE Lookup(w) \/ GetSnapshot(w) \/ GetOpsSince(w) \/ LoadFails(w) \/ ApplyFails(w)
           \/ Export(w) \/ Reply(w) \/ Forget(w)
  <2>1. mu' = mu /\ pc[w] \notin Critical
    BY <1>7 DEF Lookup, GetSnapshot, GetOpsSince, LoadFails, ApplyFails, Export, Reply,
       Forget, memoryVars, Critical
  <2> QED
    BY <1>2, <2>1, Zenon
<1>8. CASE Install(w)
  <2>1. pc[w] \notin Critical
    BY <1>8 DEF Install, Critical
  <2>2. mu' = mu \/ \E o \in DocState : mu' = [mu EXCEPT ![o] = Nil]
    BY <1>8, Zenon DEF Install
  <2> QED
    BY <1>2, <1>4, <2>1, <2>2, Zenon
<1>9. CASE LockAndApply(w) \/ LockForSnapshot(w)
  <2>1. /\ mu' = [mu EXCEPT ![st[w]] = w] /\ st' = st
        /\ pc[w] = "lock" /\ pc'[w] \in {"append", "latestSeq"}
    BY <1>9, Zenon DEF LockAndApply, LockForSnapshot, Goto, TypeOK
  <2> QED
    BY <1>5, <2>1 DEF Critical
<1>10. CASE AppendOp(w) \/ AfterCommit(w) \/ GetLatestSeq(w)
  <2>1. mu' = mu /\ st' = st /\ pc'[w] \in {"committed", "broadcast", "save"}
    BY <1>10, Zenon DEF AppendOp, AfterCommit, GetLatestSeq, Goto, memoryVars, TypeOK
  <2> QED
    BY <1>3, <2>1, Zenon DEF Critical
<1>11. CASE AppendFails(w) \/ Broadcast(w) \/ SaveSnapshot(w) \/ SnapshotFails(w)
  <2>1. mu' = [mu EXCEPT ![st[w]] = Nil] /\ pc[w] \in {"append", "broadcast", "latestSeq", "save"}
    BY <1>11, Zenon DEF AppendFails, Broadcast, SaveSnapshot, SnapshotFails, Unlock
  <2> QED
    BY <1>6, <2>1, Zenon DEF Critical
<1> QED
  BY <1>7, <1>8, <1>9, <1>10, <1>11, Zenon DEF Step

\* On every path the engine releases the mutex it took, crashes and failures of
\* storage included (engine.go:109-145, 251-261).
THEOREM MutexReleased == Spec => []MutexHeld
<1>1. Init => MutexHeld
  BY Zenon DEF Init, MutexHeld
<1>2. ASSUME TypeOK, Base, MutexHeld, [Next]_vars
      PROVE  MutexHeld'
  <2>1. ASSUME NEW w \in Worker, Arrive(w) PROVE MutexHeld'
    <3>1. mu' = mu
      BY <2>1, Zenon DEF Arrive, CallSubmit, CallRead, CallDelete, memoryVars
    <3>2. Others(w) /\ pc[w] = "idle"
      BY <1>2, <2>1, ArriveMoves, Zenon
    <3>3. pc[w] \notin Critical
      BY <3>2 DEF Critical
    <3> QED
      BY <1>2, <3>1, <3>2, <3>3, Zenon DEF MutexHeld, Others
  <2>2. ASSUME NEW w \in Worker, Step(w) PROVE MutexHeld'
    BY <1>2, <2>2, MutexStep, Zenon
  <2>3. CASE CreateDocument \/ UNCHANGED vars
    BY <1>2, <2>3, Zenon DEF CreateDocument, vars, memoryVars, workerVars, MutexHeld
  <2>4. ASSUME NEW n \in Node, Crash(n) PROVE MutexHeld'
    <3>1. \A o \in DocState : mu'[o] # Nil =>
             mu'[o] = mu[o] /\ ~(mu[o] \in Worker /\ Busy(mu[o]) /\ req[mu[o]].node = n)
      BY <2>4, Zenon DEF Crash
    <3>2. \A v \in Worker : ~(Busy(v) /\ req[v].node = n) => pc'[v] = pc[v] /\ st'[v] = st[v]
      BY <2>4, Zenon DEF Crash
    <3> QED
      BY <1>2, <3>1, <3>2 DEF MutexHeld
  <2>5. CASE DeleteFails
    BY <1>2, <2>5, DeleteMoves, Zenon DEF MutexHeld
  <2> QED
    BY <1>2, <2>1, <2>2, <2>3, <2>4, <2>5, Zenon DEF Next
<1> QED
  BY <1>1, <1>2, QuietInvariant, PTL DEF Spec
----------------------------------------------------------------------------
(* What the engine asks of storage, on any number of processes.            *)

\* The seqs that Submits hold.
Due == [w \in Worker |-> IF pc[w] \in Committed THEN seq[w] ELSE 0]

SnapshotSeqs == {s.seq : s \in snaps}

L == INSTANCE OpLog WITH
    Session <- Worker, Seqs <- Nat, None <- 0, log <- ops, snaps <- SnapshotSeqs,
    due <- Due

\* What a step does to the seqs that Submits hold.
LEMMA DueMoves ==
    ASSUME NEW w \in Worker, Others(w)
    PROVE  /\ pc[w] \notin Committed /\ pc'[w] \notin Committed => Due' = Due
           /\ pc[w] \in Committed /\ pc'[w] \in Committed /\ seq'[w] = seq[w] => Due' = Due
           /\ pc'[w] \in Committed => Due' = [Due EXCEPT ![w] = seq'[w]]
           /\ pc'[w] \notin Committed => Due' = [Due EXCEPT ![w] = 0]
BY Zenon DEF Due, Others

\* A snapshot is stored under its seq, in place of an earlier one.
LEMMA PutSeq ==
    ASSUME NEW n, NEW d, snaps' = PutSnapshot(n, d)
    PROVE  SnapshotSeqs' = SnapshotSeqs \cup {n}
<1>1. \A x : x \in SnapshotSeqs' <=> \E s \in PutSnapshot(n, d) : s.seq = x
  BY Zenon DEF SnapshotSeqs
<1>2. \A x : x \in SnapshotSeqs <=> \E s \in snaps : s.seq = x
  BY Zenon DEF SnapshotSeqs
<1>3. \A s : s \in PutSnapshot(n, d) <=> (s \in snaps /\ s.seq # n) \/ s = [seq |-> n, state |-> d]
  BY Zenon DEF PutSnapshot
<1>4. [seq |-> n, state |-> d].seq = n
  OBVIOUS
<1>5. \A x : x \in SnapshotSeqs' <=> x \in SnapshotSeqs \/ x = n
  BY <1>1, <1>2, <1>3, <1>4, Zenon
<1> QED
  BY <1>5, Zenon

\* The storage calls of a worker are calls of the Store interface.
LEMMA StepUsesLog ==
    ASSUME TypeOK, Base, NEW w \in Worker, Step(w)
    PROVE  [L!Next]_(L!vars)
<1>1. Moves(w) /\ Others(w)
  BY StepMoves, Zenon DEF Moves
<1>2. CASE AppendOp(w)
  <2>1. /\ pc[w] = "append" /\ pc'[w] = "committed" /\ seq'[w] = Len(ops) + 1
        /\ ops' = Append(ops, req[w].change) /\ exists' = TRUE /\ snaps' = snaps
    BY <1>2, Zenon DEF AppendOp, Goto, TypeOK
  <2>2. req[w].change \in Change
    BY <2>1, RequestFields, Zenon DEF Base, CallAt
  <2>3. Due[w] = 0 /\ Due' = [Due EXCEPT ![w] = Len(ops) + 1]
    <3>1. Due[w] = 0
      BY <2>1 DEF Due, Committed
    <3>2. pc'[w] \in Committed
      BY <2>1, Zenon DEF Committed
    <3> QED
      BY <1>1, <2>1, <3>1, <3>2, DueMoves, Zenon
  <2>4. L!AppendOp(w, req[w].change)
    BY <2>1, <2>3, Zenon DEF L!AppendOp, SnapshotSeqs
  <2> QED
    BY <2>2, <2>4, Zenon DEF L!Next
<1>3. CASE AppendFails(w)
  <2>1. /\ pc[w] = "append" /\ pc'[w] = "idle" /\ snaps' = snaps
        /\ \/ exists' = exists /\ ops' = ops
           \/ ops' = Append(ops, req[w].change) /\ exists' = TRUE
    BY <1>3, Zenon DEF AppendFails, Return, TypeOK
  <2>2. req[w].change \in Change
    BY <2>1, RequestFields, Zenon DEF Base, CallAt
  <2>3. Due' = Due
    BY <1>1, <2>1, DueMoves, Zenon DEF Committed
  <2> QED
    BY <2>1, <2>2, <2>3, Zenon DEF L!vars, L!Next, L!AppendReplyLost, SnapshotSeqs
<1>4. CASE AfterCommit(w)
  <2>1. /\ pc[w] = "committed" /\ pc'[w] = "broadcast" /\ seq'[w] = seq[w]
        /\ exists' = exists /\ ops' = ops
        /\ snaps' = snaps \/ (exists /\ snaps' = PutSnapshot(seq[w], doc[st[w]]))
    BY <1>4, Zenon DEF AfterCommit, Goto, TypeOK
  <2>2. Due' = Due
    BY <1>1, <2>1, DueMoves, Zenon DEF Committed
  <2>3. CASE snaps' = snaps
    BY <2>1, <2>2, <2>3, Zenon DEF L!vars, SnapshotSeqs
  <2>4. CASE exists /\ snaps' = PutSnapshot(seq[w], doc[st[w]])
    <3>1. seq[w] \in Nat /\ SnapshotSeqs' = SnapshotSeqs \cup {seq[w]}
      BY <2>4, PutSeq, Zenon DEF TypeOK
    <3> QED
      BY <2>1, <2>2, <2>4, <3>1, Zenon DEF L!Next, L!SaveSnapshot
  <2> QED
    BY <2>1, <2>3, <2>4, Zenon
<1>5. CASE SaveSnapshot(w)
  <2>1. /\ pc[w] = "save" /\ pc'[w] = "idle" /\ exists /\ exists' = exists /\ ops' = ops
        /\ snaps' = PutSnapshot(seq[w], doc[st[w]])
    BY <1>5, Zenon DEF SaveSnapshot, Return, TypeOK
  <2>2. Due' = Due
    BY <1>1, <2>1, DueMoves, Zenon DEF Committed
  <2>3. seq[w] \in Nat /\ SnapshotSeqs' = SnapshotSeqs \cup {seq[w]}
    BY <2>1, PutSeq, Zenon DEF TypeOK
  <2> QED
    BY <2>1, <2>2, <2>3, Zenon DEF L!Next, L!SaveSnapshot
<1>6. CASE Broadcast(w)
  <2>1. pc[w] = "broadcast" /\ pc'[w] = "idle" /\ UNCHANGED <<exists, ops, snaps>>
    BY <1>6, Zenon DEF Broadcast, Return, TypeOK, storeVars
  <2>2. Due' = [Due EXCEPT ![w] = 0]
    BY <1>1, <2>1, DueMoves, Zenon DEF Committed
  <2>3. CASE Due[w] = 0
    <3>1. Due' = Due
      BY <2>2, <2>3, Zenon DEF Due
    <3> QED
      BY <2>1, <3>1, Zenon DEF L!vars, SnapshotSeqs
  <2>4. CASE Due[w] # 0
    BY <2>1, <2>2, <2>4, Zenon DEF L!Next, L!Return, SnapshotSeqs
  <2> QED
    BY <2>3, <2>4, Zenon
<1>7. ASSUME ~AppendOp(w), ~AppendFails(w), ~AfterCommit(w), ~SaveSnapshot(w), ~Broadcast(w)
      PROVE  UNCHANGED L!vars
  <2>1. UNCHANGED <<exists, ops, snaps>>
    BY <1>7, Zenon DEF Step, storeVars, Lookup, GetSnapshot, GetOpsSince, LoadFails, Install,
       LockAndApply, ApplyFails, LockForSnapshot, GetLatestSeq, SnapshotFails, Export, Reply, Forget
  <2>2. pc[w] \notin Committed /\ pc'[w] \notin Committed
    BY <1>7, Zenon DEF Step, TypeOK, Committed, Goto, Return, Lookup, GetSnapshot, GetOpsSince,
       LoadFails, Install, LockAndApply, ApplyFails, LockForSnapshot, GetLatestSeq,
       SnapshotFails, Export, Reply, Forget
  <2>3. Due' = Due
    BY <1>1, <2>2, DueMoves, Zenon
  <2> QED
    BY <2>1, <2>3, Zenon DEF L!vars, SnapshotSeqs
<1> QED
  BY <1>2, <1>3, <1>4, <1>5, <1>6, <1>7, Zenon

\* Every change of the stored rows that the engine and the REST handlers make is
\* one that storage.Store promises (engine.go:96-262): what StorageProofs shows of
\* the SQL backends is all that this module takes of storage.
THEOREM EngineUsesLog == Spec => L!Spec
<1>1. Init => L!Init
  BY DEF Init, L!Init, Due, SnapshotSeqs, Committed
<1>2. ASSUME TypeOK, Base, [Next]_vars
      PROVE  [L!Next]_(L!vars)
  <2>1. ASSUME NEW w \in Worker, Arrive(w) PROVE [L!Next]_(L!vars)
    <3>1. Others(w) /\ pc[w] = "idle" /\ pc'[w] \in {"state", "forget"}
      BY <1>2, <2>1, ArriveMoves, Zenon
    <3>2. Due' = Due
      BY <3>1, DueMoves, Zenon DEF Committed
    <3>3. \/ UNCHANGED <<exists, ops, snaps>>
          \/ exists /\ exists' = FALSE /\ ops' = <<>> /\ snaps' = {}
      BY <2>1, Zenon DEF Arrive, CallSubmit, CallRead, CallDelete, storeVars
    <3>4. snaps' = {} => SnapshotSeqs' = {}
      BY Zenon DEF SnapshotSeqs
    <3> QED
      BY <3>2, <3>3, <3>4, Zenon DEF L!vars, L!Next, L!DeleteDocument, SnapshotSeqs
  <2>2. ASSUME NEW w \in Worker, Step(w) PROVE [L!Next]_(L!vars)
    BY <1>2, <2>2, StepUsesLog, Zenon
  <2>3. CASE CreateDocument
    BY <2>3, Zenon DEF CreateDocument, workerVars, Due, SnapshotSeqs, L!Next, L!CreateDocument
  <2>4. ASSUME NEW n \in Node, Crash(n) PROVE L!Next
    <3> DEFINE dead == {w \in Worker : Busy(w) /\ req[w].node = n}
    <3>1. /\ UNCHANGED <<exists, ops, snaps>>
          /\ \A w \in Worker : w \in dead => pc'[w] = "idle"
          /\ \A w \in Worker : w \notin dead => pc'[w] = pc[w] /\ seq'[w] = seq[w]
      BY <2>4, Zenon DEF Crash, storeVars
    <3>2. Due' = [w \in Worker |-> IF w \in dead THEN 0 ELSE Due[w]]
      BY <3>1 DEF Due, Committed
    <3>3. PICK S \in SUBSET Worker : S = dead
      BY Zenon
    <3> HIDE DEF dead
    <3>4. L!Die(S)
      BY <3>1, <3>2, <3>3, Zenon DEF L!Die, SnapshotSeqs
    <3> QED
      BY <3>4, Zenon DEF L!Next
  <2>5. CASE UNCHANGED vars
    BY <2>5, Zenon DEF vars, storeVars, workerVars, Due, SnapshotSeqs, L!vars
  <2>6. CASE DeleteFails
    <3>1. /\ UNCHANGED <<pc, seq>> /\ exists /\ exists' = FALSE
          /\ ops' = <<>> /\ snaps' = {}
      BY <2>6, DeleteMoves, Zenon
    <3>2. Due' = Due /\ SnapshotSeqs' = {}
      BY <3>1, Zenon DEF Due, SnapshotSeqs
    <3> QED
      BY <3>1, <3>2, Zenon DEF L!Next, L!DeleteDocument
  <2> QED
    BY <1>2, <2>1, <2>2, <2>3, <2>4, <2>5, <2>6, Zenon DEF Next
<1> QED
  BY <1>1, <1>2, QuietInvariant, PTL DEF Spec, L!Spec
----------------------------------------------------------------------------
(* What the Broadcaster is promised, and Delivery and Cluster assume.      *)

\* The operations a process is broadcasting, from the commit on.
Sending ==
    [n \in Node |-> {seq[w] : w \in {v \in Worker : pc[v] \in Committed /\ req[v].node = n}}]

B == INSTANCE Stream WITH len <- Len(ops), sending <- Sending

\* As long as no DELETE overlaps with another request, the engine's commits and
\* broadcasts are a Stream.
ImplementsStream == [][~raced' => [B!Next]_(B!vars)]_vars

LEMMA SendingMember ==
    ASSUME NEW n \in Node
    PROVE  /\ \A x : x \in Sending[n] <=>
                \E v \in Worker : pc[v] \in Committed /\ req[v].node = n /\ seq[v] = x
           /\ \A x : x \in Sending'[n] <=>
                \E v \in Worker : pc'[v] \in Committed /\ req'[v].node = n /\ seq'[v] = x
BY Zenon DEF Sending

\* Sending is a function on the processes, in both states of a step.
LEMMA SendingFunction ==
    /\ Sending = [n \in Node |-> Sending[n]]
    /\ Sending' = [n \in Node |-> Sending'[n]]
BY Zenon DEF Sending

\* Two workers of a process are never both between st.mu.Lock and st.mu.Unlock
\* (engine.go:104-142).
LEMMA OneInside ==
    ASSUME TypeOK, Base, Orderly, NEW v \in Worker, NEW w \in Worker,
           pc[v] \in Critical, pc[w] \in Critical, req[v].node = req[w].node
    PROVE  v = w
<1>1. st[v] # Nil /\ st[w] # Nil /\ mu[st[v]] = v /\ mu[st[w]] = w
  BY NilAssumption, Zenon DEF Base, CallAt
<1> QED
  BY <1>1, Zenon DEF Orderly, OneDocState

\* A worker that neither commits nor ends a broadcast changes none.
LEMMA SendingKept ==
    ASSUME NEW w \in Worker, Others(w),
           \/ pc[w] \notin Committed /\ pc'[w] \notin Committed
           \/ pc[w] \in Committed /\ pc'[w] \in Committed /\ req'[w] = req[w] /\ seq'[w] = seq[w]
    PROVE  Sending' = Sending
<1>1. ASSUME NEW n \in Node PROVE Sending'[n] = Sending[n]
  <2>1. \A x : x \in Sending'[n] <=> x \in Sending[n]
    BY SendingMember DEF Others
  <2> QED
    BY <2>1, Zenon
<1> QED
  BY <1>1, SendingFunction

\* AppendOp commits while its process broadcasts nothing (engine.go:104-119).
LEMMA AppendCommits ==
    ASSUME TypeOK, Base, Orderly, NEW w \in Worker, AppendOp(w), Moves(w)
    PROVE  B!Next
<1>1. /\ pc[w] = "append" /\ pc'[w] = "committed" /\ seq'[w] = Len(ops) + 1
      /\ ops' = Append(ops, req[w].change) /\ req'[w] = req[w]
  BY Zenon DEF TypeOK, AppendOp, Goto
<1>2. PICK n \in Node : n = req[w].node
  <2>1. req[w] \in Request
    BY <1>1, Zenon DEF Base, CallAt
  <2> QED
    BY <2>1, RequestFields, Zenon
<1>3. \A v \in Worker : pc[v] \in Committed => req[v].node # n
  BY <1>1, <1>2, OneInside, Zenon DEF Critical, Committed
<1>4. Sending[n] = {}
  BY <1>2, <1>3, SendingMember
<1>5. Sending' = [Sending EXCEPT ![n] = {Len(ops) + 1}]
  <2>1. Sending'[n] = {Len(ops) + 1}
    <3>1. \A x : x \in Sending'[n] <=> x = Len(ops) + 1
      BY <1>1, <1>2, <1>3, SendingMember DEF Moves, Others, Committed
    <3> QED
      BY <3>1, Zenon
  <2>2. ASSUME NEW m \in Node, m # n PROVE Sending'[m] = Sending[m]
    <3>1. \A x : x \in Sending'[m] <=> x \in Sending[m]
      BY <1>1, <1>2, <2>2, SendingMember DEF Moves, Others, Committed
    <3> QED
      BY <3>1, Zenon
  <2> QED
    BY <1>2, <2>1, <2>2, SendingFunction
<1>6. Len(ops)' = Len(ops) + 1
  BY <1>1 DEF TypeOK
<1>7. B!Commit(n)
  BY <1>4, <1>5, <1>6, Zenon DEF B!Commit
<1> QED
  BY <1>2, <1>7, Zenon DEF B!Next

\* A broadcast that returns was the only one of its process (engine.go:136-142).
LEMMA BroadcastEnds ==
    ASSUME TypeOK, Base, Orderly, NEW w \in Worker, Broadcast(w), Moves(w)
    PROVE  B!Next
<1>1. pc[w] = "broadcast" /\ pc'[w] = "idle" /\ ops' = ops
  BY Zenon DEF TypeOK, Broadcast, Return, storeVars
<1>2. PICK n \in Node : n = req[w].node
  <2>1. req[w] \in Request
    BY <1>1, Zenon DEF Base, CallAt
  <2> QED
    BY <2>1, RequestFields, Zenon
<1>3. \A v \in Worker : v # w /\ pc[v] \in Committed => req[v].node # n
  BY <1>1, <1>2, OneInside, Zenon DEF Critical, Committed
<1>4. Sending[n] # {}
  BY <1>1, <1>2, SendingMember DEF Committed
<1>5. Sending' = [Sending EXCEPT ![n] = {}]
  <2>1. Sending'[n] = {}
    BY <1>1, <1>2, <1>3, SendingMember DEF Moves, Others, Committed
  <2>2. ASSUME NEW m \in Node, m # n PROVE Sending'[m] = Sending[m]
    <3>1. \A x : x \in Sending'[m] <=> x \in Sending[m]
      BY <1>1, <1>2, <2>2, SendingMember DEF Moves, Others, Committed
    <3> QED
      BY <3>1, Zenon
  <2> QED
    BY <1>2, <2>1, <2>2, SendingFunction
<1>6. B!Sent(n)
  BY <1>1, <1>4, <1>5, Zenon DEF B!Sent
<1> QED
  BY <1>2, <1>6, Zenon DEF B!Next

\* A failed AppendOp has committed an operation that nobody broadcasts, or none
\* (engine.go:114-118).
LEMMA AppendFailsSilently ==
    ASSUME TypeOK, NEW w \in Worker, AppendFails(w), Moves(w)
    PROVE  [B!Next]_(B!vars)
<1>1. /\ pc[w] = "append" /\ pc'[w] = "idle"
      /\ ops' = ops \/ ops' = Append(ops, req[w].change)
  BY Zenon DEF TypeOK, AppendFails, Return
<1>2. Sending' = Sending
  BY <1>1, SendingKept, Zenon DEF Moves, Committed
<1>3. CASE ops' = ops
  BY <1>2, <1>3, Zenon DEF B!vars
<1>4. CASE ops' = Append(ops, req[w].change)
  <2>1. Len(ops)' = Len(ops) + 1
    BY <1>4 DEF TypeOK
  <2> QED
    BY <1>2, <2>1, Zenon DEF B!Next, B!CommitReplyLost
<1> QED
  BY <1>1, <1>3, <1>4, Zenon

\* A crash ends the broadcast of its process and no other.
LEMMA CrashEnds ==
    ASSUME TypeOK, NEW n \in Node, Crash(n)
    PROVE  [B!Next]_(B!vars)
<1>1. /\ ops' = ops
      /\ \A v \in Worker : pc[v] \in Committed /\ req[v].node = n => pc'[v] = "idle"
      /\ \A v \in Worker : pc[v] \in Committed /\ req[v].node # n =>
            pc'[v] = pc[v] /\ req'[v] = req[v] /\ seq'[v] = seq[v]
      /\ \A v \in Worker : pc'[v] \in Committed =>
            pc'[v] = pc[v] /\ req'[v] = req[v] /\ seq'[v] = seq[v]
  BY Zenon DEF Crash, TypeOK, Busy, Committed, storeVars
<1>2. Sending'[n] = {}
  BY <1>1, SendingMember DEF Committed
<1>3. ASSUME NEW m \in Node, m # n PROVE Sending'[m] = Sending[m]
  <2>1. \A x : x \in Sending'[m] <=> x \in Sending[m]
    BY <1>1, <1>3, SendingMember
  <2> QED
    BY <2>1, Zenon
<1>4. Sending' = [Sending EXCEPT ![n] = {}]
  BY <1>2, <1>3, SendingFunction
<1>5. CASE Sending[n] = {}
  <2>1. Sending' = Sending
    BY <1>4, <1>5, SendingFunction
  <2> QED
    BY <1>1, <2>1, Zenon DEF B!vars
<1>6. CASE Sending[n] # {}
  BY <1>1, <1>4, <1>6, Zenon DEF B!Next, B!Sent
<1> QED
  BY <1>5, <1>6, Zenon

\* A request that arrives commits and broadcasts nothing; a DELETE that meets no
\* other request finds no broadcast under way.
LEMMA ArriveStreams ==
    ASSUME TypeOK, NEW w \in Worker, Arrive(w), ~raced'
    PROVE  [B!Next]_(B!vars)
<1>1. /\ Others(w) /\ pc[w] = "idle"
      /\ pc'[w] \in {"state", "forget"}
  BY ArriveMoves, Zenon
<1>2. Sending' = Sending
  BY <1>1, SendingKept, Zenon DEF Committed
<1>3. CASE pc'[w] = "state"
  BY <1>2, <1>3, ArriveMoves, Zenon DEF B!vars
<1>4. CASE pc'[w] = "forget"
  <2>1. ops' = <<>> /\ \A v \in Worker : pc[v] = "idle"
    BY <1>1, <1>4, ArriveMoves, Zenon
  <2>2. \A n \in Node : Sending[n] = {}
    BY <2>1, SendingMember DEF Committed
  <2>3. Len(ops)' = 0
    BY <2>1
  <2> QED
    BY <1>2, <2>2, <2>3, Zenon DEF B!Next, B!Delete
<1> QED
  BY <1>1, <1>3, <1>4, Zenon

\* Every other step of a worker neither commits nor ends a broadcast.
LEMMA OtherSteps ==
    ASSUME TypeOK, NEW w \in Worker, Step(w), Moves(w),
           ~AppendOp(w), ~AppendFails(w), ~Broadcast(w)
    PROVE  UNCHANGED B!vars
<1>1. ops' = ops
  BY Zenon DEF Step, storeVars, Lookup, GetSnapshot, GetOpsSince, LoadFails,
     Install, LockAndApply, ApplyFails, AfterCommit, LockForSnapshot,
     GetLatestSeq, SaveSnapshot, SnapshotFails, Export, Reply, Forget
<1>2. CASE AfterCommit(w)
  <2>1. /\ pc[w] = "committed" /\ pc'[w] = "broadcast"
        /\ req'[w] = req[w] /\ seq'[w] = seq[w]
    BY <1>2, Zenon DEF TypeOK, AfterCommit, Goto
  <2>2. Sending' = Sending
    BY <2>1, SendingKept, Zenon DEF Moves, Committed
  <2> QED
    BY <1>1, <2>2, Zenon DEF B!vars
<1>3. CASE ~AfterCommit(w)
  <2>1. pc[w] \notin Committed /\ pc'[w] \notin Committed
    BY <1>3, Zenon DEF Step, TypeOK, Committed, Goto, Return, Lookup, GetSnapshot,
       GetOpsSince, LoadFails, Install, LockAndApply, ApplyFails,
       LockForSnapshot, GetLatestSeq, SaveSnapshot, SnapshotFails, Export,
       Reply, Forget
  <2>2. Sending' = Sending
    BY <2>1, SendingKept, Zenon DEF Moves
  <2> QED
    BY <1>1, <2>2, Zenon DEF B!vars
<1> QED
  BY <1>2, <1>3, Zenon

\* However many processes run, and whatever fails or crashes, a process
\* broadcasts one operation at a time, right after committing it and before it
\* commits another, until a DELETE overlaps (Submit, engine.go:96-145).
THEOREM StreamCorrect == Spec => B!Init /\ ImplementsStream
<1>1. Init => B!Init
  <2> SUFFICES ASSUME Init
               PROVE  B!Init
    BY Zenon
  <2>1. Len(ops) = 0 /\ \A v \in Worker : pc[v] = "idle"
    BY DEF Init
  <2>2. \A n \in Node : Sending[n] = {}
    BY <2>1, SendingMember DEF Committed
  <2> QED
    BY <2>1, <2>2, SendingFunction DEF B!Init
<1>2. ASSUME TypeOK, Base, Quiet, [Next]_vars, ~raced'
      PROVE  [B!Next]_(B!vars)
  <2>1. Orderly
    BY <1>2, CalmBefore, Zenon DEF Quiet
  <2>2. ASSUME NEW w \in Worker, Arrive(w)
        PROVE  [B!Next]_(B!vars)
    BY <1>2, <2>2, ArriveStreams, Zenon
  <2>3. ASSUME NEW w \in Worker, Step(w)
        PROVE  [B!Next]_(B!vars)
    <3>1. Moves(w)
      BY <1>2, <2>3, StepMoves, Zenon
    <3> QED
      BY <1>2, <2>1, <2>3, <3>1, AppendCommits, BroadcastEnds,
         AppendFailsSilently, OtherSteps, Zenon
  <2>4. CASE CreateDocument \/ UNCHANGED vars
    <3>1. UNCHANGED <<ops, pc, req, seq>>
      BY <2>4, Zenon DEF CreateDocument, vars, storeVars, workerVars
    <3> QED
      BY <3>1, Zenon DEF Sending, B!vars
  <2>5. ASSUME NEW n \in Node, Crash(n)
        PROVE  [B!Next]_(B!vars)
    BY <1>2, <2>5, CrashEnds, Zenon
  <2>6. CASE DeleteFails
    <3>1. /\ UNCHANGED <<pc, req, seq>> /\ ops' = <<>>
          /\ \A v \in Worker : pc[v] = "idle"
      BY <1>2, <2>6, DeleteMoves, Zenon
    <3>2. Sending' = Sending /\ \A n \in Node : Sending[n] = {}
      <4>1. Sending' = Sending
        BY <3>1, Zenon DEF Sending
      <4>2. \A n \in Node : Sending[n] = {}
        BY <3>1, SendingMember DEF Committed
      <4> QED
        BY <4>1, <4>2, Zenon
    <3>3. Len(ops)' = 0
      BY <3>1
    <3> QED
      BY <3>2, <3>3, Zenon DEF B!Next, B!Delete
  <2> QED
    BY <1>2, <2>2, <2>3, <2>4, <2>5, <2>6, Zenon DEF Next
<1>3. TypeOK /\ Base /\ Quiet /\ [Next]_vars => [~raced' => [B!Next]_(B!vars)]_vars
  BY <1>2, Zenon
<1> QED
  BY <1>1, <1>3, QuietInvariant, PTL DEF Spec, ImplementsStream
----------------------------------------------------------------------------
(* A single process.                                                       *)

\* The cached document contains the log, and the change about to be committed.
CacheCovers ==
    /\ \A n \in Node : docs[n] # Nil => Content(ops) \subseteq doc[docs[n]]
    /\ \A w \in Worker : pc[w] = "append" => req[w].change \in doc[st[w]]

\* What loadDoc has built contains the log, unless the cache was filled since.
LoadCovers ==
    /\ \A w \in Worker : pc[w] \in {"idle", "state", "getSnapshot"} =>
         seq[w] = 0 /\ loaded[w] = {}
    /\ \A w \in Worker : pc[w] = "getOps" =>
         seq[w] <= Len(ops) /\ Prefix(ops, seq[w]) \subseteq loaded[w]
    /\ \A w \in Worker : pc[w] = "install" /\ docs[req[w].node] = Nil =>
         Content(ops) \subseteq loaded[w]

\* What was acknowledged before a request is in the log, later in its answer.
FloorHeld ==
    /\ \A w \in Worker : pc[w] \notin {"idle", "forget"} =>
         floor[w] \subseteq Content(ops)
    /\ \A w \in Worker : pc[w] = "reply" => floor[w] \subseteq loaded[w]

Durable == CacheCovers /\ SnapshotReflectsOps /\ LoadCovers /\ FloorHeld

Covers == Solo /\ ~raced => Durable
----------------------------------------------------------------------------
(* Durable: nothing of the log is missing.                                 *)

\* A step that changes neither the log nor a document keeps the cache complete.
LEMMA CacheFrame ==
    ASSUME NEW w \in Worker, Moves(w), CacheCovers,
           UNCHANGED <<ops, docs, doc>>, pc'[w] # "append"
    PROVE  CacheCovers'
<1>1. \A v \in Worker : pc'[v] = "append" =>
         pc[v] = "append" /\ st'[v] = st[v] /\ req'[v] = req[v]
  BY Zenon DEF Moves, Others
<1>2. QED
  BY <1>1, Zenon DEF CacheCovers

\* A step outside loadDoc keeps what the others have loaded complete.
LEMMA LoadFrame ==
    ASSUME NEW w \in Worker, Moves(w), LoadCovers, UNCHANGED <<ops, docs>>,
           pc'[w] \notin {"getOps", "install"},
           pc'[w] \in {"idle", "state", "getSnapshot"} => seq'[w] = 0 /\ loaded'[w] = {}
    PROVE  LoadCovers'
<1>1. \A v \in Worker \ {w} :
         /\ pc'[v] = pc[v] /\ seq'[v] = seq[v]
         /\ loaded'[v] = loaded[v] /\ req'[v] = req[v]
  BY Zenon DEF Moves, Others
<1>2. QED
  BY <1>1, Zenon DEF LoadCovers

\* A step that only extends the log keeps every floor in it.
LEMMA FloorFrame ==
    ASSUME NEW w \in Worker, Moves(w), FloorHeld, pc[w] # "forget",
           Content(ops) \subseteq Content(ops'), pc'[w] # "reply"
    PROVE  FloorHeld'
<1>1. \A v \in Worker : pc'[v] \notin {"idle", "forget"} =>
         pc[v] \notin {"idle", "forget"} /\ floor'[v] = floor[v]
  BY Zenon DEF Moves, Others
<1>2. \A v \in Worker : pc'[v] = "reply" =>
         pc[v] = "reply" /\ floor'[v] = floor[v] /\ loaded'[v] = loaded[v]
  BY Zenon DEF Moves, Others
<1>3. QED
  BY <1>1, <1>2, Zenon DEF FloorHeld

\* A snapshot taken from a complete document, at a seq the log has reached,
\* reflects the log up to that seq (engine.go:136-140, 257).
LEMMA SnapshotAdded ==
    ASSUME SnapshotReflectsOps, ops \in Seq(Change), NEW n \in Nat, n <= Len(ops),
           NEW d, Content(ops) \subseteq d, snaps' = PutSnapshot(n, d), ops' = ops
    PROVE  SnapshotReflectsOps'
<1>1. Prefix(ops, n) \subseteq d
  BY SplitContent, Zenon
<1>2. QED
  BY <1>1 DEF SnapshotReflectsOps, PutSnapshot

\* One worker of a single process commits a change that its docState contains:
\* nobody else is loading, and everything stays complete (engine.go:112-119).
LEMMA LogGrows ==
    ASSUME TypeOK, Base, Orderly, Solo, Durable, NEW w \in Worker, Moves(w),
           pc[w] = "append", pc'[w] \notin {"append", "getOps", "install", "reply", "state", "getSnapshot"},
           pc'[w] = "idle" => seq'[w] = 0 /\ loaded'[w] = {},
           ops' = Append(ops, req[w].change), UNCHANGED <<snaps, docs, doc>>
    PROVE  Durable'
<1> USE DEF Durable
<1>1. /\ req[w] \in Request /\ req[w].call = "Submit"
      /\ st[w] \in DocState /\ st[w] # Nil
  BY NilAssumption, Zenon DEF Base, CallAt, Critical
<1>2. req[w].node \in Node /\ req[w].change \in Change
  BY <1>1, RequestFields, Zenon
<1>3. ops \in Seq(Change) /\ Len(ops) \in Nat
  BY DEF TypeOK
<1>4. /\ Len(ops') = Len(ops) + 1
      /\ Content(ops') = Content(ops) \cup {req[w].change}
      /\ \A n \in Nat : n <= Len(ops) => Prefix(ops', n) = Prefix(ops, n)
  BY <1>2, <1>3, AppendContent, Zenon
<1>5. st[w] = docs[req[w].node]
  BY <1>1, Zenon DEF Orderly, OneDocState
<1>6. \A n \in Node : docs[n] = st[w]
  BY <1>2, <1>5, Zenon DEF Solo
<1>7. req[w].change \in doc[st[w]]
  BY Zenon DEF CacheCovers
<1>8. CacheCovers'
  <2>1. \A n \in Node : docs'[n] # Nil => Content(ops') \subseteq doc'[docs'[n]]
    BY <1>4, <1>6, <1>7, Zenon DEF CacheCovers
  <2>2. \A v \in Worker : pc'[v] = "append" =>
           pc[v] = "append" /\ st'[v] = st[v] /\ req'[v] = req[v]
    BY Zenon DEF Moves, Others
  <2>3. QED
    BY <2>1, <2>2, Zenon DEF CacheCovers
<1>9. SnapshotReflectsOps'
  <2>1. \A s \in snaps : s.seq \in Nat /\ s.seq <= Len(ops) /\ Prefix(ops, s.seq) \subseteq s.state
    BY Zenon DEF SnapshotReflectsOps, TypeOK
  <2>2. \A s \in snaps : s.seq <= Len(ops') /\ Prefix(ops', s.seq) \subseteq s.state
    BY <1>3, <1>4, <2>1
  <2>3. QED
    BY <2>2, Zenon DEF SnapshotReflectsOps
<1>10. LoadCovers'
  <2>1. \A v \in Worker \ {w} :
           /\ pc'[v] = pc[v] /\ seq'[v] = seq[v]
           /\ loaded'[v] = loaded[v] /\ req'[v] = req[v]
    BY Zenon DEF Moves, Others
  <2>2. \A v \in Worker : pc'[v] \in {"idle", "state", "getSnapshot"} =>
           seq'[v] = 0 /\ loaded'[v] = {}
    BY <2>1, Zenon DEF LoadCovers
  <2>3. \A v \in Worker : pc'[v] = "getOps" =>
           seq'[v] <= Len(ops') /\ Prefix(ops', seq'[v]) \subseteq loaded'[v]
    <3>1. \A v \in Worker : pc'[v] = "getOps" =>
             /\ v # w /\ pc[v] = "getOps" /\ seq'[v] = seq[v] /\ loaded'[v] = loaded[v]
             /\ seq[v] \in Nat
      BY <2>1, Zenon DEF TypeOK
    <3>2. \A v \in Worker : pc'[v] = "getOps" =>
             seq[v] <= Len(ops) /\ Prefix(ops, seq[v]) \subseteq loaded[v]
      BY <3>1, Zenon DEF LoadCovers
    <3>3. QED
      BY <1>3, <1>4, <3>1, <3>2
  <2>4. \A v \in Worker : pc'[v] = "install" => docs'[req'[v].node] # Nil
    <3>1. ASSUME NEW v \in Worker, pc'[v] = "install"
          PROVE  docs'[req'[v].node] # Nil
      <4>1. pc[v] = "install" /\ req'[v] = req[v]
        BY <2>1, <3>1, Zenon
      <4>2. req[v] \in Request
        BY <4>1, Zenon DEF Base, CallAt
      <4>3. req[v].node \in Node
        BY <4>2, RequestFields, Zenon
      <4>4. QED
        BY <1>1, <1>6, <4>1, <4>3, Zenon
    <3>2. QED
      BY <3>1, Zenon
  <2>5. QED
    BY <2>2, <2>3, <2>4, Zenon DEF LoadCovers
<1>11. FloorHeld'
  BY <1>4, FloorFrame, Zenon
<1>12. QED
  BY <1>8, <1>9, <1>10, <1>11, Zenon

\* Every step inside a request keeps the log complete in memory and in the
\* snapshots, on a single process (engine.go:96-280).
LEMMA DurableStep ==
    ASSUME TypeOK, Base, Orderly, Solo, Durable, NEW w \in Worker, Step(w)
    PROVE  Durable'
<1> USE DEF TypeOK
<1>1. Moves(w)
  BY StepMoves, Zenon
<1>2. req[w] \in Request
  BY <1>1, Zenon DEF Moves, Base, CallAt
<1>3. req[w].node \in Node /\ (req[w].call = "Submit" => req[w].change \in Change)
  BY <1>2, RequestFields, Zenon
<1>4. ops \in Seq(Change) /\ Len(ops) \in Nat
  OBVIOUS
<1>5. pc[w] \in {"lock"} \cup Critical =>
         /\ st[w] \in DocState /\ st[w] # Nil /\ st[w] = docs[req[w].node]
         /\ Content(ops) \subseteq doc[st[w]]
  <2>1. pc[w] \in {"lock"} \cup Critical => st[w] \in DocState /\ st[w] # Nil
    BY NilAssumption, Zenon DEF Base, CallAt
  <2>2. st[w] # Nil => st[w] = docs[req[w].node]
    BY Zenon DEF Orderly, OneDocState
  <2>3. QED
    BY <1>3, <2>1, <2>2, Zenon DEF Durable, CacheCovers
<1>6. ASSUME Lookup(w)
      PROVE  Durable'
  <2>1. CacheCovers'
    BY <1>6, <1>1, CacheFrame, Zenon DEF Lookup, Goto, storeVars, memoryVars, Durable
  <2>2. SnapshotReflectsOps'
    BY <1>6, Zenon DEF Lookup, Goto, storeVars, memoryVars, Durable, SnapshotReflectsOps
  <2>3. LoadCovers'
    BY <1>6, <1>1, LoadFrame, Zenon DEF Lookup, Goto, storeVars, memoryVars, Durable, LoadCovers
  <2>4. FloorHeld'
    BY <1>6, <1>1, FloorFrame, Zenon DEF Lookup, Goto, storeVars, memoryVars, Durable
  <2>5. QED
    BY <2>1, <2>2, <2>3, <2>4, Zenon DEF Durable
<1>7. ASSUME GetSnapshot(w)
      PROVE  Durable'
  <2>1. CacheCovers'
    BY <1>7, <1>1, CacheFrame, Zenon DEF GetSnapshot, Goto, storeVars, memoryVars, Durable
  <2>2. SnapshotReflectsOps'
    BY <1>7, Zenon DEF GetSnapshot, Goto, storeVars, memoryVars, Durable, SnapshotReflectsOps
  <2>3. LoadCovers'
    <3>1. UNCHANGED <<ops, docs>> /\ pc[w] = "getSnapshot" /\ pc'[w] = "getOps"
      BY <1>7, Zenon DEF GetSnapshot, Goto, storeVars, memoryVars
    <3>2. seq'[w] <= Len(ops) /\ Prefix(ops, seq'[w]) \subseteq loaded'[w]
      <4>1. CASE seq' = seq /\ loaded' = loaded
        <5>1. seq[w] = 0
          BY <3>1, Zenon DEF Durable, LoadCovers
        <5>2. Prefix(ops, 0) = {}
          BY <1>4 DEF Prefix
        <5>3. QED
          BY <1>4, <4>1, <5>1, <5>2
      <4>2. ASSUME NEW s \in snaps, loaded' = [loaded EXCEPT ![w] = s.state],
                   seq' = [seq EXCEPT ![w] = s.seq]
            PROVE  seq'[w] <= Len(ops) /\ Prefix(ops, seq'[w]) \subseteq loaded'[w]
        BY <4>2, Zenon DEF Durable, SnapshotReflectsOps
      <4>3. QED
        BY <1>7, <4>1, <4>2, Zenon DEF GetSnapshot
    <3>3. \A v \in Worker \ {w} :
             /\ pc'[v] = pc[v] /\ seq'[v] = seq[v]
             /\ loaded'[v] = loaded[v] /\ req'[v] = req[v]
      BY <1>1, Zenon DEF Moves, Others
    <3>4. QED
      BY <3>1, <3>2, <3>3, Zenon DEF Durable, LoadCovers
  <2>4. FloorHeld'
    BY <1>7, <1>1, FloorFrame, Zenon DEF GetSnapshot, Goto, storeVars, memoryVars, Durable
  <2>5. QED
    BY <2>1, <2>2, <2>3, <2>4, Zenon DEF Durable
<1>8. ASSUME GetOpsSince(w)
      PROVE  Durable'
  <2>1. CacheCovers'
    BY <1>8, <1>1, CacheFrame, Zenon DEF GetOpsSince, Goto, storeVars, memoryVars, Durable
  <2>2. SnapshotReflectsOps'
    BY <1>8, Zenon DEF GetOpsSince, Goto, storeVars, memoryVars, Durable, SnapshotReflectsOps
  <2>3. LoadCovers'
    <3>1. UNCHANGED <<ops, docs>> /\ pc[w] = "getOps" /\ pc'[w] = "install"
      BY <1>8, Zenon DEF GetOpsSince, Goto, storeVars, memoryVars
    <3>2. Content(ops) \subseteq loaded'[w]
      <4>1. Content(ops) = Prefix(ops, seq[w]) \cup Since(ops, seq[w])
        BY <1>4, SplitContent, Zenon
      <4>2. Prefix(ops, seq[w]) \subseteq loaded[w]
        BY <3>1, Zenon DEF Durable, LoadCovers
      <4>3. loaded'[w] = loaded[w] \cup Since(ops, seq[w])
        BY <1>8, Zenon DEF GetOpsSince
      <4>4. QED
        BY <4>1, <4>2, <4>3, Zenon
    <3>3. \A v \in Worker \ {w} :
             /\ pc'[v] = pc[v] /\ seq'[v] = seq[v]
             /\ loaded'[v] = loaded[v] /\ req'[v] = req[v]
      BY <1>1, Zenon DEF Moves, Others
    <3>4. QED
      BY <3>1, <3>2, <3>3, Zenon DEF Durable, LoadCovers
  <2>4. FloorHeld'
    BY <1>8, <1>1, FloorFrame, Zenon DEF GetOpsSince, Goto, storeVars, memoryVars, Durable
  <2>5. QED
    BY <2>1, <2>2, <2>3, <2>4, Zenon DEF Durable
<1>9. ASSUME LoadFails(w)
      PROVE  Durable'
  <2>1. CacheCovers'
    BY <1>9, <1>1, CacheFrame, Zenon DEF LoadFails, Return, storeVars, memoryVars, Durable
  <2>2. SnapshotReflectsOps'
    BY <1>9, Zenon DEF LoadFails, Return, storeVars, memoryVars, Durable, SnapshotReflectsOps
  <2>3. LoadCovers'
    BY <1>9, <1>1, LoadFrame, Zenon DEF LoadFails, Return, storeVars, memoryVars, Durable
  <2>4. FloorHeld'
    BY <1>9, <1>1, FloorFrame, Zenon DEF LoadFails, Return, storeVars, memoryVars, Durable
  <2>5. QED
    BY <2>1, <2>2, <2>3, <2>4, Zenon DEF Durable
<1>10. ASSUME LockAndApply(w)
      PROVE  Durable'
  <2>1. CacheCovers'
    <3>1. /\ UNCHANGED <<ops, docs, st>> /\ pc[w] = "lock" /\ req'[w] = req[w]
          /\ doc' = [doc EXCEPT ![st[w]] = @ \cup {req[w].change}]
      BY <1>10, Zenon DEF LockAndApply, Goto, storeVars, memoryVars
    <3>2. st[w] \in DocState
      BY <1>5, <3>1, Zenon
    <3>3. \A p \in DocState : doc[p] \subseteq doc'[p]
      BY <3>1, <3>2, Zenon
    <3>4. req'[w].change \in doc'[st'[w]]
      BY <3>1, <3>2, Zenon
    <3>5. \A n \in Node : docs'[n] # Nil => Content(ops') \subseteq doc'[docs'[n]]
      BY <3>1, <3>3, Zenon DEF Durable, CacheCovers
    <3>6. \A v \in Worker \ {w} : pc'[v] = "append" =>
             /\ pc[v] = "append" /\ req'[v] = req[v] /\ st'[v] = st[v] /\ st[v] \in DocState
      BY <1>1, Zenon DEF Moves, Others, Base, CallAt, Critical
    <3>7. \A v \in Worker \ {w} : pc'[v] = "append" => req'[v].change \in doc'[st'[v]]
      BY <3>3, <3>6, Zenon DEF Durable, CacheCovers
    <3>8. QED
      BY <3>4, <3>5, <3>7, Zenon DEF CacheCovers
  <2>2. SnapshotReflectsOps'
    BY <1>10, Zenon DEF LockAndApply, Goto, storeVars, memoryVars, Durable, SnapshotReflectsOps
  <2>3. LoadCovers'
    BY <1>10, <1>1, LoadFrame, Zenon DEF LockAndApply, Goto, storeVars, memoryVars, Durable
  <2>4. FloorHeld'
    BY <1>10, <1>1, FloorFrame, Zenon DEF LockAndApply, Goto, storeVars, memoryVars, Durable
  <2>5. QED
    BY <2>1, <2>2, <2>3, <2>4, Zenon DEF Durable
<1>11. ASSUME ApplyFails(w)
      PROVE  Durable'
  <2>1. CacheCovers'
    BY <1>11, <1>1, CacheFrame, Zenon DEF ApplyFails, Return, storeVars, memoryVars, Durable
  <2>2. SnapshotReflectsOps'
    BY <1>11, Zenon DEF ApplyFails, Return, storeVars, memoryVars, Durable, SnapshotReflectsOps
  <2>3. LoadCovers'
    BY <1>11, <1>1, LoadFrame, Zenon DEF ApplyFails, Return, storeVars, memoryVars, Durable
  <2>4. FloorHeld'
    BY <1>11, <1>1, FloorFrame, Zenon DEF ApplyFails, Return, storeVars, memoryVars, Durable
  <2>5. QED
    BY <2>1, <2>2, <2>3, <2>4, Zenon DEF Durable
<1>12. ASSUME AfterCommit(w)
      PROVE  Durable'
  <2>1. CacheCovers'
    BY <1>12, <1>1, CacheFrame, Zenon DEF AfterCommit, Goto, storeVars, memoryVars, Durable
  <2>2. SnapshotReflectsOps'
    <3>1. pc[w] = "committed" /\ ops' = ops
      BY <1>12, Zenon DEF AfterCommit
    <3>2. seq[w] \in Nat /\ seq[w] <= Len(ops)
      BY <1>4, <3>1 DEF Orderly, SeqFresh, Committed
    <3>3. Content(ops) \subseteq doc[st[w]]
      BY <1>5, <3>1, Zenon DEF Critical
    <3>4. snaps' = snaps \/ snaps' = PutSnapshot(seq[w], doc[st[w]])
      BY <1>12, Zenon DEF AfterCommit
    <3>5. CASE snaps' = snaps
      BY <3>1, <3>5, Zenon DEF Durable, SnapshotReflectsOps
    <3>6. CASE snaps' = PutSnapshot(seq[w], doc[st[w]])
      BY <1>4, <3>1, <3>2, <3>3, <3>6, SnapshotAdded, Zenon DEF Durable
    <3>7. QED
      BY <3>4, <3>5, <3>6, Zenon
  <2>3. LoadCovers'
    BY <1>12, <1>1, LoadFrame, Zenon DEF AfterCommit, Goto, storeVars, memoryVars, Durable
  <2>4. FloorHeld'
    BY <1>12, <1>1, FloorFrame, Zenon DEF AfterCommit, Goto, storeVars, memoryVars, Durable
  <2>5. QED
    BY <2>1, <2>2, <2>3, <2>4, Zenon DEF Durable
<1>13. ASSUME Broadcast(w)
      PROVE  Durable'
  <2>1. CacheCovers'
    BY <1>13, <1>1, CacheFrame, Zenon DEF Broadcast, Return, storeVars, memoryVars, Durable
  <2>2. SnapshotReflectsOps'
    BY <1>13, Zenon DEF Broadcast, Return, storeVars, memoryVars, Durable, SnapshotReflectsOps
  <2>3. LoadCovers'
    BY <1>13, <1>1, LoadFrame, Zenon DEF Broadcast, Return, storeVars, memoryVars, Durable
  <2>4. FloorHeld'
    BY <1>13, <1>1, FloorFrame, Zenon DEF Broadcast, Return, storeVars, memoryVars, Durable
  <2>5. QED
    BY <2>1, <2>2, <2>3, <2>4, Zenon DEF Durable
<1>14. ASSUME LockForSnapshot(w)
      PROVE  Durable'
  <2>1. CacheCovers'
    BY <1>14, <1>1, CacheFrame, Zenon DEF LockForSnapshot, Goto, storeVars, memoryVars, Durable
  <2>2. SnapshotReflectsOps'
    BY <1>14, Zenon DEF LockForSnapshot, Goto, storeVars, memoryVars, Durable, SnapshotReflectsOps
  <2>3. LoadCovers'
    BY <1>14, <1>1, LoadFrame, Zenon DEF LockForSnapshot, Goto, storeVars, memoryVars, Durable
  <2>4. FloorHeld'
    BY <1>14, <1>1, FloorFrame, Zenon DEF LockForSnapshot, Goto, storeVars, memoryVars, Durable
  <2>5. QED
    BY <2>1, <2>2, <2>3, <2>4, Zenon DEF Durable
<1>15. ASSUME GetLatestSeq(w)
      PROVE  Durable'
  <2>1. CacheCovers'
    BY <1>15, <1>1, CacheFrame, Zenon DEF GetLatestSeq, Goto, storeVars, memoryVars, Durable
  <2>2. SnapshotReflectsOps'
    BY <1>15, Zenon DEF GetLatestSeq, Goto, storeVars, memoryVars, Durable, SnapshotReflectsOps
  <2>3. LoadCovers'
    BY <1>15, <1>1, LoadFrame, Zenon DEF GetLatestSeq, Goto, storeVars, memoryVars, Durable
  <2>4. FloorHeld'
    BY <1>15, <1>1, FloorFrame, Zenon DEF GetLatestSeq, Goto, storeVars, memoryVars, Durable
  <2>5. QED
    BY <2>1, <2>2, <2>3, <2>4, Zenon DEF Durable
<1>16. ASSUME SaveSnapshot(w)
      PROVE  Durable'
  <2>1. CacheCovers'
    BY <1>16, <1>1, CacheFrame, Zenon DEF SaveSnapshot, Return, storeVars, memoryVars, Durable
  <2>2. SnapshotReflectsOps'
    <3>1. /\ pc[w] = "save" /\ ops' = ops
          /\ snaps' = PutSnapshot(seq[w], doc[st[w]])
      BY <1>16, Zenon DEF SaveSnapshot
    <3>2. seq[w] \in Nat /\ seq[w] <= Len(ops)
      BY <1>4, <3>1, Zenon DEF Orderly, SeqFresh
    <3>3. Content(ops) \subseteq doc[st[w]]
      BY <1>5, <3>1, Zenon DEF Critical
    <3>4. QED
      BY <1>4, <3>1, <3>2, <3>3, SnapshotAdded, Zenon DEF Durable
  <2>3. LoadCovers'
    BY <1>16, <1>1, LoadFrame, Zenon DEF SaveSnapshot, Return, storeVars, memoryVars, Durable
  <2>4. FloorHeld'
    BY <1>16, <1>1, FloorFrame, Zenon DEF SaveSnapshot, Return, storeVars, memoryVars, Durable
  <2>5. QED
    BY <2>1, <2>2, <2>3, <2>4, Zenon DEF Durable
<1>17. ASSUME SnapshotFails(w)
      PROVE  Durable'
  <2>1. CacheCovers'
    BY <1>17, <1>1, CacheFrame, Zenon DEF SnapshotFails, Return, storeVars, memoryVars, Durable
  <2>2. SnapshotReflectsOps'
    BY <1>17, Zenon DEF SnapshotFails, Return, storeVars, memoryVars, Durable, SnapshotReflectsOps
  <2>3. LoadCovers'
    BY <1>17, <1>1, LoadFrame, Zenon DEF SnapshotFails, Return, storeVars, memoryVars, Durable
  <2>4. FloorHeld'
    BY <1>17, <1>1, FloorFrame, Zenon DEF SnapshotFails, Return, storeVars, memoryVars, Durable
  <2>5. QED
    BY <2>1, <2>2, <2>3, <2>4, Zenon DEF Durable
<1>18. ASSUME Export(w)
      PROVE  Durable'
  <2>1. CacheCovers'
    BY <1>18, <1>1, CacheFrame, Zenon DEF Export, Goto, storeVars, memoryVars, Durable
  <2>2. SnapshotReflectsOps'
    BY <1>18, Zenon DEF Export, Goto, storeVars, memoryVars, Durable, SnapshotReflectsOps
  <2>3. LoadCovers'
    BY <1>18, <1>1, LoadFrame, Zenon DEF Export, Goto, storeVars, memoryVars, Durable
  <2>4. FloorHeld'
    <3>1. pc[w] = "lock" /\ ops' = ops /\ pc'[w] = "reply" /\ loaded'[w] = doc[st[w]]
      BY <1>18, Zenon DEF Export, Goto, storeVars, memoryVars
    <3>2. floor'[w] = floor[w] /\ floor[w] \subseteq Content(ops)
      BY <1>1, <3>1, Zenon DEF Moves, Durable, FloorHeld
    <3>3. Content(ops) \subseteq doc[st[w]]
      BY <1>5, <3>1, Zenon
    <3>4. \A v \in Worker \ {w} :
             pc'[v] = pc[v] /\ floor'[v] = floor[v] /\ loaded'[v] = loaded[v]
      BY <1>1, Zenon DEF Moves, Others
    <3>5. QED
      BY <3>1, <3>2, <3>3, <3>4, Zenon DEF Durable, FloorHeld
  <2>5. QED
    BY <2>1, <2>2, <2>3, <2>4, Zenon DEF Durable
<1>19. ASSUME Reply(w)
      PROVE  Durable'
  <2>1. CacheCovers'
    BY <1>19, <1>1, CacheFrame, Zenon DEF Reply, Return, storeVars, memoryVars, Durable
  <2>2. SnapshotReflectsOps'
    BY <1>19, Zenon DEF Reply, Return, storeVars, memoryVars, Durable, SnapshotReflectsOps
  <2>3. LoadCovers'
    BY <1>19, <1>1, LoadFrame, Zenon DEF Reply, Return, storeVars, memoryVars, Durable
  <2>4. FloorHeld'
    BY <1>19, <1>1, FloorFrame, Zenon DEF Reply, Return, storeVars, memoryVars, Durable
  <2>5. QED
    BY <2>1, <2>2, <2>3, <2>4, Zenon DEF Durable
<1>20. ASSUME Install(w)
      PROVE  Durable'
  <2>1. CacheCovers'
    <3>1. ops' = ops /\ pc[w] = "install" /\ pc'[w] = "lock"
      BY <1>20, Zenon DEF Install, Goto, storeVars, memoryVars
    <3>2. \A v \in Worker : pc'[v] = "append" =>
             /\ v # w /\ pc[v] = "append" /\ req'[v] = req[v] /\ st'[v] = st[v]
             /\ st[v] \in DocState
      BY <1>1, <3>1, Zenon DEF Moves, Others, Base, CallAt, Critical
    <3>3. CASE docs[req[w].node] # Nil
      <4>1. UNCHANGED <<docs, doc>>
        BY <1>20, <3>3, Zenon DEF Install
      <4>2. QED
        BY <3>1, <3>2, <4>1, Zenon DEF Durable, CacheCovers
    <3>4. CASE docs[req[w].node] = Nil
      <4>1. PICK p \in DocState :
                /\ \A v \in Worker : st[v] # p
                /\ docs' = [docs EXCEPT ![req[w].node] = p]
                /\ doc' = [doc EXCEPT ![p] = loaded[w]]
        BY <1>20, <3>4, Zenon DEF Install
      <4>2. Content(ops) \subseteq loaded[w]
        BY <3>1, <3>4, Zenon DEF Durable, LoadCovers
      <4>3. \A n \in Node : docs'[n] = p
        BY <1>3, <4>1, Zenon DEF Solo
      <4>4. \A n \in Node : Content(ops') \subseteq doc'[docs'[n]]
        BY <3>1, <4>1, <4>2, <4>3
      <4>5. \A v \in Worker : pc'[v] = "append" => req'[v].change \in doc'[st'[v]]
        BY <3>2, <4>1, Zenon DEF Durable, CacheCovers
      <4>6. QED
        BY <4>4, <4>5, Zenon DEF CacheCovers
    <3>5. QED
      BY <3>3, <3>4, Zenon
  <2>2. SnapshotReflectsOps'
    BY <1>20, Zenon DEF Install, Goto, storeVars, memoryVars, Durable, SnapshotReflectsOps
  <2>3. LoadCovers'
    <3>1. ops' = ops /\ pc[w] = "install" /\ pc'[w] = "lock"
      BY <1>20, Zenon DEF Install, Goto, storeVars, memoryVars
    <3>2. \A v \in Worker \ {w} :
             /\ pc'[v] = pc[v] /\ seq'[v] = seq[v]
             /\ loaded'[v] = loaded[v] /\ req'[v] = req[v]
      BY <1>1, Zenon DEF Moves, Others
    <3>3. \A n \in Node : docs[n] # Nil => docs'[n] # Nil
      BY <1>20, NilAssumption, Zenon DEF Install
    <3>4. \A v \in Worker : pc[v] = "install" => req[v].node \in Node
      BY RequestFields, Zenon DEF Base, CallAt, Entering
    <3>5. \A v \in Worker : pc'[v] = "install" /\ docs'[req'[v].node] = Nil =>
             Content(ops') \subseteq loaded'[v]
      BY <3>1, <3>2, <3>3, <3>4, Zenon DEF Durable, LoadCovers
    <3>6. QED
      BY <3>1, <3>2, <3>5, Zenon DEF Durable, LoadCovers
  <2>4. FloorHeld'
    BY <1>20, <1>1, FloorFrame, Zenon DEF Install, Goto, storeVars, memoryVars, Durable
  <2>5. QED
    BY <2>1, <2>2, <2>3, <2>4, Zenon DEF Durable
<1>21. ASSUME Forget(w)
      PROVE  Durable'
  <2>1. CacheCovers'
    <3>1. ops' = ops /\ doc' = doc /\ docs' = [docs EXCEPT ![req[w].node] = Nil]
      BY <1>21, Zenon DEF Forget, Return, storeVars, memoryVars
    <3>2. \A v \in Worker : pc'[v] = "idle"
      BY <1>21, <1>1, Zenon DEF Forget, Return, storeVars, memoryVars, Moves, Others, Orderly, ForgetAlone
    <3>3. \A n \in Node : docs'[n] = Nil
      BY <1>3, <3>1, Zenon DEF Solo
    <3>4. QED
      BY <3>2, <3>3, Zenon DEF CacheCovers
  <2>2. SnapshotReflectsOps'
    BY <1>21, Zenon DEF Forget, Return, storeVars, memoryVars, Durable, SnapshotReflectsOps
  <2>3. LoadCovers'
    <3>1. \A v \in Worker : pc'[v] = "idle"
      BY <1>21, <1>1, Zenon DEF Forget, Return, storeVars, memoryVars, Moves, Others, Orderly, ForgetAlone
    <3>2. \A v \in Worker \ {w} :
             pc[v] = "idle" /\ seq'[v] = seq[v] /\ loaded'[v] = loaded[v]
      BY <1>21, <1>1, Zenon DEF Forget, Return, storeVars, memoryVars, Moves, Others, Orderly, ForgetAlone
    <3>3. seq'[w] = 0 /\ loaded'[w] = {}
      BY <1>21, Zenon DEF Forget, Return, storeVars, memoryVars
    <3>4. QED
      BY <3>1, <3>2, <3>3, Zenon DEF Durable, LoadCovers
  <2>4. FloorHeld'
    <3>1. \A v \in Worker : pc'[v] = "idle"
      BY <1>21, <1>1, Zenon DEF Forget, Return, storeVars, memoryVars, Moves, Others, Orderly, ForgetAlone
    <3>2. QED
      BY <3>1, Zenon DEF FloorHeld
  <2>5. QED
    BY <2>1, <2>2, <2>3, <2>4, Zenon DEF Durable
<1>22. ASSUME AppendOp(w)
      PROVE  Durable'
  BY <1>22, <1>1, LogGrows, Zenon DEF AppendOp, Goto, memoryVars
<1>23. ASSUME AppendFails(w)
      PROVE  Durable'
  <2>1. /\ pc[w] = "append" /\ pc'[w] = "idle" /\ seq'[w] = 0 /\ loaded'[w] = {}
        /\ UNCHANGED <<snaps, docs, doc>>
    BY <1>23, Zenon DEF AppendFails, Return
  <2>2. CASE ops' = ops
    <3>1. CacheCovers'
      BY <1>1, <2>1, <2>2, CacheFrame, Zenon DEF Durable, Moves, Others
    <3>2. SnapshotReflectsOps'
      BY <2>1, <2>2, Zenon DEF Durable, SnapshotReflectsOps
    <3>3. LoadCovers'
      BY <1>1, <2>1, <2>2, LoadFrame, Zenon DEF Durable
    <3>4. FloorHeld'
      BY <1>1, <2>1, <2>2, FloorFrame, Zenon DEF Durable
    <3>5. QED
      BY <3>1, <3>2, <3>3, <3>4, Zenon DEF Durable
  <2>3. CASE ops' = Append(ops, req[w].change)
    BY <1>1, <2>1, <2>3, LogGrows, Zenon
  <2>4. QED
    BY <1>23, <2>2, <2>3, Zenon DEF AppendFails
<1>24. QED
  BY <1>6, <1>7, <1>8, <1>9, <1>10, <1>11, <1>12, <1>13, <1>14, <1>15, <1>16, <1>17, <1>18, <1>19, <1>20, <1>21, <1>22, <1>23, Zenon DEF Step

\* A new request, an empty document, a crash and a stuttering step keep it.
LEMMA DurableOther ==
    ASSUME TypeOK, Base, Orderly, Solo, Durable,
           \/ \E w \in Worker : Arrive(w) /\ ~raced'
           \/ DeleteFails /\ ~raced'
           \/ CreateDocument
           \/ \E n \in Node : Crash(n)
           \/ UNCHANGED vars
    PROVE  Durable'
<1>1. CASE \E w \in Worker : Arrive(w) /\ ~raced'
  <2>1. PICK w \in Worker : Arrive(w) /\ ~raced'
    BY <1>1, Zenon
  <2>2. /\ pc[w] = "idle" /\ st'[w] = st[w] /\ Others(w)
        /\ UNCHANGED <<docs, doc>> /\ floor'[w] = acked
        /\ pc'[w] \in {"state", "forget"}
    BY <2>1, ArriveMoves, Zenon
  <2>3. \A v \in Worker \ {w} :
           /\ pc'[v] = pc[v] /\ req'[v] = req[v] /\ st'[v] = st[v]
           /\ loaded'[v] = loaded[v] /\ seq'[v] = seq[v] /\ floor'[v] = floor[v]
    BY <2>2, Zenon DEF Others
  <2>4. seq'[w] = seq[w] /\ loaded'[w] = loaded[w]
    BY <2>1, Zenon DEF Arrive, CallSubmit, CallRead, CallDelete, Begin
  <2>5. CASE pc'[w] = "state"
    <3>1. UNCHANGED <<ops, snaps>>
      BY <2>1, <2>5, ArriveMoves, Zenon
    <3>2. acked \subseteq Content(ops)
      BY Zenon DEF Orderly, SeqFresh
    <3>3. CacheCovers'
      BY <2>2, <2>3, <2>5, <3>1, Zenon DEF Durable, CacheCovers
    <3>4. SnapshotReflectsOps'
      BY <3>1, Zenon DEF Durable, SnapshotReflectsOps
    <3>5. LoadCovers'
      BY <2>2, <2>3, <2>4, <2>5, <3>1, Zenon DEF Durable, LoadCovers
    <3>6. FloorHeld'
      BY <2>2, <2>3, <2>5, <3>1, <3>2, Zenon DEF Durable, FloorHeld
    <3>7. QED
      BY <3>3, <3>4, <3>5, <3>6, Zenon DEF Durable
  <2>6. CASE pc'[w] = "forget"
    <3>1. ops' = <<>> /\ snaps' = {} /\ \A v \in Worker \ {w} : pc[v] = "idle"
      BY <2>1, <2>6, ArriveMoves, Zenon
    <3>2. \A v \in Worker : pc'[v] \in {"idle", "forget"}
      BY <2>3, <2>6, <3>1, Zenon
    <3>3. CacheCovers'
      BY <3>1, <3>2, EmptyContent, Zenon DEF CacheCovers
    <3>4. SnapshotReflectsOps'
      BY <3>1, Zenon DEF SnapshotReflectsOps
    <3>5. LoadCovers'
      BY <2>3, <2>6, <3>1, <3>2, Zenon DEF Durable, LoadCovers
    <3>6. FloorHeld'
      BY <3>2, Zenon DEF FloorHeld
    <3>7. QED
      BY <3>3, <3>4, <3>5, <3>6, Zenon DEF Durable
  <2>7. QED
    BY <2>2, <2>5, <2>6, Zenon
<1>6. CASE DeleteFails /\ ~raced'
  <2>1. /\ UNCHANGED <<docs, doc, pc, req, st, loaded, seq, floor>>
        /\ ops' = <<>> /\ snaps' = {}
        /\ \A v \in Worker : pc[v] = "idle"
    BY <1>6, DeleteMoves, Zenon
  <2>2. CacheCovers'
    BY <2>1, EmptyContent, Zenon DEF CacheCovers
  <2>3. SnapshotReflectsOps'
    BY <2>1, Zenon DEF SnapshotReflectsOps
  <2>4. LoadCovers'
    BY <2>1, Zenon DEF Durable, LoadCovers
  <2>5. FloorHeld'
    BY <2>1, Zenon DEF FloorHeld
  <2>6. QED
    BY <2>2, <2>3, <2>4, <2>5, Zenon DEF Durable
<1>2. CASE CreateDocument
  BY <1>2, Zenon DEF CreateDocument, memoryVars, workerVars, historyVars, Durable,
     CacheCovers, SnapshotReflectsOps, LoadCovers, FloorHeld
<1>3. CASE \E n \in Node : Crash(n)
  <2>1. PICK n \in Node : Crash(n)
    BY <1>3, Zenon
  <2>2. \A w \in Worker : pc[w] # "idle" => req[w].node = n
    <3>1. \A w \in Worker : pc[w] # "idle" => req[w].node \in Node
      BY RequestFields, Zenon DEF Base, CallAt
    <3>2. QED
      BY <3>1, Zenon DEF Solo
  <2>3. \A w \in Worker : pc'[w] = "idle" /\ seq'[w] = 0 /\ loaded'[w] = {}
    <3>1. \A w \in Worker : pc[w] = "idle" => seq[w] = 0 /\ loaded[w] = {}
      BY Zenon DEF Durable, LoadCovers
    <3>2. QED
      BY <2>1, <2>2, <3>1, Zenon DEF Crash, Busy, TypeOK
  <2>4. \A m \in Node : docs'[m] = Nil
    BY <2>1, Zenon DEF Crash, Solo, TypeOK
  <2>5. UNCHANGED <<ops, snaps>>
    BY <2>1, Zenon DEF Crash, storeVars
  <2>6. QED
    BY <2>3, <2>4, <2>5, Zenon DEF Durable, CacheCovers, SnapshotReflectsOps,
       LoadCovers, FloorHeld
<1>4. CASE UNCHANGED vars
  BY <1>4, Zenon DEF vars, storeVars, memoryVars, workerVars, historyVars, Durable,
     CacheCovers, SnapshotReflectsOps, LoadCovers, FloorHeld
<1>5. QED
  BY <1>1, <1>2, <1>3, <1>4, <1>6, Zenon

\* Completeness is inductive, given the process-independent invariant.
LEMMA StepCovers == TypeOK /\ Base /\ Quiet /\ Covers /\ [Next]_vars => Covers'
<1> SUFFICES ASSUME TypeOK, Base, Quiet, Covers, [Next]_vars, Solo, ~raced'
             PROVE  Durable'
  BY Zenon DEF Covers, Solo
<1>1. Orderly /\ Durable
  BY CalmBefore, Zenon DEF Quiet, Covers
<1>2. CASE \E w \in Worker : Step(w)
  BY <1>1, <1>2, DurableStep, Zenon
<1>3. CASE ~ \E w \in Worker : Step(w)
  BY <1>1, <1>3, DurableOther, Zenon DEF Next
<1>4. QED
  BY <1>2, <1>3, Zenon

\* Nothing is cached, stored or being loaded at the start (engine.go:70-90).
LEMMA InitCovers == Init => Covers
<1> SUFFICES ASSUME Init
             PROVE  Durable
  BY Zenon DEF Covers
<1>1. QED
  BY EmptyContent, Zenon DEF Init, Durable, CacheCovers, SnapshotReflectsOps,
     LoadCovers, FloorHeld

\* The inductive invariant of a single process, without Exact.
THEOREM DurabilityInvariant == Spec => [](TypeOK /\ Base /\ Quiet /\ Covers)
<1>1. QED
  BY InitTyped, InitQuiet, InitCovers, StepTyped, StepQuiet, StepCovers, PTL
  DEF Spec

\* Every snapshot of a single process, periodic or manual, honours the contract
\* of Store.SaveSnapshot (engine.go:136-140, 246-261).
THEOREM SnapshotCorrect == Spec => []SnapshotSound
<1>1. Covers => SnapshotSound
  BY Zenon DEF Covers, Durable, SnapshotSound
<1>2. QED
  BY <1>1, DurabilityInvariant, PTL

\* A change that was acknowledged is in what a restart rebuilds, whichever
\* snapshot it starts from and wherever a crash fell (engine.go:224-242).
THEOREM DurabilityCorrect == Spec => []AckedSurviveRestart
<1>1. TypeOK /\ Quiet /\ Covers => AckedSurviveRestart
  <2> SUFFICES ASSUME TypeOK, Orderly, Durable
               PROVE  /\ acked \subseteq Content(ops)
                      /\ \A s \in snaps : acked \subseteq s.state \cup Since(ops, s.seq)
    BY Zenon DEF Quiet, Covers, AckedSurviveRestart
  <2>1. acked \subseteq Content(ops)
    BY Zenon DEF Orderly, SeqFresh
  <2>2. ASSUME NEW s \in snaps
        PROVE  acked \subseteq s.state \cup Since(ops, s.seq)
    <3>1. s.seq \in Nat /\ ops \in Seq(Change)
      BY Zenon DEF TypeOK
    <3>2. Content(ops) = Prefix(ops, s.seq) \cup Since(ops, s.seq)
      BY <3>1, SplitContent, Zenon
    <3>3. Prefix(ops, s.seq) \subseteq s.state
      BY Zenon DEF Durable, SnapshotReflectsOps
    <3>4. QED
      BY <2>1, <3>2, <3>3, Zenon
  <2>3. QED
    BY <2>1, <2>2, Zenon
<1>2. QED
  BY <1>1, DurabilityInvariant, PTL

\* An export contains everything acknowledged before it was requested, even if
\* the document had to be loaded again in between (engine.go:264-272).
THEOREM ExportCorrect == Spec => []ExportReadsAcked
<1>1. Covers => ExportReadsAcked
  BY Zenon DEF Covers, Durable, FloorHeld, ExportReadsAcked
<1>2. QED
  BY <1>1, DurabilityInvariant, PTL
----------------------------------------------------------------------------
(* The cache contains nothing else.                                        *)

\* The change the worker has applied and not yet committed.
Pending(w) == IF pc[w] = "append" THEN {req[w].change} ELSE {}

Known == Content(ops) \cup failed

ExactLoads ==
    \A w \in Worker : pc[w] \in {"getOps", "install"} => loaded[w] \subseteq Known

ExactCache ==
    (\A w \in Worker : pc[w] # "forget") =>
        \A n \in Node : docs[n] # Nil =>
            doc[docs[n]] \subseteq Known \cup UNION {Pending(w) : w \in Worker}

Exact == (\A s \in snaps : s.state \subseteq Known) /\ ExactLoads /\ ExactCache

Bounded == Solo /\ ~raced => Exact

\* The inductive invariant.
IInv == TypeOK /\ Base /\ Quiet /\ Covers /\ Bounded
----------------------------------------------------------------------------
(* Exact: nothing but the log and failed commits is in the cache.          *)

\* A step outside loadDoc leaves what the others have loaded exact.
LEMMA ExactLoadsFrame ==
    ASSUME NEW w \in Worker, Moves(w), ExactLoads, Known \subseteq Known',
           pc'[w] \notin {"getOps", "install"}
    PROVE  ExactLoads'
BY Zenon DEF Moves, Others, ExactLoads

\* A step that changes no document, and whose pending change (if any) has
\* become known, leaves the cache exact.
LEMMA ExactCacheFrame ==
    ASSUME NEW w \in Worker, Moves(w), ExactCache, Known \subseteq Known',
           UNCHANGED <<docs, doc>>, pc[w] # "forget",
           pc[w] = "append" => req[w].change \in Known'
    PROVE  ExactCache'
<1> SUFFICES ASSUME \A v \in Worker : pc'[v] # "forget",
                    NEW n \in Node, docs'[n] # Nil,
                    NEW c \in doc'[docs'[n]]
             PROVE  c \in Known' \cup UNION {Pending(v)' : v \in Worker}
  BY Zenon DEF ExactCache
<1>1. \A v \in Worker : pc[v] # "forget"
  BY Zenon DEF Moves, Others
<1>2. c \in Known \cup UNION {Pending(v) : v \in Worker}
  BY <1>1, Zenon DEF ExactCache
<1>3. ASSUME NEW v \in Worker, c \in Pending(v)
      PROVE  c \in Known' \/ c \in Pending(v)'
  <2>1. pc[v] = "append" /\ c = req[v].change
    BY <1>3, Zenon DEF Pending
  <2>2. CASE v = w
    BY <2>1, <2>2, Zenon
  <2>3. CASE v # w
    BY <2>1, <2>3, Zenon DEF Moves, Others, Pending
  <2>4. QED
    BY <2>2, <2>3, Zenon
<1>4. QED
  BY <1>2, <1>3, Zenon

\* While a worker of a single process is past its commit or in Snapshot, no
\* change is applied and uncommitted: both would hold the same mutex.
LEMMA NonePending ==
    ASSUME TypeOK, Base, Orderly, Solo, NEW w \in Worker,
           pc[w] \in Critical \ {"append"}, ExactCache
    PROVE  doc[st[w]] \subseteq Known
<1>1. \A v \in Worker : pc[v] \in Critical =>
         /\ st[v] # Nil /\ mu[st[v]] = v /\ req[v] \in Request
  BY NilAssumption, Zenon DEF Base, CallAt, Critical
<1>2. \A v \in Worker : pc[v] \in Critical =>
         req[v].node \in Node /\ st[v] = docs[req[v].node]
  BY <1>1, RequestFields, Zenon DEF Orderly, OneDocState
<1>3. \A v \in Worker : pc[v] # "append"
  <2> SUFFICES ASSUME NEW v \in Worker, pc[v] = "append"
               PROVE  FALSE
    BY Zenon
  <2>1. pc[v] \in Critical /\ pc[w] \in Critical
    BY Zenon DEF Critical
  <2>2. req[v].node = req[w].node
    BY <1>2, <2>1, Zenon DEF Solo
  <2>3. st[v] = st[w]
    BY <1>2, <2>1, <2>2, Zenon
  <2>4. v = w
    BY <1>1, <2>1, <2>3, Zenon
  <2>5. QED
    BY <2>4, Zenon
<1>4. \A v \in Worker : Pending(v) = {}
  BY <1>3, Zenon DEF Pending
<1>5. \A v \in Worker : pc[v] # "forget"
  BY Zenon DEF Orderly, ForgetAlone, Critical
<1>6. doc[st[w]] \subseteq Known \cup UNION {Pending(v) : v \in Worker}
  BY <1>1, <1>2, <1>5, Zenon DEF ExactCache
<1>7. QED
  BY <1>4, <1>6, Zenon

\* Every step inside a request puts only known changes into a document, a
\* snapshot or the cache, on a single process (engine.go:96-280).
LEMMA ExactStep ==
    ASSUME TypeOK, Base, Orderly, Solo, Durable, Exact, NEW w \in Worker, Step(w)
    PROVE  Exact'
<1> USE DEF TypeOK
<1>1. Moves(w)
  BY StepMoves, Zenon
<1>2. req[w] \in Request
  BY <1>1, Zenon DEF Moves, Base, CallAt
<1>3. req[w].node \in Node /\ (req[w].call = "Submit" => req[w].change \in Change)
  BY <1>2, RequestFields, Zenon
<1>4. pc[w] \in {"lock"} \cup Critical =>
         st[w] \in DocState /\ st[w] # Nil /\ st[w] = docs[req[w].node]
  BY NilAssumption DEF Base, CallAt, Orderly, OneDocState
<1>5. ASSUME Lookup(w)
      PROVE  Exact'
  <2>1. Known \subseteq Known'
    BY <1>5, Zenon DEF Lookup, Goto, storeVars, memoryVars, historyVars, Known
  <2>2. (\A s \in snaps : s.state \subseteq Known)'
    BY <1>5, <2>1, Zenon DEF Lookup, Goto, storeVars, memoryVars, historyVars, Exact
  <2>3. ExactLoads'
    BY <1>5, <1>1, <2>1, ExactLoadsFrame, Zenon DEF Lookup, Goto, storeVars, memoryVars, historyVars, Exact
  <2>4. ExactCache'
    BY <1>5, <1>1, <2>1, ExactCacheFrame, Zenon DEF Lookup, Goto, storeVars, memoryVars, historyVars, Exact
  <2>5. QED
    BY <2>2, <2>3, <2>4, Zenon DEF Exact
<1>6. ASSUME GetSnapshot(w)
      PROVE  Exact'
  <2>1. Known \subseteq Known'
    BY <1>6, Zenon DEF GetSnapshot, Goto, storeVars, memoryVars, historyVars, Known
  <2>2. (\A s \in snaps : s.state \subseteq Known)'
    BY <1>6, <2>1, Zenon DEF GetSnapshot, Goto, storeVars, memoryVars, historyVars, Exact
  <2>3. ExactLoads'
    <3>1. pc[w] = "getSnapshot"
      BY <1>6, Zenon DEF GetSnapshot
    <3>2. loaded'[w] \subseteq Known
      <4>1. CASE loaded' = loaded
        BY <3>1, <4>1, Zenon DEF Durable, LoadCovers
      <4>2. ASSUME NEW s \in snaps, loaded' = [loaded EXCEPT ![w] = s.state]
            PROVE  loaded'[w] \subseteq Known
        BY <4>2, Zenon DEF Exact
      <4>3. QED
        BY <1>6, <4>1, <4>2, Zenon DEF GetSnapshot
    <3>3. QED
      BY <1>1, <2>1, <3>2, Zenon DEF Moves, Others, Exact, ExactLoads
  <2>4. ExactCache'
    BY <1>6, <1>1, <2>1, ExactCacheFrame, Zenon DEF GetSnapshot, Goto, storeVars, memoryVars, historyVars, Exact
  <2>5. QED
    BY <2>2, <2>3, <2>4, Zenon DEF Exact
<1>7. ASSUME GetOpsSince(w)
      PROVE  Exact'
  <2>1. Known \subseteq Known'
    BY <1>7, Zenon DEF GetOpsSince, Goto, storeVars, memoryVars, historyVars, Known
  <2>2. (\A s \in snaps : s.state \subseteq Known)'
    BY <1>7, <2>1, Zenon DEF GetOpsSince, Goto, storeVars, memoryVars, historyVars, Exact
  <2>3. ExactLoads'
    <3>1. pc[w] = "getOps" /\ loaded'[w] = loaded[w] \cup Since(ops, seq[w])
      BY <1>7, Zenon DEF GetOpsSince
    <3>2. Since(ops, seq[w]) \subseteq Known
      BY SplitContent DEF Known
    <3>3. loaded'[w] \subseteq Known
      BY <3>1, <3>2, Zenon DEF Exact, ExactLoads
    <3>4. QED
      BY <1>1, <2>1, <3>3, Zenon DEF Moves, Others, Exact, ExactLoads
  <2>4. ExactCache'
    BY <1>7, <1>1, <2>1, ExactCacheFrame, Zenon DEF GetOpsSince, Goto, storeVars, memoryVars, historyVars, Exact
  <2>5. QED
    BY <2>2, <2>3, <2>4, Zenon DEF Exact
<1>8. ASSUME LoadFails(w)
      PROVE  Exact'
  <2>1. Known \subseteq Known'
    BY <1>8, Zenon DEF LoadFails, Return, storeVars, memoryVars, historyVars, Known
  <2>2. (\A s \in snaps : s.state \subseteq Known)'
    BY <1>8, <2>1, Zenon DEF LoadFails, Return, storeVars, memoryVars, historyVars, Exact
  <2>3. ExactLoads'
    BY <1>8, <1>1, <2>1, ExactLoadsFrame, Zenon DEF LoadFails, Return, storeVars, memoryVars, historyVars, Exact
  <2>4. ExactCache'
    BY <1>8, <1>1, <2>1, ExactCacheFrame, Zenon DEF LoadFails, Return, storeVars, memoryVars, historyVars, Exact
  <2>5. QED
    BY <2>2, <2>3, <2>4, Zenon DEF Exact
<1>9. ASSUME LockAndApply(w)
      PROVE  Exact'
  <2>1. Known \subseteq Known'
    BY <1>9, Zenon DEF LockAndApply, Goto, storeVars, memoryVars, historyVars, Known
  <2>2. (\A s \in snaps : s.state \subseteq Known)'
    BY <1>9, <2>1, Zenon DEF LockAndApply, Goto, storeVars, memoryVars, historyVars, Exact
  <2>3. ExactLoads'
    BY <1>9, <1>1, <2>1, ExactLoadsFrame, Zenon DEF LockAndApply, Goto, storeVars, memoryVars, historyVars, Exact
  <2>4. ExactCache'
    <3>1. /\ docs' = docs /\ pc[w] = "lock" /\ pc'[w] = "append" /\ req'[w] = req[w]
          /\ doc' = [doc EXCEPT ![st[w]] = @ \cup {req[w].change}]
      BY <1>9, Zenon DEF LockAndApply, Goto, storeVars, memoryVars, historyVars
    <3>2. SUFFICES ASSUME \A v \in Worker : pc'[v] # "forget",
                          NEW n \in Node, docs'[n] # Nil,
                          NEW c \in doc'[docs'[n]]
                   PROVE  c \in Known' \cup UNION {Pending(v)' : v \in Worker}
      BY Zenon DEF ExactCache
    <3>3. Pending(w)' = {req[w].change}
      BY <3>1, Zenon DEF Pending
    <3>4. \A v \in Worker : Pending(v) \subseteq Pending(v)'
      BY <1>1, <3>1, Zenon DEF Moves, Others, Pending
    <3>5. \A v \in Worker : pc[v] # "forget"
      BY <1>1, <3>1, <3>2, Zenon DEF Moves, Others
    <3>6. c \in doc[docs[n]] \/ c = req[w].change
      BY <3>1, <3>2, Zenon
    <3>7. c \in doc[docs[n]] => c \in Known \cup UNION {Pending(v) : v \in Worker}
      BY <3>1, <3>2, <3>5, Zenon DEF Exact, ExactCache
    <3>8. QED
      BY <2>1, <3>3, <3>4, <3>6, <3>7
  <2>5. QED
    BY <2>2, <2>3, <2>4, Zenon DEF Exact
<1>10. ASSUME ApplyFails(w)
      PROVE  Exact'
  <2>1. Known \subseteq Known'
    BY <1>10, Zenon DEF ApplyFails, Return, storeVars, memoryVars, historyVars, Known
  <2>2. (\A s \in snaps : s.state \subseteq Known)'
    BY <1>10, <2>1, Zenon DEF ApplyFails, Return, storeVars, memoryVars, historyVars, Exact
  <2>3. ExactLoads'
    BY <1>10, <1>1, <2>1, ExactLoadsFrame, Zenon DEF ApplyFails, Return, storeVars, memoryVars, historyVars, Exact
  <2>4. ExactCache'
    BY <1>10, <1>1, <2>1, ExactCacheFrame, Zenon DEF ApplyFails, Return, storeVars, memoryVars, historyVars, Exact
  <2>5. QED
    BY <2>2, <2>3, <2>4, Zenon DEF Exact
<1>11. ASSUME AppendOp(w)
      PROVE  Exact'
  <2>1. Known \subseteq Known' /\ req[w].change \in Known'
    <3>1. pc[w] = "append" /\ ops' = Append(ops, req[w].change) /\ failed' = failed
      BY <1>11, Zenon DEF AppendOp, historyVars
    <3>2. req[w].change \in Change
      BY <1>3, <3>1, Zenon DEF Base, CallAt
    <3>3. Content(ops') = Content(ops) \cup {req[w].change}
      BY <3>1, <3>2, AppendContent, Zenon
    <3>4. QED
      BY <3>1, <3>3, Zenon DEF Known
  <2>2. (\A s \in snaps : s.state \subseteq Known)'
    BY <1>11, <2>1, Zenon DEF AppendOp, Goto, storeVars, memoryVars, historyVars, Exact
  <2>3. ExactLoads'
    BY <1>11, <1>1, <2>1, ExactLoadsFrame, Zenon DEF AppendOp, Goto, storeVars, memoryVars, historyVars, Exact
  <2>4. ExactCache'
    BY <1>11, <1>1, <2>1, ExactCacheFrame, Zenon DEF AppendOp, Goto, storeVars, memoryVars, historyVars, Exact
  <2>5. QED
    BY <2>2, <2>3, <2>4, Zenon DEF Exact
<1>12. ASSUME AppendFails(w)
      PROVE  Exact'
  <2>1. Known \subseteq Known' /\ req[w].change \in Known'
    <3>1. pc[w] = "append" /\ failed' = failed \cup {req[w].change}
      BY <1>12, Zenon DEF AppendFails
    <3>2. req[w].change \in Change
      BY <1>3, <3>1, Zenon DEF Base, CallAt
    <3>3. Content(Append(ops, req[w].change)) = Content(ops) \cup {req[w].change}
      BY <3>2, AppendContent, Zenon
    <3>4. ops' = ops \/ ops' = Append(ops, req[w].change)
      BY <1>12, Zenon DEF AppendFails
    <3>5. Content(ops) \subseteq Content(ops')
      BY <3>3, <3>4, Zenon
    <3>6. QED
      BY <3>1, <3>5, Zenon DEF Known
  <2>2. (\A s \in snaps : s.state \subseteq Known)'
    BY <1>12, <2>1, Zenon DEF AppendFails, Return, storeVars, memoryVars, historyVars, Exact
  <2>3. ExactLoads'
    BY <1>12, <1>1, <2>1, ExactLoadsFrame, Zenon DEF AppendFails, Return, storeVars, memoryVars, historyVars, Exact
  <2>4. ExactCache'
    BY <1>12, <1>1, <2>1, ExactCacheFrame, Zenon DEF AppendFails, Return, storeVars, memoryVars, historyVars, Exact
  <2>5. QED
    BY <2>2, <2>3, <2>4, Zenon DEF Exact
<1>13. ASSUME AfterCommit(w)
      PROVE  Exact'
  <2>1. Known \subseteq Known'
    BY <1>13, Zenon DEF AfterCommit, Goto, storeVars, memoryVars, historyVars, Known
  <2>2. (\A s \in snaps : s.state \subseteq Known)'
    <3>1. pc[w] = "committed"
      BY <1>13, Zenon DEF AfterCommit
    <3>2. doc[st[w]] \subseteq Known
      BY <3>1, NonePending, Zenon DEF Exact, Critical
    <3>3. snaps' = snaps \/ snaps' = PutSnapshot(seq[w], doc[st[w]])
      BY <1>13, Zenon DEF AfterCommit
    <3>4. \A s \in snaps' : s.state \subseteq Known
      BY <3>2, <3>3 DEF PutSnapshot, Exact
    <3>5. QED
      BY <2>1, <3>4, Zenon
  <2>3. ExactLoads'
    BY <1>13, <1>1, <2>1, ExactLoadsFrame, Zenon DEF AfterCommit, Goto, storeVars, memoryVars, historyVars, Exact
  <2>4. ExactCache'
    BY <1>13, <1>1, <2>1, ExactCacheFrame, Zenon DEF AfterCommit, Goto, storeVars, memoryVars, historyVars, Exact
  <2>5. QED
    BY <2>2, <2>3, <2>4, Zenon DEF Exact
<1>14. ASSUME Broadcast(w)
      PROVE  Exact'
  <2>1. Known \subseteq Known'
    BY <1>14, Zenon DEF Broadcast, Return, storeVars, memoryVars, historyVars, Known
  <2>2. (\A s \in snaps : s.state \subseteq Known)'
    BY <1>14, <2>1, Zenon DEF Broadcast, Return, storeVars, memoryVars, historyVars, Exact
  <2>3. ExactLoads'
    BY <1>14, <1>1, <2>1, ExactLoadsFrame, Zenon DEF Broadcast, Return, storeVars, memoryVars, historyVars, Exact
  <2>4. ExactCache'
    BY <1>14, <1>1, <2>1, ExactCacheFrame, Zenon DEF Broadcast, Return, storeVars, memoryVars, historyVars, Exact
  <2>5. QED
    BY <2>2, <2>3, <2>4, Zenon DEF Exact
<1>15. ASSUME LockForSnapshot(w)
      PROVE  Exact'
  <2>1. Known \subseteq Known'
    BY <1>15, Zenon DEF LockForSnapshot, Goto, storeVars, memoryVars, historyVars, Known
  <2>2. (\A s \in snaps : s.state \subseteq Known)'
    BY <1>15, <2>1, Zenon DEF LockForSnapshot, Goto, storeVars, memoryVars, historyVars, Exact
  <2>3. ExactLoads'
    BY <1>15, <1>1, <2>1, ExactLoadsFrame, Zenon DEF LockForSnapshot, Goto, storeVars, memoryVars, historyVars, Exact
  <2>4. ExactCache'
    BY <1>15, <1>1, <2>1, ExactCacheFrame, Zenon DEF LockForSnapshot, Goto, storeVars, memoryVars, historyVars, Exact
  <2>5. QED
    BY <2>2, <2>3, <2>4, Zenon DEF Exact
<1>16. ASSUME GetLatestSeq(w)
      PROVE  Exact'
  <2>1. Known \subseteq Known'
    BY <1>16, Zenon DEF GetLatestSeq, Goto, storeVars, memoryVars, historyVars, Known
  <2>2. (\A s \in snaps : s.state \subseteq Known)'
    BY <1>16, <2>1, Zenon DEF GetLatestSeq, Goto, storeVars, memoryVars, historyVars, Exact
  <2>3. ExactLoads'
    BY <1>16, <1>1, <2>1, ExactLoadsFrame, Zenon DEF GetLatestSeq, Goto, storeVars, memoryVars, historyVars, Exact
  <2>4. ExactCache'
    BY <1>16, <1>1, <2>1, ExactCacheFrame, Zenon DEF GetLatestSeq, Goto, storeVars, memoryVars, historyVars, Exact
  <2>5. QED
    BY <2>2, <2>3, <2>4, Zenon DEF Exact
<1>17. ASSUME SaveSnapshot(w)
      PROVE  Exact'
  <2>1. Known \subseteq Known'
    BY <1>17, Zenon DEF SaveSnapshot, Return, storeVars, memoryVars, historyVars, Known
  <2>2. (\A s \in snaps : s.state \subseteq Known)'
    <3>1. pc[w] = "save" /\ snaps' = PutSnapshot(seq[w], doc[st[w]])
      BY <1>17, Zenon DEF SaveSnapshot
    <3>2. doc[st[w]] \subseteq Known
      BY <3>1, NonePending, Zenon DEF Exact, Critical
    <3>3. \A s \in snaps' : s.state \subseteq Known
      BY <3>1, <3>2 DEF PutSnapshot, Exact
    <3>4. QED
      BY <2>1, <3>3, Zenon
  <2>3. ExactLoads'
    BY <1>17, <1>1, <2>1, ExactLoadsFrame, Zenon DEF SaveSnapshot, Return, storeVars, memoryVars, historyVars, Exact
  <2>4. ExactCache'
    BY <1>17, <1>1, <2>1, ExactCacheFrame, Zenon DEF SaveSnapshot, Return, storeVars, memoryVars, historyVars, Exact
  <2>5. QED
    BY <2>2, <2>3, <2>4, Zenon DEF Exact
<1>18. ASSUME SnapshotFails(w)
      PROVE  Exact'
  <2>1. Known \subseteq Known'
    BY <1>18, Zenon DEF SnapshotFails, Return, storeVars, memoryVars, historyVars, Known
  <2>2. (\A s \in snaps : s.state \subseteq Known)'
    BY <1>18, <2>1, Zenon DEF SnapshotFails, Return, storeVars, memoryVars, historyVars, Exact
  <2>3. ExactLoads'
    BY <1>18, <1>1, <2>1, ExactLoadsFrame, Zenon DEF SnapshotFails, Return, storeVars, memoryVars, historyVars, Exact
  <2>4. ExactCache'
    BY <1>18, <1>1, <2>1, ExactCacheFrame, Zenon DEF SnapshotFails, Return, storeVars, memoryVars, historyVars, Exact
  <2>5. QED
    BY <2>2, <2>3, <2>4, Zenon DEF Exact
<1>19. ASSUME Export(w)
      PROVE  Exact'
  <2>1. Known \subseteq Known'
    BY <1>19, Zenon DEF Export, Goto, storeVars, memoryVars, historyVars, Known
  <2>2. (\A s \in snaps : s.state \subseteq Known)'
    BY <1>19, <2>1, Zenon DEF Export, Goto, storeVars, memoryVars, historyVars, Exact
  <2>3. ExactLoads'
    BY <1>19, <1>1, <2>1, ExactLoadsFrame, Zenon DEF Export, Goto, storeVars, memoryVars, historyVars, Exact
  <2>4. ExactCache'
    BY <1>19, <1>1, <2>1, ExactCacheFrame, Zenon DEF Export, Goto, storeVars, memoryVars, historyVars, Exact
  <2>5. QED
    BY <2>2, <2>3, <2>4, Zenon DEF Exact
<1>20. ASSUME Reply(w)
      PROVE  Exact'
  <2>1. Known \subseteq Known'
    BY <1>20, Zenon DEF Reply, Return, storeVars, memoryVars, historyVars, Known
  <2>2. (\A s \in snaps : s.state \subseteq Known)'
    BY <1>20, <2>1, Zenon DEF Reply, Return, storeVars, memoryVars, historyVars, Exact
  <2>3. ExactLoads'
    BY <1>20, <1>1, <2>1, ExactLoadsFrame, Zenon DEF Reply, Return, storeVars, memoryVars, historyVars, Exact
  <2>4. ExactCache'
    BY <1>20, <1>1, <2>1, ExactCacheFrame, Zenon DEF Reply, Return, storeVars, memoryVars, historyVars, Exact
  <2>5. QED
    BY <2>2, <2>3, <2>4, Zenon DEF Exact
<1>21. ASSUME Install(w)
      PROVE  Exact'
  <2>1. Known \subseteq Known'
    BY <1>21, Zenon DEF Install, Goto, storeVars, memoryVars, historyVars, Known
  <2>2. (\A s \in snaps : s.state \subseteq Known)'
    BY <1>21, <2>1, Zenon DEF Install, Goto, storeVars, memoryVars, historyVars, Exact
  <2>3. ExactLoads'
    BY <1>21, <1>1, <2>1, ExactLoadsFrame, Zenon DEF Install, Goto, storeVars, memoryVars, historyVars, Exact
  <2>4. ExactCache'
    <3>1. CASE docs[req[w].node] # Nil
      <4>1. UNCHANGED <<docs, doc>> /\ pc[w] = "install"
        BY <1>21, <3>1, Zenon DEF Install
      <4>2. QED
        BY <1>1, <2>1, <4>1, ExactCacheFrame, Zenon DEF Exact
    <3>2. CASE docs[req[w].node] = Nil
      <4>1. PICK p \in DocState :
                /\ docs' = [docs EXCEPT ![req[w].node] = p]
                /\ doc' = [doc EXCEPT ![p] = loaded[w]]
        BY <1>21, <3>2, Zenon DEF Install
      <4>2. \A n \in Node : docs'[n] = p
        BY <1>3, <4>1, Zenon DEF Solo
      <4>3. loaded[w] \subseteq Known
        BY <1>21, Zenon DEF Install, Exact, ExactLoads
      <4>4. \A n \in Node : doc'[docs'[n]] \subseteq Known'
        BY <2>1, <4>1, <4>2, <4>3
      <4>5. QED
        BY <4>4, Zenon DEF ExactCache
    <3>3. QED
      BY <3>1, <3>2, Zenon
  <2>5. QED
    BY <2>2, <2>3, <2>4, Zenon DEF Exact
<1>22. ASSUME Forget(w)
      PROVE  Exact'
  <2>1. Known \subseteq Known'
    BY <1>22, Zenon DEF Forget, Return, storeVars, memoryVars, historyVars, Known
  <2>2. (\A s \in snaps : s.state \subseteq Known)'
    BY <1>22, <2>1, Zenon DEF Forget, Return, storeVars, memoryVars, historyVars, Exact
  <2>3. ExactLoads'
    BY <1>22, <1>1, <2>1, ExactLoadsFrame, Zenon DEF Forget, Return, storeVars, memoryVars, historyVars, Exact
  <2>4. ExactCache'
    <3>1. docs' = [docs EXCEPT ![req[w].node] = Nil]
      BY <1>22, Zenon DEF Forget, Return, storeVars, memoryVars, historyVars
    <3>2. \A n \in Node : docs'[n] = Nil
      BY <1>3, <3>1, Zenon DEF Solo
    <3>3. QED
      BY <3>2, Zenon DEF ExactCache
  <2>5. QED
    BY <2>2, <2>3, <2>4, Zenon DEF Exact
<1>23. QED
  BY <1>5, <1>6, <1>7, <1>8, <1>9, <1>10, <1>11, <1>12, <1>13, <1>14, <1>15, <1>16, <1>17, <1>18, <1>19, <1>20, <1>21, <1>22, Zenon DEF Step

\* A new request, an empty document, a crash and a stuttering step keep it.
LEMMA ExactOther ==
    ASSUME TypeOK, Base, Orderly, Solo, Exact,
           \/ \E w \in Worker : Arrive(w) /\ ~raced'
           \/ DeleteFails /\ ~raced'
           \/ CreateDocument
           \/ \E n \in Node : Crash(n)
           \/ UNCHANGED vars
    PROVE  Exact'
<1>1. CASE \E w \in Worker : Arrive(w) /\ ~raced'
  <2>1. PICK w \in Worker : Arrive(w) /\ ~raced'
    BY <1>1, Zenon
  <2>2. /\ pc[w] = "idle" /\ Others(w) /\ UNCHANGED <<docs, doc, failed>>
        /\ pc'[w] \in {"state", "forget"}
    BY <2>1, ArriveMoves, Zenon
  <2>3. \A v \in Worker \ {w} :
           pc'[v] = pc[v] /\ req'[v] = req[v] /\ loaded'[v] = loaded[v]
    BY <2>2, Zenon DEF Others
  <2>4. CASE pc'[w] = "state"
    <3>1. UNCHANGED <<ops, snaps>>
      BY <2>1, <2>4, ArriveMoves, Zenon
    <3>2. Known' = Known
      BY <2>2, <3>1, Zenon DEF Known
    <3>3. (\A s \in snaps : s.state \subseteq Known)' /\ ExactLoads'
      BY <2>3, <2>4, <3>1, <3>2, Zenon DEF Exact, ExactLoads
    <3>4. \A v \in Worker : Pending(v)' = Pending(v)
      BY <2>2, <2>3, <2>4, Zenon DEF Pending
    <3>5. (\A v \in Worker : pc'[v] # "forget") => \A v \in Worker : pc[v] # "forget"
      BY <2>2, <2>3, Zenon
    <3>6. ExactCache'
      BY <2>2, <3>2, <3>4, <3>5, Zenon DEF Exact, ExactCache
    <3>7. QED
      BY <3>3, <3>6, Zenon DEF Exact
  <2>5. CASE pc'[w] = "forget"
    <3>1. snaps' = {} /\ \A v \in Worker \ {w} : pc[v] = "idle"
      BY <2>1, <2>5, ArriveMoves, Zenon
    <3>2. ExactCache'
      BY <2>5, Zenon DEF ExactCache
    <3>3. ExactLoads'
      BY <2>3, <2>5, <3>1, Zenon DEF ExactLoads
    <3>4. QED
      BY <3>1, <3>2, <3>3, Zenon DEF Exact
  <2>6. QED
    BY <2>2, <2>4, <2>5, Zenon
<1>6. CASE DeleteFails /\ ~raced'
  <2>1. /\ UNCHANGED <<docs, doc, pc, req, st, loaded, seq, floor>>
        /\ ops' = <<>> /\ snaps' = {} /\ failed' = failed \cup Content(ops)
        /\ \A v \in Worker : pc[v] = "idle"
    BY <1>6, DeleteMoves, Zenon
  <2>2. Known' = Known
    BY <2>1, EmptyContent, Zenon DEF Known
  <2>3. ExactLoads'
    BY <2>1, Zenon DEF ExactLoads
  <2>4. ExactCache'
    BY <2>1, <2>2, Zenon DEF Exact, ExactCache, Pending
  <2>5. QED
    BY <2>1, <2>3, <2>4, Zenon DEF Exact
<1>2. CASE CreateDocument
  BY <1>2, Zenon DEF CreateDocument, memoryVars, workerVars, historyVars, Exact,
     ExactLoads, ExactCache, Known, Pending
<1>3. CASE \E n \in Node : Crash(n)
  <2>1. PICK n \in Node : Crash(n)
    BY <1>3, Zenon
  <2>2. \A w \in Worker : pc'[w] # "idle" => pc'[w] = pc[w] /\ loaded'[w] = loaded[w]
    BY <2>1, Zenon DEF Crash, TypeOK
  <2>3. \A m \in Node : docs'[m] = Nil
    BY <2>1, Zenon DEF Crash, Solo, TypeOK
  <2>4. UNCHANGED snaps /\ Known' = Known
    BY <2>1, Zenon DEF Crash, storeVars, historyVars, Known
  <2>5. QED
    BY <2>2, <2>3, <2>4, Zenon DEF Exact, ExactLoads, ExactCache
<1>4. CASE UNCHANGED vars
  BY <1>4, Zenon DEF vars, storeVars, memoryVars, workerVars, historyVars, Exact,
     ExactLoads, ExactCache, Known, Pending
<1>5. QED
  BY <1>1, <1>2, <1>3, <1>4, <1>6, Zenon

\* Exactness is inductive, given the rest of the invariant.
LEMMA StepBounded ==
    TypeOK /\ Base /\ Quiet /\ Covers /\ Bounded /\ [Next]_vars => Bounded'
<1> SUFFICES ASSUME TypeOK, Base, Quiet, Covers, Bounded, [Next]_vars, Solo, ~raced'
             PROVE  Exact'
  BY Zenon DEF Bounded, Solo
<1>1. Orderly /\ Durable /\ Exact
  BY CalmBefore, Zenon DEF Quiet, Covers, Bounded
<1>2. CASE \E w \in Worker : Step(w)
  BY <1>1, <1>2, ExactStep, Zenon
<1>3. CASE ~ \E w \in Worker : Step(w)
  BY <1>1, <1>3, ExactOther, Zenon DEF Next
<1>4. QED
  BY <1>2, <1>3, Zenon

\* Nothing is cached or being loaded at the start (engine.go:70-90).
LEMMA InitBounded == Init => Bounded
BY DEF Init, Bounded, Exact, ExactLoads, ExactCache

\* The whole inductive invariant.
THEOREM EngineInvariant == Spec => []IInv
<1>1. Init => IInv
  BY InitTyped, InitQuiet, InitCovers, InitBounded, Zenon DEF IInv
<1>2. IInv /\ [Next]_vars => IInv'
  BY StepTyped, StepQuiet, StepCovers, StepBounded, Zenon DEF IInv
<1>3. QED
  BY <1>1, <1>2, PTL DEF Spec

\* Between requests, the cached document of a single process is the document in
\* the log, plus at most changes of which a caller was told that storage failed to
\* commit or to delete them: the two looks of state() and the mutex leave no other
\* way (engine.go:198-220, documents.go:106-112).
THEOREM CacheCorrect == Spec => []CacheMatchesLog
<1>1. IInv => CacheMatchesLog
  <2> SUFFICES ASSUME IInv, Solo, ~raced, \A w \in Worker : pc[w] # "forget",
                      NEW n \in Node, docs[n] # Nil, mu[docs[n]] = Nil
               PROVE  /\ Content(ops) \subseteq doc[docs[n]]
                      /\ doc[docs[n]] \subseteq Content(ops) \cup failed
    BY Zenon DEF CacheMatchesLog
  <2>1. TypeOK /\ Base /\ Orderly /\ Durable /\ Exact
    BY Zenon DEF IInv, Quiet, Covers, Bounded
  <2>2. Content(ops) \subseteq doc[docs[n]]
    BY <2>1, Zenon DEF Durable, CacheCovers
  <2>3. \A w \in Worker : pc[w] # "append"
    <3> SUFFICES ASSUME NEW w \in Worker, pc[w] = "append"
                 PROVE  FALSE
      BY Zenon
    <3>1. mu[st[w]] = w /\ st[w] # Nil /\ req[w] \in Request
      BY <2>1, NilAssumption, Zenon DEF Base, CallAt, Critical
    <3>2. req[w].node = n
      BY <3>1, RequestFields, Zenon DEF Solo
    <3>3. st[w] = docs[n]
      BY <2>1, <3>1, <3>2, Zenon DEF Orderly, OneDocState
    <3>4. QED
      BY <3>1, <3>3, NilAssumption, Zenon
  <2>4. \A w \in Worker : Pending(w) = {}
    BY <2>3, Zenon DEF Pending
  <2>5. doc[docs[n]] \subseteq Known \cup UNION {Pending(w) : w \in Worker}
    BY <2>1, Zenon DEF Exact, ExactCache
  <2>6. QED
    BY <2>2, <2>4, <2>5, Zenon DEF Known
<1>2. QED
  BY <1>1, EngineInvariant, PTL

----------------------------------------------------------------------------
(* How far the two disagreements with the comments reach.                  *)

\* What a cluster may lose of an acknowledged change is its place in a snapshot,
\* never its place in the log (engine.go:114-118).
AckedLogged == ~raced => acked \subseteq Content(ops)

\* Until a DELETE overlaps with another request, an acknowledged change is in the
\* log, on any number of processes, whatever crashes (Submit, engine.go:114-145).
THEOREM LoggedCorrect == Spec => []AckedLogged
<1>1. Quiet => AckedLogged
  BY Zenon DEF Quiet, Orderly, SeqFresh, AckedLogged
<1> QED
  BY <1>1, QuietInvariant, PTL

\* Forget's comment is true of a single process on which no request overlaps
\* with a DELETE (engine.go:275-280).
ForgetsWhenCalm == Solo /\ ~raced => ForgottenIsReloaded

\* Without such an overlap, what a process holds between requests is in storage,
\* or a caller was told that storage failed to commit or to delete it (Forget,
\* engine.go:275-280, state, engine.go:198-220, and documents.go:106-112).
THEOREM ForgetCorrect == Spec => []ForgetsWhenCalm
<1>1. TypeOK /\ MutexHeld /\ CacheMatchesLog => ForgetsWhenCalm
  <2> SUFFICES ASSUME TypeOK, MutexHeld, CacheMatchesLog, Solo, ~raced,
                      \A w \in Worker : pc[w] = "idle",
                      NEW n \in Node, docs[n] # Nil
               PROVE  doc[docs[n]] \subseteq Content(ops) \cup failed
    BY Zenon DEF ForgetsWhenCalm, ForgottenIsReloaded
  <2>1. \A w \in Worker : pc[w] \notin Critical /\ pc[w] # "forget"
    BY DEF Critical
  <2>2. mu[docs[n]] = Nil
    BY <2>1, Zenon DEF MutexHeld, TypeOK
  <2> QED
    BY <2>1, <2>2, Zenon DEF CacheMatchesLog
<1> QED
  BY <1>1, TypeCorrect, MutexReleased, CacheCorrect, PTL
=============================================================================
