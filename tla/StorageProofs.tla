--------------------------- MODULE StorageProofs ----------------------------
(***************************************************************************)
(* That every SQL backend numbers operations without a gap, serializes its *)
(* appenders and implements the Store contract, for any number of sessions *)
(* and operations.                                                         *)
(***************************************************************************)
EXTENDS Integers, SqlStore, TLAPS
----------------------------------------------------------------------------
(* The store.  The inductive invariant says what a transaction has done by *)
(* the statement it is at, and that whoever is past the read of latest_seq *)
(* holds the lock.                                                         *)

\* The latest seq, 0 without a row.
Top == IF latest = None THEN 0 ELSE latest

\* The operations are a sequence as long as latest_seq says.
Numbered == operations \in [1..Top -> Change]

\* What session s has done and holds when it is at pc[s].
Progress(s) ==
    /\ pc[s] \notin {"idle", "return"} => change[s] \in Change
    /\ pc[s] \in {"advance", "commit"} => wrote[s]
    /\ pc[s] = "commit" => advanced[s] = read[s] + 1
    /\ pc[s] \in {"insert", "advance", "commit"} => lock = s /\ read[s] = Top
    /\ pc[s] = "select" /\ backend = "mysql" => lock = s
    /\ due[s] # None => pc[s] = "return"

IInv ==
    /\ TypeOK
    /\ Numbered
    /\ \A s \in Session : Progress(s)
----------------------------------------------------------------------------
\* The invariant holds in a database that was just opened.
LEMMA InitInv == Init => IInv
BY NoneAssumption DEF Init, IInv, TypeOK, Numbered, Top, Progress

\* What the invariant is for.
LEMMA InvImplies == IInv => GapFree /\ AppendersSerialize
<1> SUFFICES ASSUME IInv PROVE GapFree /\ AppendersSerialize
  BY Zenon
<1>1. Top \in Nat
  BY NoneAssumption, Zenon DEF IInv, TypeOK, Top
<1>2. DOMAIN operations = 1..Top
  BY Zenon DEF IInv, Numbered
<1>3. GapFree
  BY <1>2, Zenon DEF GapFree, Top
<1>4. AppendersSerialize
  BY <1>1, <1>2 DEF AppendersSerialize, IInv, Progress, Top
<1> QED
  BY <1>3, <1>4, Zenon

\* The end of a transaction of s, committed or not, leaves the types of the
\* session's state.
LEMMA FinishTyped ==
    ASSUME TypeOK, NEW s \in Session, Finish(s, "return")
    PROVE  /\ lock' \in Session \cup {None}
           /\ pc' \in [Session -> {"idle", "ensure", "select", "insert", "advance",
                                   "commit", "return"}]
           /\ change' \in [Session -> Change \cup {None}]
           /\ read' \in [Session -> Nat]
           /\ wrote' \in [Session -> BOOLEAN]
           /\ advanced' \in [Session -> Nat \cup {None}]
BY Zenon DEF TypeOK, Finish, Goto

\* A step of AppendOp up to its last statement (CallAppend to Advance) writes
\* nothing that others see and keeps the invariant.
LEMMA AppendInv ==
    ASSUME IInv, NEW s \in Session, NEW c \in Change,
           \/ CallAppend(s, c) \/ SqliteBegin(s) \/ PostgresEnsure(s) \/ PostgresSelect(s)
           \/ MysqlEnsure(s) \/ MysqlSelect(s) \/ InsertOp(s) \/ Advance(s)
    PROVE  IInv'
<1> USE NoneAssumption
<1>1. UNCHANGED <<backend, tables, due>>
  BY Zenon DEF CallAppend, SqliteBegin, PostgresEnsure, PostgresSelect, MysqlEnsure,
         MysqlSelect, InsertOp, Advance
<1>2. Top' = Top /\ Top \in Nat /\ Numbered'
  BY <1>1, Zenon DEF IInv, TypeOK, Top, Numbered, tables
<1>3. TypeOK'
  <2>1. CASE CallAppend(s, c)
    BY <2>1, Zenon DEF IInv, TypeOK, CallAppend, Goto, tables
  <2>2. CASE SqliteBegin(s)
    BY <2>2, Zenon DEF IInv, TypeOK, SqliteBegin, Goto, tables
  <2>3. CASE PostgresEnsure(s)
    BY <2>3, Zenon DEF IInv, TypeOK, PostgresEnsure, Goto, tables
  <2>4. CASE PostgresSelect(s)
    BY <2>4, Zenon DEF IInv, TypeOK, PostgresSelect, Goto, tables
  <2>5. CASE MysqlEnsure(s)
    BY <2>5, Zenon DEF IInv, TypeOK, MysqlEnsure, Goto, tables
  <2>6. CASE MysqlSelect(s)
    BY <2>6, Zenon DEF IInv, TypeOK, MysqlSelect, Goto, tables
  <2>7. CASE InsertOp(s)
    BY <2>7, Zenon DEF IInv, TypeOK, InsertOp, Goto, tables
  <2>8. CASE Advance(s)
    BY <2>8 DEF IInv, TypeOK, Advance, Goto, tables
  <2> QED
    BY <2>1, <2>2, <2>3, <2>4, <2>5, <2>6, <2>7, <2>8, Zenon
<1>4. ASSUME NEW t \in Session PROVE Progress(t)'
  <2>1. CASE CallAppend(s, c)
    BY <2>1, <1>2, Zenon DEF IInv, TypeOK, Progress, CallAppend, Goto, tables
  <2>2. CASE SqliteBegin(s)
    BY <2>2, <1>2, Zenon DEF IInv, TypeOK, Progress, SqliteBegin, Goto, tables, Top
  <2>3. CASE PostgresEnsure(s)
    BY <2>3, <1>2, Zenon DEF IInv, TypeOK, Progress, PostgresEnsure, Goto, tables
  <2>4. CASE PostgresSelect(s)
    BY <2>4, <1>2 DEF IInv, TypeOK, Progress, PostgresSelect, Goto, tables, Top, Free
  <2>5. CASE MysqlEnsure(s)
    BY <2>5, <1>2, Zenon DEF IInv, TypeOK, Progress, MysqlEnsure, Goto, tables
  <2>6. CASE MysqlSelect(s)
    BY <2>6, <1>2, Zenon DEF IInv, TypeOK, Progress, MysqlSelect, Goto, tables, Top
  <2>7. CASE InsertOp(s)
    BY <2>7, <1>2, Zenon DEF IInv, TypeOK, Progress, InsertOp, Goto, tables
  <2>8. CASE Advance(s)
    BY <2>8, <1>2, Zenon DEF IInv, TypeOK, Progress, Advance, Goto, tables
  <2> QED
    BY <2>1, <2>2, <2>3, <2>4, <2>5, <2>6, <2>7, <2>8, Zenon
<1> QED
  BY <1>2, <1>3, <1>4, Zenon DEF IInv

\* So does a transaction that ends without a commit, and the return of AppendOp.
LEMMA EndInv ==
    ASSUME IInv, NEW s \in Session,
           PostgresRowGone(s) \/ Rollback(s) \/ Return(s)
    PROVE  IInv'
<1> USE NoneAssumption
<1>1. UNCHANGED <<backend, tables>>
  BY Zenon DEF PostgresRowGone, Rollback, Return
<1>2. Top' = Top /\ Top \in Nat /\ Numbered'
  BY <1>1, Zenon DEF IInv, TypeOK, Top, Numbered, tables
<1>3. CASE Return(s)
  <2>1. TypeOK'
    BY <1>3, Zenon DEF IInv, TypeOK, Return, Goto, tables
  <2>2. ASSUME NEW t \in Session PROVE Progress(t)'
    BY <1>3, <1>2, Zenon DEF IInv, TypeOK, Progress, Return, Goto, tables
  <2> QED
    BY <1>2, <2>1, <2>2, Zenon DEF IInv
<1>4. CASE PostgresRowGone(s) \/ Rollback(s)
  <2>1. Finish(s, "return") /\ UNCHANGED <<backend, tables, due>>
    BY <1>4, Zenon DEF PostgresRowGone, Rollback
  <2>2. TypeOK'
    BY <2>1, FinishTyped, Zenon DEF IInv, TypeOK, tables
  <2>3. ASSUME NEW t \in Session PROVE Progress(t)'
    BY <2>1, <1>2, Zenon DEF IInv, TypeOK, Progress, Finish, Goto, tables
  <2> QED
    BY <1>2, <2>2, <2>3, Zenon DEF IInv
<1> QED
  BY <1>3, <1>4, Zenon

\* Commit appends the transaction's operation and keeps the invariant: no other
\* session is past its read, as that would need the lock.
LEMMA CommitInv ==
    ASSUME IInv, NEW s \in Session, Commit(s)
    PROVE  /\ IInv'
           /\ read[s] = Top
           /\ change[s] \in Change
           /\ operations' = [i \in 1..(Top + 1) |-> IF i = Top + 1 THEN change[s] ELSE operations[i]]
           /\ due' = [due EXCEPT ![s] = Top + 1]
           /\ latest' = Top + 1
           /\ due[s] = None
<1> USE NoneAssumption
<1>1. Top \in Nat
  BY Zenon DEF IInv, TypeOK, Top
<1>2. /\ change[s] \in Change
      /\ wrote[s]
      /\ advanced[s] = Top + 1
      /\ lock = s
      /\ read[s] = Top
      /\ due[s] = None
  BY Zenon DEF IInv, Progress, Commit
<1>3. latest' = Top + 1 /\ Top' = Top + 1
  BY <1>1, <1>2 DEF Commit, Top
<1>4. operations' = [i \in 1..(Top + 1) |-> IF i = Top + 1 THEN change[s] ELSE operations[i]]
  <2>1. DOMAIN operations \cup {Top + 1} = 1..(Top + 1)
    BY <1>1 DEF IInv, Numbered
  <2> QED
    BY <1>2, <2>1, Zenon DEF Commit
<1>5. Numbered'
  <2>1. \A i \in 1..(Top + 1) : (IF i = Top + 1 THEN change[s] ELSE operations[i]) \in Change
    BY <1>1, <1>2 DEF IInv, Numbered
  <2> QED
    BY <1>3, <1>4, <2>1, Zenon DEF Numbered
<1>6. Finish(s, "return") /\ backend' = backend /\ snapshots' = snapshots
  BY Zenon DEF Commit
<1>7. due' = [due EXCEPT ![s] = Top + 1]
  BY <1>2, Zenon DEF Commit
<1>8. TypeOK'
  <2>1. DOMAIN operations' = 1..(Top + 1)
    BY <1>4, Zenon
  <2>2. /\ DOMAIN operations' \subseteq Nat \ {0}
        /\ \A i \in DOMAIN operations' : operations'[i] \in Change
    BY <1>1, <1>3, <1>5, <2>1 DEF Numbered
  <2>3. due' \in [Session -> Nat \cup {None}]
    BY <1>1, <1>7 DEF IInv, TypeOK
  <2> QED
    BY <1>1, <1>3, <1>6, <2>2, <2>3, FinishTyped DEF IInv, TypeOK
<1>9. ASSUME NEW t \in Session PROVE Progress(t)'
  <2>1. CASE t = s
    BY <1>6, <2>1, Zenon DEF IInv, TypeOK, Progress, Finish, Goto
  <2>2. CASE t # s
    BY <1>1, <1>2, <1>6, <1>7, <2>2, Zenon DEF IInv, TypeOK, Progress, Finish, Goto
  <2> QED
    BY <2>1, <2>2, Zenon
<1> QED
  BY <1>2, <1>3, <1>4, <1>5, <1>7, <1>8, <1>9, Zenon DEF IInv

\* Nobody is past its read while the lock is free.
LEMMA FreeLock ==
    ASSUME IInv, lock = None, NEW s \in Session
    PROVE  pc[s] \notin {"insert", "advance", "commit"}
BY NoneAssumption, Zenon DEF IInv, Progress

\* The methods that are one statement keep the invariant: a row's insertion and
\* deletion change latest_seq while nobody relies on it.
LEMMA StatementInv ==
    ASSUME IInv, (\E n \in 0..MaxOps : SaveSnapshot(n)) \/ CreateDocument \/ DeleteDocument
    PROVE  IInv'
<1> USE NoneAssumption
<1>1. lock = None /\ UNCHANGED <<backend, lock, pc, change, read, wrote, advanced, due>>
  BY Zenon DEF SaveSnapshot, CreateDocument, DeleteDocument
<1>2. \A s \in Session : pc[s] \notin {"insert", "advance", "commit"}
  BY <1>1, FreeLock, Zenon
<1>3. TypeOK' /\ Numbered'
  <2>1. CASE \E n \in 0..MaxOps : SaveSnapshot(n)
    BY <2>1, Zenon DEF IInv, TypeOK, Numbered, Top, SaveSnapshot
  <2>2. CASE CreateDocument
    BY <2>2, Zenon DEF IInv, TypeOK, Numbered, Top, CreateDocument
  <2>3. CASE DeleteDocument
    BY <2>3 DEF IInv, TypeOK, Numbered, Top, DeleteDocument
  <2> QED
    BY <2>1, <2>2, <2>3, Zenon
<1>4. ASSUME NEW s \in Session PROVE Progress(s)'
  BY <1>1, <1>2, Zenon DEF IInv, Progress
<1> QED
  BY <1>3, <1>4, Zenon DEF IInv

\* The invariant is inductive.
LEMMA StepInv == IInv /\ [Next]_vars => IInv'
<1> SUFFICES ASSUME IInv, [Next]_vars PROVE IInv'
  BY Zenon
<1>1. CASE UNCHANGED vars
  BY <1>1, Zenon DEF vars, tables, IInv, TypeOK, Numbered, Top, Progress
<1>2. ASSUME NEW s \in Session, AppendOp(s) PROVE IInv'
  <2>1. CASE \/ SqliteBegin(s) \/ PostgresEnsure(s) \/ PostgresSelect(s)
             \/ MysqlEnsure(s) \/ MysqlSelect(s) \/ InsertOp(s) \/ Advance(s)
    <3>1. PICK c \in Change : TRUE
      BY <2>1, Zenon DEF IInv, Progress, SqliteBegin, PostgresEnsure, PostgresSelect,
                  MysqlEnsure, MysqlSelect, InsertOp, Advance
    <3> QED
      BY <2>1, <3>1, AppendInv, Zenon
  <2>2. CASE PostgresRowGone(s) \/ Return(s)
    BY <2>2, EndInv, Zenon
  <2>3. CASE Commit(s)
    BY <2>3, CommitInv, Zenon
  <2> QED
    BY <1>2, <2>1, <2>2, <2>3, Zenon DEF AppendOp, SqliteAppend, PostgresAppend, MysqlAppend
<1>3. ASSUME NEW s \in Session, Rollback(s) PROVE IInv'
  BY <1>3, EndInv, Zenon
<1>4. ASSUME NEW s \in Session, NEW c \in Change, CallAppend(s, c) PROVE IInv'
  BY <1>4, AppendInv, Zenon
<1>5. CASE (\E n \in 0..MaxOps : SaveSnapshot(n)) \/ CreateDocument \/ DeleteDocument
  BY <1>5, StatementInv, Zenon
<1> QED
  BY <1>1, <1>2, <1>3, <1>4, <1>5, Zenon DEF Next

\* The inductive invariant holds in every reachable state.
LEMMA Invariant == Spec => []IInv
BY InitInv, StepInv, PTL DEF Spec

\* The tables and the state of every AppendOp keep their types.
THEOREM TypeCorrect == Spec => []TypeOK
<1>1. IInv => TypeOK
  BY Zenon DEF IInv
<1> QED
  BY <1>1, Invariant, PTL

\* The committed operations are numbered 1 to latest_seq on every backend, for any
\* number of sessions and whatever fails (AppendOp of the three backends).
THEOREM SeqsGapFree == Spec => []GapFree
BY Invariant, InvImplies, PTL

\* Whoever has read latest_seq holds the lock and still reads it right when it
\* inserts (BEGIN IMMEDIATE, SELECT ... FOR UPDATE).
THEOREM LockSerializes == Spec => []AppendersSerialize
BY Invariant, InvImplies, PTL
----------------------------------------------------------------------------
(* The lock, and why nobody waits for it in vain.                          *)

\* The lock is held only between the statement that takes it and the end of the
\* transaction.
LockHeld ==
    lock # None =>
        /\ pc[lock] \in {"select", "insert", "advance", "commit"}
        /\ pc[lock] = "select" => backend # "sqlite"

\* The next statement of whoever holds the lock waits for nothing and is refused
\* by no constraint: an AppendOp that waits, waits for one that can go on.
HolderRuns ==
    lock # None =>
        \/ pc[lock] = "select" /\ backend # "sqlite"
        \/ pc[lock] = "insert" /\ read[lock] + 1 \notin DOMAIN operations
        \/ pc[lock] \in {"advance", "commit"}

\* A transaction takes the lock as it goes on and releases it as it ends.
LEMMA LockHeldStep ==
    ASSUME TypeOK, LockHeld, [Next]_vars
    PROVE  LockHeld'
<1> USE NoneAssumption
<1>1. ASSUME NEW s \in Session, lock' = IF lock = s THEN None ELSE lock,
             NEW l, pc' = [pc EXCEPT ![s] = l], backend' = backend
      PROVE  LockHeld'
  BY <1>1, Zenon DEF LockHeld, TypeOK
<1>2. ASSUME NEW s \in Session, lock' = s \/ lock' = lock, backend' = backend,
             NEW l \in {"select", "insert", "advance", "commit"},
             l = "select" => backend # "sqlite",
             pc' = [pc EXCEPT ![s] = l]
      PROVE  LockHeld'
  <2>1. \A t \in Session : pc'[t] = IF t = s THEN l ELSE pc[t]
    BY <1>2, Zenon DEF TypeOK
  <2>2. CASE lock' = s
    BY <1>2, <2>1, <2>2 DEF LockHeld
  <2>3. CASE lock' = lock /\ lock # s
    BY <1>2, <2>1, <2>3, Zenon DEF LockHeld, TypeOK
  <2> QED
    BY <1>2, <2>2, <2>3, Zenon
<1>3. ASSUME NEW s \in Session, lock' = lock, lock # s, backend' = backend,
             NEW l, pc' = [pc EXCEPT ![s] = l]
      PROVE  LockHeld'
  BY <1>3, Zenon DEF LockHeld, TypeOK
<1>4. CASE UNCHANGED <<lock, pc, backend>>
  BY <1>4, Zenon DEF LockHeld
<1>5. ASSUME NEW s \in Session, PostgresRowGone(s) \/ Commit(s) \/ Rollback(s)
      PROVE  LockHeld'
  BY <1>1, <1>5, Zenon DEF PostgresRowGone, Commit, Rollback, Finish, Goto
<1>6. ASSUME NEW s \in Session,
             \/ SqliteBegin(s) \/ PostgresSelect(s) \/ MysqlSelect(s) \/ InsertOp(s) \/ Advance(s)
      PROVE  LockHeld'
  <2>1. /\ lock' = s \/ lock' = lock
        /\ backend' = backend
        /\ \E l \in {"insert", "advance", "commit"} : pc' = [pc EXCEPT ![s] = l]
    BY <1>6, Zenon DEF SqliteBegin, PostgresSelect, MysqlSelect, InsertOp, Advance, Goto
  <2> QED
    BY <1>2, <2>1, Zenon
<1>7. ASSUME NEW s \in Session, PostgresEnsure(s) \/ MysqlEnsure(s)
      PROVE  LockHeld'
  <2>1. /\ lock' = s \/ lock' = lock
        /\ backend \in {"postgres", "mysql"} /\ backend' = backend
        /\ pc' = [pc EXCEPT ![s] = "select"]
    BY <1>7, Zenon DEF PostgresEnsure, MysqlEnsure, Goto
  <2> QED
    BY <1>2, <2>1, Zenon
<1>8. ASSUME NEW s \in Session, NEW c \in Change, CallAppend(s, c)
      PROVE  LockHeld'
  <2>1. /\ pc[s] = "idle" /\ lock' = lock /\ backend' = backend
        /\ \E l : pc' = [pc EXCEPT ![s] = l]
    BY <1>8, Zenon DEF CallAppend, Goto
  <2>2. lock # s
    BY <2>1 DEF LockHeld
  <2> QED
    BY <1>3, <2>1, <2>2, Zenon
<1>9. ASSUME NEW s \in Session, Return(s)
      PROVE  LockHeld'
  <2>1. /\ pc[s] = "return" /\ lock' = lock /\ backend' = backend
        /\ pc' = [pc EXCEPT ![s] = "idle"]
    BY <1>9, Zenon DEF Return, Goto
  <2>2. lock # s
    BY <2>1 DEF LockHeld
  <2> QED
    BY <1>3, <2>1, <2>2, Zenon
<1>10. CASE (\E n \in 0..MaxOps : SaveSnapshot(n)) \/ CreateDocument \/ DeleteDocument \/ UNCHANGED vars
  BY <1>4, <1>10, Zenon DEF SaveSnapshot, CreateDocument, DeleteDocument, vars
<1> QED
  BY <1>5, <1>6, <1>7, <1>8, <1>9, <1>10, Zenon
     DEF Next, AppendOp, SqliteAppend, PostgresAppend, MysqlAppend

\* No path of AppendOp keeps the lock past its transaction, and whoever holds it
\* can execute its next statement (sqlite.go, postgres.go and mysql.go, AppendOp):
\* under the fairness of the database this is why AppendReturns holds.
THEOREM LockReleased == Spec => []HolderRuns
<1>1. Init => LockHeld
  BY Zenon DEF Init, LockHeld
<1>2. TypeOK /\ LockHeld /\ AppendersSerialize => HolderRuns
  <2> SUFFICES ASSUME TypeOK, LockHeld, AppendersSerialize, lock # None
               PROVE  \/ pc[lock] = "select" /\ backend # "sqlite"
                      \/ pc[lock] = "insert" /\ read[lock] + 1 \notin DOMAIN operations
                      \/ pc[lock] \in {"advance", "commit"}
    BY Zenon DEF HolderRuns
  <2>1. lock \in Session
    BY Zenon DEF TypeOK
  <2> QED
    BY <2>1, Zenon DEF LockHeld, AppendersSerialize
<1> QED
  BY <1>1, <1>2, LockHeldStep, TypeCorrect, LockSerializes, PTL DEF Spec
----------------------------------------------------------------------------
(* The refinement: each backend implements the Store contract.             *)

\* A step of AppendOp before its commit, or a rollback, is not seen.
LEMMA HiddenStep ==
    ASSUME NEW s \in Session, NEW c \in Change,
           \/ CallAppend(s, c) \/ SqliteBegin(s) \/ PostgresEnsure(s) \/ PostgresSelect(s)
           \/ MysqlEnsure(s) \/ MysqlSelect(s) \/ InsertOp(s) \/ Advance(s)
           \/ PostgresRowGone(s) \/ Rollback(s)
    PROVE  UNCHANGED Log!vars
<1>1. UNCHANGED <<tables, due>>
  BY Zenon DEF CallAppend, SqliteBegin, PostgresEnsure, PostgresSelect, MysqlEnsure,
         MysqlSelect, InsertOp, Advance, PostgresRowGone, Rollback
<1> QED
  BY <1>1, Zenon DEF Log!vars, tables

\* The commit is the instant at which an append takes effect.
LEMMA CommitAppends ==
    ASSUME IInv, NEW s \in Session, Commit(s)
    PROVE  Log!AppendOp(s, change[s])
<1> USE NoneAssumption
<1>1. Top \in Nat
  BY Zenon DEF IInv, TypeOK, Top
<1>2. operations \in Seq(Change) /\ Len(operations) = Top
  BY <1>1 DEF IInv, Numbered
<1>3. operations' = Append(operations, change[s])
  BY <1>1, <1>2, CommitInv
<1>4. snapshots' = snapshots
  BY Zenon DEF Commit
<1>5. latest' # None
  BY <1>1, CommitInv
<1> QED
  BY <1>2, <1>3, <1>4, <1>5, CommitInv, Zenon DEF Log!AppendOp

\* Every step of a backend is a step of the contract, or one it does not see.
LEMMA StepRefines == IInv /\ [Next]_vars => [Log!Next]_Log!vars
<1> SUFFICES ASSUME IInv, [Next]_vars PROVE [Log!Next]_Log!vars
  BY Zenon
<1>1. CASE UNCHANGED vars
  BY <1>1, Zenon DEF vars, tables, Log!vars
<1>2. ASSUME NEW s \in Session, AppendOp(s) PROVE [Log!Next]_Log!vars
  <2>1. CASE \/ SqliteBegin(s) \/ PostgresEnsure(s) \/ PostgresSelect(s)
             \/ MysqlEnsure(s) \/ MysqlSelect(s) \/ InsertOp(s) \/ Advance(s)
    <3>1. PICK c \in Change : TRUE
      BY <2>1, Zenon DEF IInv, Progress, SqliteBegin, PostgresEnsure, PostgresSelect,
                  MysqlEnsure, MysqlSelect, InsertOp, Advance
    <3> QED
      BY <2>1, <3>1, HiddenStep, Zenon
  <2>2. CASE PostgresRowGone(s)
    BY <2>2, Zenon DEF PostgresRowGone, tables, Log!vars
  <2>3. CASE Return(s)
    <3>1. CASE due[s] = None
      BY <3>1, <2>3, Zenon DEF Return, tables, Log!vars, IInv, TypeOK
    <3>2. CASE due[s] # None
      BY <3>2, <2>3, Zenon DEF Return, tables, Log!Return, Log!Next
    <3> QED
      BY <3>1, <3>2, Zenon
  <2>4. CASE Commit(s)
    <3>1. change[s] \in Change /\ Log!AppendOp(s, change[s])
      BY <2>4, CommitInv, CommitAppends, Zenon
    <3> QED
      BY <3>1, Zenon DEF Log!Next
  <2> QED
    BY <1>2, <2>1, <2>2, <2>3, <2>4, Zenon DEF AppendOp, SqliteAppend, PostgresAppend, MysqlAppend
<1>3. ASSUME NEW s \in Session, Rollback(s) PROVE [Log!Next]_Log!vars
  BY <1>3, Zenon DEF Rollback, tables, Log!vars
<1>4. ASSUME NEW s \in Session, NEW c \in Change, CallAppend(s, c) PROVE [Log!Next]_Log!vars
  BY <1>4, HiddenStep, Zenon
<1>5. ASSUME NEW n \in 0..MaxOps, SaveSnapshot(n) PROVE Log!Next
  BY <1>5, Zenon DEF SaveSnapshot, Log!SaveSnapshot, Log!Next
<1>6. CASE CreateDocument
  BY <1>6, NoneAssumption DEF CreateDocument, Log!CreateDocument, Log!Next
<1>7. CASE DeleteDocument
  BY <1>7, Zenon DEF DeleteDocument, Log!DeleteDocument, Log!Next
<1> QED
  BY <1>1, <1>2, <1>3, <1>4, <1>5, <1>6, <1>7, Zenon DEF Next

\* Each SQL backend, statement by statement, implements the atomic store that the
\* engine is written against (storage.Store).
THEOREM BackendsImplementStore == Spec => ImplementsOpLog
<1>1. Init => Log!Init
  BY Zenon DEF Init, Log!Init
<1> QED
  BY <1>1, Invariant, StepRefines, PTL DEF Spec, ImplementsOpLog, Log!Spec
=============================================================================
