------------------------------ MODULE SqlStore ------------------------------
(***************************************************************************)
(* The SQL backends of storage.Store (internal/storage/sqlite.go,          *)
(* postgres.go, mysql.go), statement by statement, for one document.       *)
(*                                                                         *)
(* AppendOp is a transaction of several statements; every other method is  *)
(* one statement, which the database executes atomically.  Each statement  *)
(* that writes waits for the lock that AppendOp's transaction holds: the   *)
(* database's write lock in SQLite, the documents row's lock in Postgres   *)
(* and MySQL.  (A snapshot's foreign key locks the row it refers to.)      *)
(* Statements, locks and isolation are the databases'; the order of the    *)
(* statements and what they write are the code's.                          *)
(***************************************************************************)
EXTENDS Naturals, Sequences, FiniteSets

CONSTANTS
    Session,    \* goroutines that may be inside a storage call
    Change,
    Backends,   \* the backends a configuration may name
    None,       \* SQL: no row; nobody holds the lock
    Fails,      \* may a statement fail?
    MaxOps      \* bound: operations committed in one life of the document

ASSUME NoneAssumption == None \notin Nat /\ None \notin Session
ASSUME BackendsAssumption == Backends \subseteq {"sqlite", "postgres", "mysql"}
ASSUME FailsAssumption == Fails \in BOOLEAN
ASSUME MaxOpsAssumption == MaxOps \in Nat

VARIABLES
    backend,     \* what storage.Open opened
    latest,      \* committed: documents.latest_seq, None without a row
    operations,  \* committed: seq -> payload, a function on the seqs there are
    snapshots,   \* committed: the seqs of the snapshots rows
    lock,        \* the session that holds the lock, or None
    pc,          \* the next statement of a session's AppendOp
    change,      \* its argument
    read,        \* what its SELECT latest_seq found
    wrote,       \* did the transaction insert the operation?
    advanced,    \* the latest_seq the transaction has written, or None
    due          \* the seq of a commit that has not been returned yet

tables == <<latest, operations, snapshots>>
vars == <<backend, tables, lock, pc, change, read, wrote, advanced, due>>

TypeOK ==
    /\ backend \in Backends
    /\ latest \in Nat \cup {None}
    /\ DOMAIN operations \subseteq Nat \ {0}
    /\ \A i \in DOMAIN operations : operations[i] \in Change
    /\ snapshots \subseteq 0..MaxOps
    /\ lock \in Session \cup {None}
    /\ pc \in [Session -> {"idle", "ensure", "select", "insert", "advance",
                           "commit", "return"}]
    /\ change \in [Session -> Change \cup {None}]
    /\ read \in [Session -> Nat]
    /\ wrote \in [Session -> BOOLEAN]
    /\ advanced \in [Session -> Nat \cup {None}]
    /\ due \in [Session -> Nat \cup {None}]

Init ==
    /\ backend \in Backends
    /\ latest = None
    /\ operations = <<>>
    /\ snapshots = {}
    /\ lock = None
    /\ pc = [s \in Session |-> "idle"]
    /\ change = [s \in Session |-> None]
    /\ read = [s \in Session |-> 0]
    /\ wrote = [s \in Session |-> FALSE]
    /\ advanced = [s \in Session |-> None]
    /\ due = [s \in Session |-> None]

Goto(s, l) == pc' = [pc EXCEPT ![s] = l]

\* The transaction is over: its locks are released and its writes are in the
\* tables or gone.
Finish(s, l) ==
    /\ Goto(s, l)
    /\ lock' = IF lock = s THEN None ELSE lock
    /\ change' = [change EXCEPT ![s] = None]
    /\ read' = [read EXCEPT ![s] = 0]
    /\ wrote' = [wrote EXCEPT ![s] = FALSE]
    /\ advanced' = [advanced EXCEPT ![s] = None]

Free(s) == lock \in {None, s}
----------------------------------------------------------------------------
(* AppendOp: how each backend gets to the latest seq.                      *)

CallAppend(s, c) ==
    /\ pc[s] = "idle"
    /\ Cardinality(DOMAIN operations)
         + Cardinality({t \in Session : pc[t] \notin {"idle", "return"}}) < MaxOps
    /\ change' = [change EXCEPT ![s] = c]
    /\ Goto(s, IF backend = "sqlite" THEN "select" ELSE "ensure")
    /\ UNCHANGED <<backend, tables, lock, read, wrote, advanced, due>>

\* BEGIN IMMEDIATE takes the write lock; SELECT latest_seq; without a row the
\* transaction inserts one with latest_seq 0.
SqliteBegin(s) ==
    /\ backend = "sqlite"
    /\ pc[s] = "select"
    /\ lock = None
    /\ lock' = s
    /\ read' = [read EXCEPT ![s] = IF latest = None THEN 0 ELSE latest]
    /\ Goto(s, "insert")
    /\ UNCHANGED <<backend, tables, change, wrote, advanced, due>>

\* INSERT ... ON CONFLICT DO NOTHING: waits for an insert in progress, locks
\* the row it inserts, and locks nothing when the row is there.
PostgresEnsure(s) ==
    /\ backend = "postgres"
    /\ pc[s] = "ensure"
    /\ \/ /\ latest = None
          /\ lock = None
          /\ lock' = s
       \/ /\ latest # None
          /\ UNCHANGED lock
    /\ Goto(s, "select")
    /\ UNCHANGED <<backend, tables, change, read, wrote, advanced, due>>

\* Mutant: SELECT without FOR UPDATE.
PostgresSelectUnlocked(s) ==
    /\ backend = "postgres"
    /\ pc[s] = "select"
    /\ latest # None \/ lock = s
    /\ read' = [read EXCEPT ![s] = IF latest = None THEN 0 ELSE latest]
    /\ Goto(s, "insert")
    /\ UNCHANGED <<backend, tables, lock, change, wrote, advanced, due>>

\* SELECT latest_seq ... FOR UPDATE of the row, be it committed or the
\* transaction's own.
PostgresSelect(s) ==
    /\ backend = "postgres"
    /\ pc[s] = "select"
    /\ Free(s)
    /\ latest # None \/ lock = s
    /\ lock' = s
    /\ read' = [read EXCEPT ![s] = IF latest = None THEN 0 ELSE latest]
    /\ Goto(s, "insert")
    /\ UNCHANGED <<backend, tables, change, wrote, advanced, due>>

\* The row went away between the two statements: Scan returns ErrNoRows, and
\* AppendOp an error.
PostgresRowGone(s) ==
    /\ backend = "postgres"
    /\ pc[s] = "select"
    /\ lock = None
    /\ latest = None
    /\ Finish(s, "return")
    /\ UNCHANGED <<backend, tables, due>>

\* INSERT ... ON DUPLICATE KEY UPDATE id = id locks the row either way.
MysqlEnsure(s) ==
    /\ backend = "mysql"
    /\ pc[s] = "ensure"
    /\ lock = None
    /\ lock' = s
    /\ Goto(s, "select")
    /\ UNCHANGED <<backend, tables, change, read, wrote, advanced, due>>

\* SELECT latest_seq ... FOR UPDATE: a locking read, past the snapshot of the
\* transaction.
MysqlSelect(s) ==
    /\ backend = "mysql"
    /\ pc[s] = "select"
    /\ read' = [read EXCEPT ![s] = IF latest = None THEN 0 ELSE latest]
    /\ Goto(s, "insert")
    /\ UNCHANGED <<backend, tables, lock, change, wrote, advanced, due>>
----------------------------------------------------------------------------
(* AppendOp: the common end.                                               *)

\* INSERT INTO operations at seq = latest + 1.  The primary key refuses a seq
\* that is there.
InsertOp(s) ==
    /\ pc[s] = "insert"
    /\ read[s] + 1 \notin DOMAIN operations
    /\ wrote' = [wrote EXCEPT ![s] = TRUE]
    /\ Goto(s, "advance")
    /\ UNCHANGED <<backend, tables, lock, change, read, advanced, due>>

\* Mutant: the row keeps the seq that was read.
AdvanceStale(s) ==
    /\ pc[s] = "advance"
    /\ advanced' = [advanced EXCEPT ![s] = read[s]]
    /\ Goto(s, "commit")
    /\ UNCHANGED <<backend, tables, lock, change, read, wrote, due>>

\* UPDATE documents SET latest_seq = seq.
Advance(s) ==
    /\ pc[s] = "advance"
    /\ advanced' = [advanced EXCEPT ![s] = read[s] + 1]
    /\ Goto(s, "commit")
    /\ UNCHANGED <<backend, tables, lock, change, read, wrote, due>>

\* COMMIT: the transaction's writes appear together.
Commit(s) ==
    LET seq == read[s] + 1 IN
    /\ pc[s] = "commit"
    /\ latest' = advanced[s]
    /\ operations' = IF wrote[s]
         THEN [i \in DOMAIN operations \cup {seq} |->
                 IF i = seq THEN change[s] ELSE operations[i]]
         ELSE operations
    /\ due' = [due EXCEPT ![s] = seq]
    /\ Finish(s, "return")
    /\ UNCHANGED <<backend, snapshots>>

\* Mutant: an early return without the deferred Rollback.
RollbackMissing(s) ==
    /\ Fails
    /\ pc[s] \in {"ensure", "select", "insert", "advance", "commit"}
    /\ Goto(s, "return")
    /\ UNCHANGED <<backend, tables, lock, change, read, wrote, advanced, due>>

\* A statement fails, the wait for a lock times out, or the server process is
\* gone: the deferred Rollback or the database ends the transaction.
Rollback(s) ==
    /\ Fails
    /\ pc[s] \in {"ensure", "select", "insert", "advance", "commit"}
    /\ Finish(s, "return")
    /\ UNCHANGED <<backend, tables, due>>

\* AppendOp returns: the seq, or an error, be it that nothing was committed or
\* that the reply to COMMIT was lost.
Return(s) ==
    /\ pc[s] = "return"
    /\ due' = [due EXCEPT ![s] = None]
    /\ Goto(s, "idle")
    /\ UNCHANGED <<backend, tables, lock, change, read, wrote, advanced>>
----------------------------------------------------------------------------
(* The methods that are one statement.                                     *)

\* Mutant: off by one.
SaveSnapshotNext(n) ==
    /\ lock = None
    /\ latest # None
    /\ snapshots' = snapshots \cup {n + 1}
    /\ UNCHANGED <<backend, latest, operations, lock, pc, change, read, wrote, advanced, due>>

\* INSERT ... ON CONFLICT DO UPDATE; the foreign key needs the documents row.
SaveSnapshot(n) ==
    /\ lock = None
    /\ latest # None
    /\ snapshots' = snapshots \cup {n}
    /\ UNCHANGED <<backend, latest, operations, lock, pc, change, read, wrote, advanced, due>>

\* INSERT INTO documents, refused by the primary key when the row is there.
CreateDocument ==
    /\ lock = None
    /\ latest = None
    /\ latest' = 0
    /\ UNCHANGED <<backend, operations, snapshots, lock, pc, change, read, wrote, advanced, due>>

\* Mutant: no ON DELETE CASCADE on operations.
DeleteDocumentOnly ==
    /\ lock = None
    /\ latest # None
    /\ latest' = None
    /\ snapshots' = {}
    /\ UNCHANGED <<backend, operations, lock, pc, change, read, wrote, advanced, due>>

\* DELETE FROM documents, with ON DELETE CASCADE to the other tables.
DeleteDocument ==
    /\ lock = None
    /\ latest # None
    /\ latest' = None
    /\ operations' = <<>>
    /\ snapshots' = {}
    /\ UNCHANGED <<backend, lock, pc, change, read, wrote, advanced, due>>
----------------------------------------------------------------------------
SqliteAppend(s) == SqliteBegin(s)

PostgresAppend(s) == PostgresEnsure(s) \/ PostgresSelect(s) \/ PostgresRowGone(s)

MysqlAppend(s) == MysqlEnsure(s) \/ MysqlSelect(s)

\* A step of the AppendOp that session s is in.
AppendOp(s) ==
    \/ SqliteAppend(s) \/ PostgresAppend(s) \/ MysqlAppend(s)
    \/ InsertOp(s) \/ Advance(s) \/ Commit(s) \/ Return(s)

Next ==
    \/ \E s \in Session :
         AppendOp(s) \/ Rollback(s) \/ \E c \in Change : CallAppend(s, c)
    \/ \E n \in 0..MaxOps : SaveSnapshot(n)
    \/ CreateDocument
    \/ DeleteDocument

Spec == Init /\ [][Next]_vars

\* Statements are executed, and a lock that is released over and over is granted
\* to each waiter in turn.  Rollback is not in here: nothing has to fail.
Fairness ==
    \A s \in Session :
        /\ WF_vars(AppendOp(s))
        /\ SF_vars(SqliteAppend(s) \/ PostgresAppend(s) \/ MysqlAppend(s))

FairSpec == Spec /\ Fairness
----------------------------------------------------------------------------
(* Properties.                                                             *)

\* Sequence assignment is gap-free: the committed operations are numbered from
\* 1 to latest_seq, and without a documents row there are none.
GapFree == DOMAIN operations = 1..(IF latest = None THEN 0 ELSE latest)

\* AppendOp's lock serializes appenders: whoever has read latest_seq still
\* reads it right when it inserts, so that the seq it uses is free.
AppendersSerialize ==
    \A s \in Session :
        pc[s] \in {"insert", "advance", "commit"} =>
            /\ lock = s
            /\ read[s] = IF latest = None THEN 0 ELSE latest
            /\ read[s] + 1 \notin DOMAIN operations

Log == INSTANCE OpLog WITH
    exists <- latest # None, log <- operations, snaps <- snapshots,
    due <- due, Seqs <- 0..MaxOps

\* Each backend implements the Store contract: whatever the interleaving of
\* statements, every call takes effect at one instant.
ImplementsOpLog == Log!Spec

\* Every AppendOp returns, without a timeout's help: no error path keeps the lock.
AppendReturns == \A s \in Session : pc[s] # "idle" ~> pc[s] = "idle"
=============================================================================
