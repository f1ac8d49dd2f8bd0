------------------------------ MODULE Migration -----------------------------
(***************************************************************************)
(* How the server processes of a deployment bring a shared database to the *)
(* current schema when they start (migrate in internal/storage/sqlite.go,  *)
(* postgres.go and mysql.go).  A process whose migrate returns an error    *)
(* exits, and whatever supervises it starts it again.                      *)
(***************************************************************************)
EXTENDS Naturals, Sequences, FiniteSets, FiniteSetsExt

CONSTANTS
    Node,         \* server processes
    Backends,
    Migrations,   \* Migrations[v]: the tables version v creates, in order
    MaxCrashes    \* bound: crashes in one behaviour

MigrationAssumption ==
    /\ Migrations \in Seq(Seq(STRING))
    /\ \A v \in DOMAIN Migrations : Migrations[v] # <<>>
    /\ MaxCrashes \in Nat

VARIABLES
    backend,
    tables,    \* the tables that exist
    versions,  \* the rows of schema_migrations
    pc,        \* "down", "read", "apply", "record" or "ready"
    version,   \* the version a process is at in the loop
    stmt,      \* the statement it is at within the version
    crashes

vars == <<backend, tables, versions, pc, version, stmt, crashes>>

AllTables == UNION {{Migrations[v][i] : i \in DOMAIN Migrations[v]} : v \in DOMAIN Migrations}

TypeOK ==
    /\ backend \in Backends
    /\ tables \subseteq AllTables
    /\ versions \subseteq DOMAIN Migrations
    /\ pc \in [Node -> {"down", "read", "apply", "record", "ready"}]
    /\ version \in [Node -> 0..Len(Migrations)]
    /\ stmt \in [Node -> Nat]
    /\ crashes \in 0..MaxCrashes

Init ==
    /\ backend \in Backends
    /\ tables = {}
    /\ versions = {}
    /\ pc = [n \in Node |-> "down"]
    /\ version = [n \in Node |-> 0]
    /\ stmt = [n \in Node |-> 0]
    /\ crashes = 0

\* The process opens its store.
Start(n) ==
    /\ pc[n] = "down"
    /\ pc' = [pc EXCEPT ![n] = "read"]
    /\ UNCHANGED <<backend, tables, versions, version, stmt, crashes>>

\* On to the first statement of version v, or to a ready store after the last.
Enter(n, v) ==
    /\ version' = [version EXCEPT ![n] = IF v <= Len(Migrations) THEN v ELSE 0]
    /\ stmt' = [stmt EXCEPT ![n] = IF v <= Len(Migrations) THEN 1 ELSE 0]
    /\ pc' = [pc EXCEPT ![n] = IF v <= Len(Migrations) THEN "apply" ELSE "ready"]

Exit(n) ==
    /\ pc' = [pc EXCEPT ![n] = "down"]
    /\ version' = [version EXCEPT ![n] = 0]
    /\ stmt' = [stmt EXCEPT ![n] = 0]

\* Mutant: the loop starts at the recorded version.
ReadVersionAgain(n) ==
    /\ pc[n] = "read"
    /\ Enter(n, IF backend = "sqlite" THEN 1 ELSE Max(versions \cup {1}))
    /\ UNCHANGED <<backend, tables, versions, crashes>>

\* SELECT MAX(version): the loop skips what is recorded.  SQLite records
\* nothing and applies its schema on every open.
ReadVersion(n) ==
    /\ pc[n] = "read"
    /\ Enter(n, IF backend = "sqlite" THEN 1 ELSE Max(versions \cup {0}) + 1)
    /\ UNCHANGED <<backend, tables, versions, crashes>>

\* The next CREATE TABLE IF NOT EXISTS of the loop, committed by itself.
CreateTable(n) ==
    LET v == version[n]
        i == stmt[n] IN
    /\ pc[n] = "apply"
    /\ tables' = tables \cup {Migrations[v][i]}
    /\ IF i < Len(Migrations[v])
       THEN stmt' = [stmt EXCEPT ![n] = i + 1] /\ UNCHANGED <<pc, version>>
       ELSE IF backend = "sqlite"
       THEN Enter(n, v + 1)
       ELSE pc' = [pc EXCEPT ![n] = "record"] /\ UNCHANGED <<version, stmt>>
    /\ UNCHANGED <<backend, versions, crashes>>

SqliteMigrate(n) == backend = "sqlite" /\ CreateTable(n)

\* Mutant: the version is recorded first.
MysqlRecordFirst(n) ==
    /\ backend = "mysql"
    /\ \/ CreateTable(n) /\ stmt[n] > 1
       \/ /\ pc[n] = "apply"
          /\ stmt[n] = 1
          /\ version[n] \notin versions
          /\ versions' = versions \cup {version[n]}
          /\ pc' = [pc EXCEPT ![n] = "record"]
          /\ UNCHANGED <<backend, tables, version, stmt, crashes>>
       \/ /\ pc[n] = "record"
          /\ tables' = tables \cup {Migrations[version[n]][i] : i \in DOMAIN Migrations[version[n]]}
          /\ Enter(n, version[n] + 1)
          /\ UNCHANGED <<backend, versions, crashes>>

\* Statement by statement, then INSERT INTO schema_migrations, whose primary
\* key refuses a version that another process has recorded meanwhile.
MysqlMigrate(n) ==
    /\ backend = "mysql"
    /\ \/ CreateTable(n)
       \/ /\ pc[n] = "record"
          /\ version[n] \notin versions
          /\ versions' = versions \cup {version[n]}
          /\ Enter(n, version[n] + 1)
          /\ UNCHANGED <<backend, tables, crashes>>
       \/ /\ pc[n] = "record"
          /\ version[n] \in versions
          /\ Exit(n)
          /\ UNCHANGED <<backend, tables, versions, crashes>>

\* applyMigration: the statements and the version in one transaction.  Of two
\* such transactions one waits for the other and is then refused.
PostgresMigrate(n) ==
    LET v == version[n] IN
    /\ backend = "postgres"
    /\ pc[n] = "apply"
    /\ \/ /\ v \notin versions
          /\ tables' = tables \cup {Migrations[v][i] : i \in DOMAIN Migrations[v]}
          /\ versions' = versions \cup {v}
          /\ Enter(n, v + 1)
          /\ UNCHANGED <<backend, crashes>>
       \/ /\ v \in versions
          /\ Exit(n)
          /\ UNCHANGED <<backend, tables, versions, crashes>>

\* A statement fails or the process dies, at any point.
Crash(n) ==
    /\ pc[n] # "down"
    /\ crashes < MaxCrashes
    /\ crashes' = crashes + 1
    /\ Exit(n)
    /\ UNCHANGED <<backend, tables, versions>>

Step(n) ==
    \/ Start(n) \/ ReadVersion(n)
    \/ SqliteMigrate(n) \/ MysqlMigrate(n) \/ PostgresMigrate(n)

Next == \E n \in Node : Step(n) \/ Crash(n)

Spec == Init /\ [][Next]_vars
----------------------------------------------------------------------------
(* Properties.                                                             *)

\* The version guard is sound: a recorded version is applied in full, however
\* starts, conflicts and crashes fall, so a store that opened has its tables.
RecordedIsApplied ==
    /\ \A v \in versions : \A w \in 1..v :
         \A i \in DOMAIN Migrations[w] : Migrations[w][i] \in tables
    /\ \A n \in Node : pc[n] = "ready" => tables = AllTables

\* Every process ends up with an open store: a migration that was interrupted
\* or lost a race does not keep a restart from opening the database.
EventuallyReady == \A n \in Node : <>[](pc[n] = "ready")
=============================================================================
