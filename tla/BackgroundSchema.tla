-------------------------- MODULE BackgroundSchema --------------------------
(***************************************************************************)
(* The Migration component as MCBackground composes it: the names of its   *)
(* state there, and what it promises.                                      *)
(***************************************************************************)
CONSTANTS Node, SchemaBackends, Migrations, MaxCrashes

VARIABLES opened, created, versions, phase, version, stmt, crashes

M == INSTANCE Migration WITH
    Backends <- SchemaBackends, backend <- opened, tables <- created, pc <- phase

ASSUME MigrationAssumed == M!MigrationAssumption
----------------------------------------------------------------------------
(* Properties.                                                             *)

\* A recorded schema version is applied in full, and a store that opened has
\* all its tables (migrate).
RecordedIsApplied == M!RecordedIsApplied
=============================================================================
