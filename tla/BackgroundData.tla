--------------------------- MODULE BackgroundData ---------------------------
(***************************************************************************)
(* The conflict resolver and the configuration as MCBackground composes    *)
(* them: the names of their state there, and what each promises.           *)
(***************************************************************************)
CONSTANTS
    Absent,                                   \* their Nil
    Client, SnapshotEvery,                    \* Resolver
    MaxChanges, MaxOwn, MaxSubmits,
    Blank, Bad, Sources                       \* Config

VARIABLES
    made, seen, doc, log, snap, submits, acked, leftOut,
    step, file, env, embed, cfg

C == INSTANCE Resolver WITH Nil <- Absent
G == INSTANCE Config WITH stage <- step, Nil <- Absent

ASSUME ResolverAssumed == C!ResolverAssumption
ASSUME ConfigAssumed == G!ConfigAssumption
----------------------------------------------------------------------------
(* Properties.                                                             *)

\* A change whose Submit returned is in the log; it shows in memory and after a
\* restart, unless a document the conflict resolver returned left it out
\* (applyChange).
AckedShown == C!AckedShown

\* An engine is built only from a configuration the other parts can rely on, whose
\* settings come from the highest source that has them (Load, New).
ConfigSound == G!ConfigSound
=============================================================================
