----------------------------- MODULE MCSqlStore -----------------------------
(* The instance of SqlStore for TLC; its liveness rules out symmetry.      *)
EXTENDS SqlStore
=============================================================================
