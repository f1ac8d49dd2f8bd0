------------------------- MODULE BackgroundSessions -------------------------
(***************************************************************************)
(* The Sessions component as MCBackground composes it: the names of its    *)
(* state there, and what it promises.                                      *)
(***************************************************************************)
CONSTANTS Conn, Doc, Session, NoSession, MaxMessages

VARIABLES
    connPhase, subs, hubDocs, call, bc, active, messages, used,
    connected, disconnected, echoed

S == INSTANCE Sessions WITH phase <- connPhase, Nil <- NoSession

ASSUME SessionsAssumed == S!SessionsAssumption
----------------------------------------------------------------------------
(* Properties.                                                             *)

\* No connection is sent a change of the only session it used for a document
\* (Broadcast, handleSync).
NoEcho == S!NoEcho

\* A connection that ended is in no document's subscribers, and its connected
\* events have their disconnected ones (deregister, fireDisconnected).
TornDown == S!TornDown
=============================================================================
