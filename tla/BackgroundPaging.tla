-------------------------- MODULE BackgroundPaging --------------------------
(***************************************************************************)
(* Paged reads as MCBackground composes them: the names of their state     *)
(* there, and what they promise.                                           *)
(***************************************************************************)
CONSTANTS PageDoc, NoRow, Limits, Sinces, MaxWrites

VARIABLES pageBackend, clock, rows, latest, writes, list, history

P == INSTANCE Paging WITH
    backend <- pageBackend, now <- clock, Doc <- PageDoc, Nil <- NoRow

ASSUME PagingAssumed == P!PagingAssumption
----------------------------------------------------------------------------
(* Properties.                                                             *)

\* A client that reads the document list page by page sees every document that
\* was there throughout and that nobody wrote, unless rows tie, one is deleted or,
\* on Postgres and MySQL, one is given an older time (handleListDocs, ListDocuments,
\* AppendOp).
ListComplete == P!ListComplete

\* A client that reads a document's history page by page gets every operation from
\* the first on, once and in order, those of its last request included
\* (handleHistory, GetOpsSince).
HistoryComplete == P!HistoryComplete
=============================================================================
