------------------------------- MODULE Paging -------------------------------
(***************************************************************************)
(* Reading page by page while others write: a client walks through         *)
(* GET /api/v1/docs with limit and offset, and through the history of a    *)
(* document with after and limit (internal/api/documents.go), over the     *)
(* list and range queries of the three backends (internal/storage).        *)
(* updated_at is a clock of milliseconds, so two writes may share it, and  *)
(* a query returns such rows in any order.  A writer reads the clock before*)
(* it changes the row: SQLite's AppendOp with the write lock held, the     *)
(* others, and every CreateDocument, without a lock.                       *)
(***************************************************************************)
EXTENDS Integers, Sequences, FiniteSets, Functions

CONSTANTS
    Doc,
    Nil,        \* no row; a query parameter that is absent or no number
    Limits,     \* the limits a client asks for
    Sinces,     \* the times it gives as updated_since, 0 for none
    MaxWrites   \* bound: creations, appends and deletions

PagingAssumption ==
    /\ IsFiniteSet(Doc) /\ Doc # {}
    /\ Nil \notin Int
    /\ Limits \subseteq Int \cup {Nil}
    /\ Sinces \subseteq Nat /\ Sinces # {}
    /\ MaxWrites \in Nat

VARIABLES
    backend,  \* "sqlite", or "server" for Postgres and MySQL
    now,      \* the clock
    rows,     \* documents: updated_at of each row, or Nil
    latest,   \* latest_seq of Tracked's row
    writes,   \* how many writes there were
    list,     \* a walk through the list,
    history   \* or one through the history of a document

vars == <<backend, now, rows, latest, writes, list, history>>

\* The document whose history is read.
Tracked == CHOOSE d \in Doc : TRUE

ListWalk ==
    [at : {"idle", "page", "done"}, limit : Int, since : Sinces, offset : Nat,
     seen : SUBSET Doc,     \* what its pages contained
     still : SUBSET Doc,    \* listed when it began, and neither written nor deleted since
     calm : BOOLEAN]        \* no page had ties, nothing was deleted, and on a
                            \* server no row was given an older time

HistoryWalk ==
    [at : {"idle", "get", "ops", "done"}, limit : Int,
     got : Seq(Nat),        \* the seqs it was sent; the last one is its cursor
     floor : Nat,           \* the log's length when its last request began
     calm : BOOLEAN]        \* its document was not deleted

TypeOK ==
    /\ backend \in {"sqlite", "server"}
    /\ now \in 0..MaxWrites
    /\ rows \in [Doc -> 0..MaxWrites \cup {Nil}]
    /\ latest \in 0..MaxWrites
    /\ writes \in 0..MaxWrites
    /\ list \in ListWalk
    /\ history \in HistoryWalk

Init ==
    /\ backend \in {"sqlite", "server"}
    /\ now = 0
    /\ rows = [d \in Doc |-> Nil]
    /\ latest = 0
    /\ writes = 0
    /\ list = [at |-> "idle", limit |-> 0, since |-> CHOOSE t \in Sinces : TRUE, offset |-> 0,
               seen |-> {}, still |-> {}, calm |-> TRUE]
    /\ history = [at |-> "idle", limit |-> 0, got |-> <<>>,
                  floor |-> 0, calm |-> TRUE]

\* atoiDefault(s, 0)
AtoiDefault(s) == IF s = Nil THEN 0 ELSE s
----------------------------------------------------------------------------
(* The writers.                                                            *)

\* A statement of a writer takes effect.  What follows the end of a walk is left
\* out.
Write(d, seq) ==
    /\ writes < MaxWrites
    /\ "done" \notin {list.at, history.at}
    /\ writes' = writes + 1
    /\ now' \in {now, now + 1}
    /\ latest' = IF d = Tracked THEN seq ELSE latest
    /\ UNCHANGED backend

\* What the clock may have shown a writer that has waited since.
Earlier == 0..now'

CreateDocument(d) ==
    /\ rows[d] = Nil
    /\ Write(d, 0)
    /\ \E at \in Earlier : rows' = [rows EXCEPT ![d] = at]
    /\ UNCHANGED <<list, history>>

\* Mutant: SQLite's clock is read before Begin as well.
AppendOpEarly(d) ==
    /\ Write(d, latest + 1)
    /\ \E at \in Earlier :
         /\ rows' = [rows EXCEPT ![d] = at]
         /\ list' = [list EXCEPT
              !.still = @ \ {d},
              !.calm = @ /\ \/ list.at # "page" \/ backend = "sqlite"
                            \/ rows[d] = Nil \/ rows[d] <= at]
    /\ UNCHANGED history

\* AppendOp: the row is created on first write, and updated_at set to what the
\* clock showed after Begin, which on SQLite holds the write lock by then.
AppendOp(d) ==
    /\ Write(d, latest + 1)
    /\ \E at \in IF backend = "sqlite" THEN {now'} ELSE Earlier :
         /\ rows' = [rows EXCEPT ![d] = at]
         /\ list' = [list EXCEPT
              !.still = @ \ {d},
              !.calm = @ /\ \/ list.at # "page" \/ backend = "sqlite"
                            \/ rows[d] = Nil \/ rows[d] <= at]
    /\ UNCHANGED history

DeleteDocument(d) ==
    /\ rows[d] # Nil
    /\ Write(d, 0)
    /\ rows' = [rows EXCEPT ![d] = Nil]
    /\ list' = [list EXCEPT !.still = @ \ {d}, !.calm = @ /\ list.at # "page"]
    /\ history' = [history EXCEPT !.calm = @ /\ (history.at = "idle" \/ d # Tracked)]
----------------------------------------------------------------------------
(* The list.                                                               *)

Matching(since) == {d \in Doc : rows[d] # Nil /\ rows[d] >= since}

\* LIMIT n OFFSET k
Slice(s, k, n) == SubSeq(s, k + 1, IF k + n < Len(s) THEN k + n ELSE Len(s))

\* ORDER BY updated_at DESC: the orders the rows may come in.
Sorted(since) ==
    LET n == Cardinality(Matching(since)) IN
    {s \in Bijection(1..n, Matching(since)) :
        \A i, j \in 1..n : i < j => rows[s[i]] >= rows[s[j]]}

\* WHERE updated_at >= ? ORDER BY updated_at DESC LIMIT ? OFFSET ?: the results
\* the query may have.  Without a positive limit there is no OFFSET either.
ListDocuments(since, limit, offset) ==
    {IF limit > 0 THEN Slice(s, offset, limit) ELSE s : s \in Sorted(since)}

StartList(limit, since) ==
    /\ list.at = "idle" /\ history.at = "idle"
    /\ list' = [list EXCEPT !.at = "page", !.limit = AtoiDefault(limit), !.since = since,
                            !.still = Matching(since)]
    /\ UNCHANGED <<backend, now, rows, latest, writes, history>>

\* handleListDocs.  The client goes on until a page is not full.
HandleListDocs ==
    /\ list.at = "page"
    /\ \E page \in ListDocuments(list.since, list.limit, list.offset) :
         list' = [list EXCEPT
                   !.at = IF list.limit > 0 /\ Len(page) = list.limit THEN "page" ELSE "done",
                   !.offset = @ + Len(page),
                   !.seen = @ \cup Range(page),
                   !.calm = @ /\ \A d, e \in Matching(list.since) :
                                     rows[d] = rows[e] => d = e]
    /\ UNCHANGED <<backend, now, rows, latest, writes, history>>
----------------------------------------------------------------------------
(* The history.                                                            *)

StartHistory(limit) ==
    /\ history.at = "idle" /\ list.at = "idle"
    /\ history' = [history EXCEPT !.at = "get", !.limit = AtoiDefault(limit)]
    /\ UNCHANGED <<backend, now, rows, latest, writes, list>>

\* handleHistory looks for the document ...
HistoryGet ==
    /\ history.at = "get"
    /\ history' = IF rows[Tracked] = Nil
         THEN [history EXCEPT !.at = "done", !.floor = 0]
         ELSE [history EXCEPT !.at = "ops", !.floor = latest]
    /\ UNCHANGED <<backend, now, rows, latest, writes, list>>

\* Mutant: seq >= ?
GetOpsSinceFrom(after) ==
    LET first == IF after = 0 THEN 1 ELSE after IN
    [i \in 1..(latest - first + 1) |-> first + i - 1]

\* WHERE doc_id = ? AND seq > ? ORDER BY seq ASC, of the seqs 1 to latest_seq.
GetOpsSince(after) == [i \in 1..(latest - after) |-> after + i]

\* ... then reads all operations after the cursor and cuts the answer to size.
HistoryOps ==
    LET after == IF history.got = <<>> THEN 0 ELSE history.got[Len(history.got)]
        ops == GetOpsSince(after)
        page == IF history.limit > 0 THEN Slice(ops, 0, history.limit) ELSE ops IN
    /\ history.at = "ops"
    /\ history' = [history EXCEPT
         !.at = IF history.limit > 0 /\ Len(page) = history.limit THEN "get" ELSE "done",
         !.got = @ \o page]
    /\ UNCHANGED <<backend, now, rows, latest, writes, list>>
----------------------------------------------------------------------------
Next ==
    \/ \E d \in Doc : CreateDocument(d) \/ AppendOp(d) \/ DeleteDocument(d)
    \/ \E limit \in Limits, since \in Sinces : StartList(limit, since)
    \/ HandleListDocs
    \/ \E limit \in Limits : StartHistory(limit)
    \/ HistoryGet \/ HistoryOps

Spec == Init /\ [][Next]_vars
----------------------------------------------------------------------------
(* Properties.                                                             *)

\* A walk through the list misses no document that was there all the time and
\* that nobody wrote: a row that is written moves to the front, and those it
\* passes move back, never forward.  A deletion or rows of the same millisecond
\* can make it miss one, and on Postgres and MySQL, never on SQLite, an append
\* that gives a row an older time than it had.
ListComplete == list.at = "done" /\ list.calm => list.still \subseteq list.seen

\* A walk through the history of a document that is not deleted gets the
\* operations from the first on, in order, none twice and none left out, and at
\* its end all that were there when its last request began.
HistoryComplete ==
    history.calm =>
        /\ \A i \in DOMAIN history.got : history.got[i] = i
        /\ history.at = "done" => Len(history.got) >= history.floor
=============================================================================
