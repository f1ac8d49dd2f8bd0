------------------------------- MODULE Engine -------------------------------
(***************************************************************************)
(* The sync engine (internal/sync/engine.go) and the three REST handlers   *)
(* that drive it (internal/api/documents.go), for one document, on one or  *)
(* more server processes that share one storage backend.                   *)
(*                                                                         *)
(* A document is keyed by its id everywhere in the code and two documents  *)
(* share nothing but the short critical section of Engine.mu, so a single  *)
(* document is modelled.  Automerge state is abstracted to the SET of      *)
(* change sets applied to it: applying a known change is a no-op and       *)
(* changes commute.  No conflict resolver is configured (the default).     *)
(*                                                                         *)
(* A worker is a goroutine that is inside a request: a connection's read   *)
(* loop in Submit, or an API handler in Snapshot, Export or DELETE.        *)
(***************************************************************************)
EXTENDS Naturals, Sequences, FiniteSets

CONSTANTS
    Node,           \* server processes, each with an Engine of its own
    Worker,         \* goroutines that may be inside a request
    Change,         \* change sets a client may submit
    DocState,       \* addresses of docState structs
    Nil,            \* the nil pointer, and "nobody" for a mutex
    SnapshotEvery,  \* Options.SnapshotInterval; 0 disables snapshots
    Calls,          \* the requests clients make in this run
    StorageFails,   \* may a storage call return an error?
    MaxOps          \* bound: length of the operation log

ASSUME NilAssumption == Nil \notin DocState /\ Nil \notin Worker
ASSUME SnapshotEveryAssumption == SnapshotEvery \in Nat
ASSUME MaxOpsAssumption == MaxOps \in Nat
ASSUME CallsAssumption ==
    Calls \subseteq {"Submit", "Snapshot", "Export", "Delete", "Create"}
ASSUME StorageFailsAssumption == StorageFails \in BOOLEAN

VARIABLES
    \* the storage backend, as the Store interface promises it
    exists,     \* is there a row in documents?
    ops,        \* the operation log; the op with seq i is ops[i]
    snaps,      \* the snapshots, at most one per seq
    \* the memory of the server processes
    docs,       \* Engine.docs, per process: a docState or Nil
    doc,        \* docState.doc
    mu,         \* docState.mu: its holder or Nil
    \* the goroutines
    pc,         \* where each worker is
    req,        \* the request it serves, Nil when there is none
    st,         \* local st: the docState that state() returned
    loaded,     \* the document loadDoc is building, later the exported body
    seq,        \* loadDoc's atSeq, later the seq of the commit or snapshot
    \* history, for the properties
    acked,      \* changes acknowledged since the document was last deleted
    failed,     \* changes whose AppendOp, or whose deletion, returned an error
    floor,      \* what was acknowledged when the worker's request came in
    lastSent,   \* the seq each process last broadcast
    created,    \* on_document_created events since the last deletion
    raced       \* did a DELETE ever overlap with another request?

storeVars   == <<exists, ops, snaps>>
memoryVars  == <<docs, doc, mu>>
workerVars  == <<pc, req, st, loaded, seq, floor>>
historyVars == <<acked, failed, lastSent, created, raced>>
vars == <<storeVars, memoryVars, workerVars, historyVars>>

Request == [call : {"Submit"}, node : Node, change : Change]
    \cup [call : {"Snapshot", "Export", "Delete"}, node : Node]

Locations == {"idle", "state", "getSnapshot", "getOps", "install", "lock",
              "append", "committed", "broadcast", "latestSeq", "save",
              "reply", "forget"}

\* The code between st.mu.Lock and st.mu.Unlock.
Critical == {"append", "committed", "broadcast", "latestSeq", "save"}

Content(s) == {s[i] : i \in 1..Len(s)}

Prefix(s, n) == {s[i] : i \in {j \in 1..Len(s) : j <= n}}

Since(s, n) == {s[i] : i \in {j \in 1..Len(s) : j > n}}

FlagsOK == exists \in BOOLEAN /\ raced \in BOOLEAN

TypeOK ==
    /\ FlagsOK
    /\ ops \in Seq(Change)
    /\ snaps \subseteq [seq : Nat, state : SUBSET Change]
    /\ docs \in [Node -> DocState \cup {Nil}]
    /\ doc \in [DocState -> SUBSET Change]
    /\ mu \in [DocState -> Worker \cup {Nil}]
    /\ pc \in [Worker -> Locations]
    /\ req \in [Worker -> Request \cup {Nil}]
    /\ st \in [Worker -> DocState \cup {Nil}]
    /\ loaded \in [Worker -> SUBSET Change]
    /\ seq \in [Worker -> Nat]
    /\ acked \subseteq Change
    /\ failed \subseteq Change
    /\ floor \in [Worker -> SUBSET Change]
    /\ lastSent \in [Node -> Nat]
    /\ created \in Nat

Init ==
    /\ exists = FALSE
    /\ ops = <<>>
    /\ snaps = {}
    /\ docs = [n \in Node |-> Nil]
    /\ doc = [o \in DocState |-> {}]
    /\ mu = [o \in DocState |-> Nil]
    /\ pc = [w \in Worker |-> "idle"]
    /\ req = [w \in Worker |-> Nil]
    /\ st = [w \in Worker |-> Nil]
    /\ loaded = [w \in Worker |-> {}]
    /\ seq = [w \in Worker |-> 0]
    /\ acked = {}
    /\ failed = {}
    /\ floor = [w \in Worker |-> {}]
    /\ lastSent = [n \in Node |-> 0]
    /\ created = 0
    /\ raced = FALSE

----------------------------------------------------------------------------
(* Requests come in and leave.                                             *)

\* The worker leaves its request: the handler returns.
Return(w) ==
    /\ pc' = [pc EXCEPT ![w] = "idle"]
    /\ req' = [req EXCEPT ![w] = Nil]
    /\ st' = [st EXCEPT ![w] = Nil]
    /\ loaded' = [loaded EXCEPT ![w] = {}]
    /\ seq' = [seq EXCEPT ![w] = 0]
    /\ floor' = [floor EXCEPT ![w] = {}]

Goto(w, l) ==
    /\ pc' = [pc EXCEPT ![w] = l]
    /\ UNCHANGED <<req, floor>>

Unlock(o) == mu' = [mu EXCEPT ![o] = Nil]

Busy(w) == pc[w] # "idle"

Submitting == {w \in Worker : Busy(w) /\ req[w].call = "Submit"}

\* A request r reaches an idle worker.
Begin(w, r, l) ==
    /\ r.call \in Calls
    /\ pc[w] = "idle"
    /\ pc' = [pc EXCEPT ![w] = l]
    /\ req' = [req EXCEPT ![w] = r]
    /\ floor' = [floor EXCEPT ![w] = acked]
    /\ UNCHANGED <<st, loaded, seq>>

\* handleSync calls Submit with a non-empty document id and payload.
CallSubmit(w, n, c) ==
    /\ Len(ops) + Cardinality(Submitting) < MaxOps
    /\ Begin(w, [call |-> "Submit", node |-> n, change |-> c], "state")
    /\ raced' = (raced \/ \E v \in Worker : pc[v] = "forget")
    /\ UNCHANGED <<storeVars, memoryVars, acked, failed, lastSent, created>>

\* handleSnapshot and handleExport answer 404 unless GetDocument finds the row.
CallRead(w, n, api) ==
    /\ exists
    /\ Begin(w, [call |-> api, node |-> n], "state")
    /\ raced' = (raced \/ \E v \in Worker : pc[v] = "forget")
    /\ UNCHANGED <<storeVars, memoryVars, acked, failed, lastSent, created>>

\* handleDeleteDoc: DeleteDocument cascades to operations and snapshots.  The
\* cache is only dropped by the next step of the handler.
CallDelete(w, n) ==
    /\ exists
    /\ Begin(w, [call |-> "Delete", node |-> n], "forget")
    /\ exists' = FALSE
    /\ ops' = <<>>
    /\ snaps' = {}
    /\ acked' = {}
    /\ lastSent' = [m \in Node |-> 0]
    /\ created' = 0
    /\ raced' = (raced \/ \E v \in Worker \ {w} : Busy(v))
    /\ UNCHANGED <<memoryVars, failed>>

\* DeleteDocument took effect and its reply was lost: handleDeleteDoc returns the
\* error and does not call Forget, so the process keeps the document it has cached.
\* (A second DELETE finds no row, which is an error of DeleteDocument as well.)
DeleteFails ==
    /\ StorageFails
    /\ "Delete" \in Calls
    /\ exists
    /\ exists' = FALSE
    /\ ops' = <<>>
    /\ snaps' = {}
    /\ acked' = {}
    /\ failed' = failed \cup Content(ops)
    /\ lastSent' = [m \in Node |-> 0]
    /\ created' = 0
    /\ raced' = (raced \/ \E v \in Worker : Busy(v))
    /\ UNCHANGED <<memoryVars, workerVars>>

\* handleCreateDoc: CreateDocument inserts the row, with no operation.
CreateDocument ==
    /\ "Create" \in Calls
    /\ ~exists
    /\ exists' = TRUE
    /\ UNCHANGED <<ops, snaps, memoryVars, workerVars, historyVars>>
----------------------------------------------------------------------------
(* Engine.state and loadDoc, shared by Submit, Snapshot and Export.        *)

\* The first look at Engine.docs, under Engine.mu.
Lookup(w) ==
    LET cached == docs[req[w].node] IN
    /\ pc[w] = "state"
    /\ \/ /\ cached # Nil
          /\ st' = [st EXCEPT ![w] = cached]
          /\ Goto(w, "lock")
       \/ /\ cached = Nil
          /\ Goto(w, "getSnapshot")
          /\ UNCHANGED st
    /\ UNCHANGED <<storeVars, memoryVars, loaded, seq, historyVars>>

\* Mutant: ErrNoSnapshot yields the seq before the first.
GetSnapshotNone(w) ==
    /\ pc[w] = "getSnapshot"
    /\ \/ /\ snaps = {}
          /\ seq' = [seq EXCEPT ![w] = 0 - 1]
          /\ UNCHANGED loaded
       \/ \E s \in snaps :
            /\ \A t \in snaps : t.seq <= s.seq
            /\ loaded' = [loaded EXCEPT ![w] = s.state]
            /\ seq' = [seq EXCEPT ![w] = s.seq]
    /\ Goto(w, "getOps")
    /\ UNCHANGED <<storeVars, memoryVars, st, historyVars>>

\* GetSnapshot returns the snapshot with the highest seq, or ErrNoSnapshot.
GetSnapshot(w) ==
    /\ pc[w] = "getSnapshot"
    /\ \/ /\ snaps = {}
          /\ UNCHANGED <<loaded, seq>>
       \/ \E s \in snaps :
            /\ \A t \in snaps : t.seq <= s.seq
            /\ loaded' = [loaded EXCEPT ![w] = s.state]
            /\ seq' = [seq EXCEPT ![w] = s.seq]
    /\ Goto(w, "getOps")
    /\ UNCHANGED <<storeVars, memoryVars, st, historyVars>>

\* Mutant: the first operation after the snapshot is skipped.
GetOpsSinceLate(w) ==
    /\ pc[w] = "getOps"
    /\ loaded' = [loaded EXCEPT ![w] = @ \cup Since(ops, seq[w] + 1)]
    /\ Goto(w, "install")
    /\ UNCHANGED <<storeVars, memoryVars, st, seq, historyVars>>

\* GetOpsSince(atSeq) is a second statement; Rehydrate merges what it returns.
GetOpsSince(w) ==
    /\ pc[w] = "getOps"
    /\ loaded' = [loaded EXCEPT ![w] = @ \cup Since(ops, seq[w])]
    /\ Goto(w, "install")
    /\ UNCHANGED <<storeVars, memoryVars, st, seq, historyVars>>

\* Mutant: an error of GetOpsSince is dropped, the snapshot alone is used.
LoadFailsIgnored(w) ==
    /\ StorageFails
    /\ pc[w] = "getOps"
    /\ Goto(w, "install")
    /\ UNCHANGED <<storeVars, memoryVars, st, loaded, seq, historyVars>>

\* Either statement may fail: the request returns the error.
LoadFails(w) ==
    /\ StorageFails
    /\ pc[w] \in {"getSnapshot", "getOps"}
    /\ Return(w)
    /\ UNCHANGED <<storeVars, memoryVars, historyVars>>

\* The second look at Engine.docs: another goroutine's docState wins.
Install(w) ==
    LET n == req[w].node IN
    /\ pc[w] = "install"
    /\ \/ /\ docs[n] # Nil
          /\ st' = [st EXCEPT ![w] = docs[n]]
          /\ UNCHANGED <<docs, doc, mu>>
       \/ /\ docs[n] = Nil
          /\ \E o \in DocState :
               /\ \A m \in Node : docs[m] # o
               /\ \A v \in Worker : st[v] # o
               /\ docs' = [docs EXCEPT ![n] = o]
               /\ doc' = [doc EXCEPT ![o] = loaded[w]]
               /\ mu' = [mu EXCEPT ![o] = Nil]
               /\ st' = [st EXCEPT ![w] = o]
    /\ loaded' = [loaded EXCEPT ![w] = {}]
    /\ seq' = [seq EXCEPT ![w] = 0]
    /\ Goto(w, "lock")
    /\ UNCHANGED <<storeVars, historyVars>>
----------------------------------------------------------------------------
(* Submit, once it has the docState.                                       *)

\* st.mu.Lock and doc.Apply: memory changes before the log does.
LockAndApply(w) ==
    /\ pc[w] = "lock"
    /\ req[w].call = "Submit"
    /\ mu[st[w]] = Nil
    /\ mu' = [mu EXCEPT ![st[w]] = w]
    /\ doc' = [doc EXCEPT ![st[w]] = @ \cup {req[w].change}]
    /\ Goto(w, "append")
    /\ UNCHANGED <<storeVars, docs, st, loaded, seq, historyVars>>

\* Apply rejects a payload that is not a change set; nothing is committed.
ApplyFails(w) ==
    /\ pc[w] = "lock"
    /\ req[w].call = "Submit"
    /\ mu[st[w]] = Nil
    /\ Return(w)
    /\ UNCHANGED <<storeVars, memoryVars, historyVars>>

\* Mutant: the mutex is released before the events and the broadcast.
AppendOpUnlocks(w) ==
    /\ pc[w] = "append"
    /\ ops' = Append(ops, req[w].change)
    /\ exists' = TRUE
    /\ seq' = [seq EXCEPT ![w] = Len(ops) + 1]
    /\ Unlock(st[w])
    /\ Goto(w, "committed")
    /\ UNCHANGED <<snaps, docs, doc, st, loaded, historyVars>>

\* AppendOp commits the change at the next seq, creating the row if needed.
AppendOp(w) ==
    /\ pc[w] = "append"
    /\ ops' = Append(ops, req[w].change)
    /\ exists' = TRUE
    /\ seq' = [seq EXCEPT ![w] = Len(ops) + 1]
    /\ Goto(w, "committed")
    /\ UNCHANGED <<snaps, memoryVars, st, loaded, historyVars>>

\* Mutant: the error of AppendOp is dropped and the change acknowledged.
AppendFailsIgnored(w) ==
    /\ StorageFails
    /\ pc[w] = "append"
    /\ seq' = [seq EXCEPT ![w] = Len(ops)]
    /\ Goto(w, "committed")
    /\ UNCHANGED <<storeVars, memoryVars, st, loaded, historyVars>>

\* AppendOp returns an error, before the commit took effect or after it (the
\* reply to COMMIT is lost).  Submit returns; the applied change stays in doc.
AppendFails(w) ==
    /\ StorageFails
    /\ pc[w] = "append"
    /\ \/ UNCHANGED <<exists, ops>>
       \/ ops' = Append(ops, req[w].change) /\ exists' = TRUE
    /\ failed' = failed \cup {req[w].change}
    /\ Unlock(st[w])
    /\ Return(w)
    /\ UNCHANGED <<snaps, docs, doc, acked, lastSent, created, raced>>

PutSnapshot(at, state) ==
    {s \in snaps : s.seq # at} \cup {[seq |-> at, state |-> state]}

SnapshotDue(n) == SnapshotEvery > 0 /\ n % SnapshotEvery = 0

\* Mutant: off by one.
FirstOpTwice(n) == n <= 2

\* on_document_created goes with the first committed op of a document.
FirstOp(n) == n = 1

\* The events of a commit and the periodic snapshot.  SaveSnapshot needs the
\* documents row (foreign key); its failure is only logged.
AfterCommit(w) ==
    /\ pc[w] = "committed"
    /\ created' = IF FirstOp(seq[w]) THEN created + 1 ELSE created
    /\ \/ /\ SnapshotDue(seq[w])
          /\ exists
          /\ snaps' = PutSnapshot(seq[w], doc[st[w]])
       \/ /\ SnapshotDue(seq[w]) => ~exists \/ StorageFails
          /\ UNCHANGED snaps
    /\ Goto(w, "broadcast")
    /\ UNCHANGED <<exists, ops, memoryVars, st, loaded, seq,
                   acked, failed, lastSent, raced>>

\* Broadcast under st.mu, then return seq: handleSync enqueues the ack.
Broadcast(w) ==
    /\ pc[w] = "broadcast"
    /\ lastSent' = [lastSent EXCEPT ![req[w].node] = seq[w]]
    /\ acked' = acked \cup {req[w].change}
    /\ Unlock(st[w])
    /\ Return(w)
    /\ UNCHANGED <<storeVars, docs, doc, failed, created, raced>>
----------------------------------------------------------------------------
(* Snapshot, Export and the second half of DELETE.                         *)

\* Snapshot takes st.mu.
LockForSnapshot(w) ==
    /\ pc[w] = "lock"
    /\ req[w].call = "Snapshot"
    /\ mu[st[w]] = Nil
    /\ mu' = [mu EXCEPT ![st[w]] = w]
    /\ Goto(w, "latestSeq")
    /\ UNCHANGED <<storeVars, docs, doc, st, loaded, seq, historyVars>>

GetLatestSeq(w) ==
    /\ pc[w] = "latestSeq"
    /\ seq' = [seq EXCEPT ![w] = Len(ops)]
    /\ Goto(w, "save")
    /\ UNCHANGED <<storeVars, memoryVars, st, loaded, historyVars>>

SaveSnapshot(w) ==
    /\ pc[w] = "save"
    /\ exists
    /\ snaps' = PutSnapshot(seq[w], doc[st[w]])
    /\ Unlock(st[w])
    /\ Return(w)
    /\ UNCHANGED <<exists, ops, docs, doc, historyVars>>

\* Mutant: the error path forgets the mutex.
SnapshotFailsLocked(w) ==
    /\ \/ StorageFails /\ pc[w] \in {"latestSeq", "save"}
       \/ ~exists /\ pc[w] = "save"
    /\ Return(w)
    /\ UNCHANGED <<storeVars, memoryVars, historyVars>>

\* Either statement of Snapshot may fail; the foreign key makes SaveSnapshot
\* fail when the row is gone.
SnapshotFails(w) ==
    /\ \/ StorageFails /\ pc[w] \in {"latestSeq", "save"}
       \/ ~exists /\ pc[w] = "save"
    /\ Unlock(st[w])
    /\ Return(w)
    /\ UNCHANGED <<storeVars, docs, doc, historyVars>>

\* Export copies the document under st.mu.
Export(w) ==
    /\ pc[w] = "lock"
    /\ req[w].call = "Export"
    /\ mu[st[w]] = Nil
    /\ loaded' = [loaded EXCEPT ![w] = doc[st[w]]]
    /\ st' = [st EXCEPT ![w] = Nil]
    /\ Goto(w, "reply")
    /\ UNCHANGED <<storeVars, memoryVars, seq, historyVars>>

Reply(w) ==
    /\ pc[w] = "reply"
    /\ Return(w)
    /\ UNCHANGED <<storeVars, memoryVars, historyVars>>

\* handleDeleteDoc calls Forget on its own process.
Forget(w) ==
    /\ pc[w] = "forget"
    /\ docs' = [docs EXCEPT ![req[w].node] = Nil]
    /\ Return(w)
    /\ UNCHANGED <<storeVars, doc, mu, historyVars>>

\* A process dies: its memory and the requests inside it are gone.
Crash(n) ==
    LET dead == {w \in Worker : Busy(w) /\ req[w].node = n}
        clear(f, v) == [w \in Worker |-> IF w \in dead THEN v ELSE f[w]] IN
    /\ docs[n] # Nil \/ dead # {}
    /\ docs' = [docs EXCEPT ![n] = Nil]
    /\ mu' = [o \in DocState |-> IF mu[o] \in dead THEN Nil ELSE mu[o]]
    /\ pc' = clear(pc, "idle")
    /\ req' = clear(req, Nil)
    /\ st' = clear(st, Nil)
    /\ loaded' = clear(loaded, {})
    /\ seq' = clear(seq, 0)
    /\ floor' = clear(floor, {})
    /\ UNCHANGED <<storeVars, doc, historyVars>>
----------------------------------------------------------------------------
Step(w) ==
    \/ Lookup(w) \/ GetSnapshot(w) \/ GetOpsSince(w) \/ LoadFails(w)
    \/ Install(w)
    \/ LockAndApply(w) \/ ApplyFails(w) \/ AppendOp(w) \/ AppendFails(w)
    \/ AfterCommit(w) \/ Broadcast(w)
    \/ LockForSnapshot(w) \/ GetLatestSeq(w) \/ SaveSnapshot(w)
    \/ SnapshotFails(w)
    \/ Export(w) \/ Reply(w) \/ Forget(w)

Arrive(w) ==
    \E n \in Node :
        \/ \E c \in Change : CallSubmit(w, n, c)
        \/ \E api \in {"Snapshot", "Export"} : CallRead(w, n, api)
        \/ CallDelete(w, n)

Next ==
    \/ \E w \in Worker : Arrive(w) \/ Step(w)
    \/ DeleteFails \/ CreateDocument
    \/ \E n \in Node : Crash(n)

Spec == Init /\ [][Next]_vars

\* A goroutine that can run does; sync.Mutex hands a contended lock over after
\* a bounded wait (starvation mode), hence strong fairness for the lock.
Fairness ==
    \A w \in Worker :
        /\ WF_vars(Step(w))
        /\ SF_vars(LockAndApply(w) \/ LockForSnapshot(w) \/ Export(w))

FairSpec == Spec /\ Fairness
----------------------------------------------------------------------------
(* Properties.                                                             *)

\* The process is not part of a cluster.
Solo == \A m, n \in Node : m = n

\* Store.SaveSnapshot's contract: a snapshot at seq n contains every operation
\* up to and including n (it may contain more).
SnapshotReflectsOps ==
    \A s \in snaps : s.seq <= Len(ops) /\ Prefix(ops, s.seq) \subseteq s.state

\* On a single process, as long as no DELETE overlapped with another request,
\* both the periodic and the manual snapshot honour that contract: no operation
\* is skipped when a restart resumes from the snapshot.
SnapshotSound == Solo /\ ~raced => SnapshotReflectsOps

\* An acknowledged change is in what loadDoc rebuilds after a crash, from any
\* snapshot there is or from the log alone.
AckedSurviveRestart ==
    Solo /\ ~raced =>
        /\ acked \subseteq Content(ops)
        /\ \A s \in snaps : acked \subseteq s.state \cup Since(ops, s.seq)

\* Whenever its mutex is free, the cached document is the document in the log,
\* plus at most changes of which a caller was told that storage failed: it failed
\* to commit them, or to delete them.
CacheMatchesLog ==
    Solo /\ ~raced /\ (\A w \in Worker : pc[w] # "forget") =>
        \A n \in Node :
            docs[n] # Nil /\ mu[docs[n]] = Nil =>
                /\ Content(ops) \subseteq doc[docs[n]]
                /\ doc[docs[n]] \subseteq Content(ops) \cup failed

\* An export contains every change acknowledged before it was requested.
ExportReadsAcked ==
    Solo /\ ~raced =>
        \A w \in Worker : pc[w] = "reply" => floor[w] \subseteq loaded[w]

\* A process broadcasts only higher and higher seqs, until the log is deleted.
SendsInOrder ==
    \A n \in Node :
        lastSent'[n] # lastSent[n] => lastSent'[n] > lastSent[n] \/ ops' = <<>>

\* docState.mu makes sequence assignment and broadcast order agree: a process
\* broadcasts the operations it commits in the order of their seq.
BroadcastInOrder == [][~raced' => SendsInOrder]_vars

\* on_document_created fires at most once per life of a document, and never
\* before its first operation is committed.
CreatedAtMostOnce == ~raced => created <= 1 /\ (created = 1 => ops # <<>>)

\* Every request is answered, unless its process dies: no worker waits forever
\* on a docState's mutex.
RequestsReturn == \A w \in Worker : pc[w] # "idle" ~> pc[w] = "idle"

\* Forget's comment: once a document is forgotten, an access reloads it from
\* storage, so between requests the cache holds nothing storage lacks, but for
\* changes of which a caller was told that storage failed.
ForgottenIsReloaded ==
    (\A w \in Worker : pc[w] = "idle") =>
        \A n \in Node : docs[n] # Nil =>
            doc[docs[n]] \subseteq Content(ops) \cup failed
=============================================================================
