------------------------------ MODULE Process -------------------------------
(***************************************************************************)
(* The life of a server process (cmd/opensynccrdt/main.go run,             *)
(* pkg/engine/engine.go New and Close): how the parts are built, what is   *)
(* undone when one cannot be, and how a signal ends it all while requests  *)
(* are being served.  A job is a REST request, which http.Server.Shutdown  *)
(* waits for, or a hijacked WebSocket, which it does not.                  *)
(***************************************************************************)
EXTENDS Naturals, FiniteSets

CONSTANTS
    Rest,         \* REST requests
    Socket,       \* WebSocket connections
    ClusterMode,  \* cfg.Cluster.Mode
    CloseWaits,   \* store.Close waits for the calls in progress (pgxpool)
    MaxCalls      \* bound: store calls of a job

Job == Rest \cup Socket

ProcessAssumption ==
    /\ Rest \cap Socket = {}
    /\ ClusterMode \in BOOLEAN
    /\ CloseWaits \subseteq BOOLEAN
    /\ MaxCalls \in Nat

VARIABLES
    stage,     \* where run is, see Stages
    waits,     \* whether this store's Close waits
    cancelled, \* the engine's context is cancelled
    store,     \* "none", "open", "closing", "closed"
    node,      \* the process has a cluster node: its connection and its loops (what
               \* its registry entry does is in Registry)
    job,       \* "none", "waiting" for a message, "serving", "call", "done"
    calls,     \* store calls a job has made
    stopped,   \* stop was called: the next signal is not caught
    gaveUp,    \* history: the shutdown timeout passed, or serving failed
    refused    \* history: jobs that had a store call fail for a closed store

vars == <<stage, waits, cancelled, store, node, job, calls, stopped, gaveUp, refused>>

Stages == {"open", "auth", "join", "listen", "running", "draining",
           "close", "leave", "release", "exited", "failed", "killed"}

TypeOK ==
    /\ stage \in Stages
    /\ waits \in CloseWaits
    /\ cancelled \in BOOLEAN
    /\ store \in {"none", "open", "closing", "closed"}
    /\ node \in BOOLEAN
    /\ job \in [Job -> {"none", "waiting", "serving", "call", "done"}]
    /\ calls \in [Job -> 0..MaxCalls]
    /\ stopped \in BOOLEAN
    /\ gaveUp \in BOOLEAN
    /\ refused \subseteq Job

Init ==
    /\ stage = "open"
    /\ waits \in CloseWaits
    /\ cancelled = FALSE
    /\ store = "none"
    /\ node = FALSE
    /\ job = [j \in Job |-> "none"]
    /\ calls = [j \in Job |-> 0]
    /\ stopped = FALSE
    /\ gaveUp = FALSE
    /\ refused = {}

jobVars == <<job, calls, refused>>

Goto(from, to) == stage = from /\ stage' = to
----------------------------------------------------------------------------
(* newFromConfig: each step's failure undoes the ones before it.           *)

OpenStore ==
    /\ \/ Goto("open", "auth") /\ store' = "open" /\ UNCHANGED cancelled
       \/ Goto("open", "failed") /\ cancelled' = TRUE /\ UNCHANGED store
    /\ UNCHANGED <<waits, node, stopped, gaveUp, jobVars>>

ConfigureAuth ==
    /\ \/ Goto("auth", IF ClusterMode THEN "join" ELSE "listen") /\ UNCHANGED <<cancelled, store>>
       \/ Goto("auth", "failed") /\ cancelled' = TRUE /\ store' = "closed"
    /\ UNCHANGED <<waits, node, stopped, gaveUp, jobVars>>

\* Mutant: the store stays open when the cluster cannot be joined.
JoinClusterLeak ==
    /\ \/ Goto("join", "listen") /\ node' = TRUE /\ UNCHANGED <<cancelled, store>>
       \/ Goto("join", "failed") /\ cancelled' = TRUE /\ UNCHANGED <<node, store>>
    /\ UNCHANGED <<waits, stopped, gaveUp, jobVars>>

\* cluster.New closes its connection when it cannot register.
JoinCluster ==
    /\ \/ Goto("join", "listen") /\ node' = TRUE /\ UNCHANGED <<cancelled, store>>
       \/ Goto("join", "failed") /\ cancelled' = TRUE /\ store' = "closed" /\ UNCHANGED node
    /\ UNCHANGED <<waits, stopped, gaveUp, jobVars>>

\* ListenAndServe; when it cannot listen, run returns and the deferred Close runs.
Listen ==
    /\ Goto("listen", "running") \/ Goto("listen", "close")
    /\ UNCHANGED <<waits, cancelled, store, node, stopped, gaveUp, jobVars>>
----------------------------------------------------------------------------
(* Requests and connections.                                               *)

\* A process that is gone serves nothing.
Up == stage \notin {"exited", "failed", "killed"}

\* A request's handler runs at once, a WebSocket's read loop waits for a message.
Accept(j) ==
    /\ stage = "running"
    /\ job[j] = "none"
    /\ job' = [job EXCEPT ![j] = IF j \in Rest THEN "serving" ELSE "waiting"]
    /\ UNCHANGED <<stage, waits, cancelled, store, node, calls, stopped, gaveUp, refused>>

\* The read loop gets a message; it gets none once its context is cancelled.
Read(j) ==
    /\ Up
    /\ j \in Socket
    /\ job[j] = "waiting"
    /\ ~cancelled
    /\ job' = [job EXCEPT ![j] = "serving"]
    /\ UNCHANGED <<stage, waits, cancelled, store, node, calls, stopped, gaveUp, refused>>

\* A handler calls the store.  The call takes no context: a message that was read
\* before the cancellation is handled to its end.
Call(j) ==
    /\ Up
    /\ job[j] = "serving"
    /\ calls[j] < MaxCalls
    /\ calls' = [calls EXCEPT ![j] = @ + 1]
    /\ IF store = "open"
       THEN job' = [job EXCEPT ![j] = "call"] /\ UNCHANGED refused
       ELSE refused' = refused \cup {j} /\ UNCHANGED job
    /\ UNCHANGED <<stage, waits, cancelled, store, node, stopped, gaveUp>>

\* A call in progress ends; when the store was closed under it, perhaps badly.
CallEnds(j) ==
    /\ Up
    /\ job[j] = "call"
    /\ job' = [job EXCEPT ![j] = "serving"]
    /\ \/ UNCHANGED refused
       \/ store = "closed" /\ refused' = refused \cup {j}
    /\ UNCHANGED <<stage, waits, cancelled, store, node, calls, stopped, gaveUp>>

\* The handler of a request returns, and that of a message, to the read loop; the
\* read loop ends when the client leaves or the context is cancelled.
Return(j) ==
    /\ Up
    /\ job[j] \in {"serving", "waiting"}
    /\ job' = [job EXCEPT ![j] = IF j \in Socket /\ @ = "serving" THEN "waiting" ELSE "done"]
    /\ UNCHANGED <<stage, waits, cancelled, store, node, calls, stopped, gaveUp, refused>>
----------------------------------------------------------------------------
(* The end.                                                                *)

\* run is told to stop, and calls stop.
Signal ==
    /\ Goto("running", "draining")
    /\ stopped' = TRUE
    /\ UNCHANGED <<waits, cancelled, store, node, gaveUp, jobVars>>

\* The listener breaks: run returns at once.
ServeFails ==
    /\ Goto("running", "close")
    /\ gaveUp' = TRUE
    /\ UNCHANGED <<waits, cancelled, store, node, stopped, jobVars>>

\* Mutant: does not wait.
ShutdownNow ==
    /\ Goto("draining", "close")
    /\ UNCHANGED <<waits, cancelled, store, node, stopped, gaveUp, jobVars>>

\* Shutdown stopped accepting, and waits for the requests that are not hijacked.
Shutdown ==
    /\ Goto("draining", "close")
    /\ \A j \in Rest : job[j] \in {"none", "done"}
    /\ UNCHANGED <<waits, cancelled, store, node, stopped, gaveUp, jobVars>>

\* Mutant: Shutdown has no deadline.
ShutdownNoTimeout ==
    /\ Goto("draining", "close")
    /\ \A j \in Rest : job[j] = "done"
    /\ UNCHANGED <<waits, cancelled, store, node, stopped, gaveUp, jobVars>>

\* The timeout passes; httpServer.Close leaves the handlers running.
ShutdownTimesOut ==
    /\ Goto("draining", "close")
    /\ \E j \in Rest : job[j] \notin {"none", "done"}
    /\ gaveUp' = TRUE
    /\ UNCHANGED <<waits, cancelled, store, node, stopped, jobVars>>

\* A second signal: the default handler ends the process.
HardExit ==
    /\ stopped
    /\ stage \in {"draining", "close", "leave", "release"}
    /\ stage' = "killed"
    /\ UNCHANGED <<waits, cancelled, store, node, stopped, gaveUp, jobVars>>

\* Engine.Close: cancel the context ...
Cancel ==
    /\ Goto("close", IF node THEN "leave" ELSE "release")
    /\ cancelled' = TRUE
    /\ UNCHANGED <<waits, store, node, stopped, gaveUp, jobVars>>

\* ... leave the cluster: Node.Close ends the node whether or not Redis takes the
\* DEL, and its error is returned only after the store is closed ...
LeaveCluster ==
    /\ Goto("leave", "release")
    /\ node' = FALSE
    /\ UNCHANGED <<waits, cancelled, store, stopped, gaveUp, jobVars>>

\* ... and close the store, which takes no new calls ...
CloseStore ==
    /\ stage = "release"
    /\ store = "open"
    /\ store' = IF waits THEN "closing" ELSE "closed"
    /\ UNCHANGED <<stage, waits, cancelled, node, stopped, gaveUp, jobVars>>

\* ... and may wait for those in progress ...
StoreClosed ==
    /\ store = "closing"
    /\ \A j \in Job : job[j] # "call"
    /\ store' = "closed"
    /\ UNCHANGED <<stage, waits, cancelled, node, stopped, gaveUp, jobVars>>

\* ... before run returns.
Exit ==
    /\ Goto("release", "exited")
    /\ store = "closed"
    /\ UNCHANGED <<waits, cancelled, store, node, stopped, gaveUp, jobVars>>
----------------------------------------------------------------------------
Run ==
    \/ OpenStore \/ ConfigureAuth \/ JoinCluster \/ Listen
    \/ Shutdown \/ ShutdownTimesOut
    \/ Cancel \/ LeaveCluster \/ CloseStore \/ StoreClosed \/ Exit

Next ==
    \/ Run
    \/ Signal \/ ServeFails
    \/ HardExit
    \/ \E j \in Job : Accept(j) \/ Read(j) \/ Call(j) \/ CallEnds(j) \/ Return(j)

Spec == Init /\ [][Next]_vars
----------------------------------------------------------------------------
(* Properties.                                                             *)

\* A REST request that was accepted meets an open store in every one of its calls,
\* whenever the signal comes, unless the shutdown timeout passed or the listener
\* broke: run lets Shutdown wait for it before Close is called.
RestServed == refused \cap Rest # {} => gaveUp

\* A process that could not start, and one that ended otherwise than by a second
\* signal, has closed its store, left the cluster and cancelled its context,
\* whichever step failed (newFromConfig, Close).
Released ==
    stage \in {"exited", "failed"} =>
        /\ cancelled
        /\ store \in {"none", "closed"}
        /\ ~node
        /\ stage = "exited" => store = "closed"

\* A signal ends the process, whatever clients and handlers do: Shutdown gives up
\* after its timeout, and a store that waits in Close waits for calls, not for
\* connections.
ShutdownEnds == stage = "draining" ~> stage \in {"exited", "killed"}
=============================================================================
