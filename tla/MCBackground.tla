---------------------------- MODULE MCBackground ----------------------------
(***************************************************************************)
(* The components beside the document path, for TLC: migration of the      *)
(* schema, the node registry, event webhooks, webhook authentication,      *)
(* paged reads, sessions, the conflict resolver, the process and its       *)
(* configuration.  They share no state, so a behaviour is one of one of    *)
(* them, `focus', and the others keep their initial state.                 *)
(***************************************************************************)
EXTENDS Integers, Sequences, BackgroundSchema, BackgroundServices, BackgroundSessions,
        BackgroundPaging, BackgroundData

VARIABLE focus

\* The one version there is, and a second one like those to come.
MCMigrations == <<<<"documents", "operations", "snapshots">>, <<"next">>>>

\* What settings a source, the file or the environment, has here.
MCRaw(source) ==
    [data_dir |-> {Blank, source}, url |-> {Blank, source}, header_name |-> {Blank, source},
     webhook_url |-> {Blank, source}, redis_url |-> {Blank, source},
     backend |-> {"sqlite", "postgres", "Postgres", "oracle"},
     auth_mode |-> {"none", "header", "webhook", "Webhook"},
     snapshot_interval |-> {0, 1, Bad}, max_retries |-> {-1, 0, Bad},
     max_connections |-> {0, 1, Bad}, cluster_mode |-> {TRUE, FALSE, Bad}]

MCUnset == [k \in DOMAIN MCRaw("file") |-> Absent]

\* The file of a cluster node.
MCClusterFile ==
    [MCUnset EXCEPT !["url"] = "file", !["redis_url"] = "file", !["webhook_url"] = "file",
                    !["backend"] = "postgres", !["auth_mode"] = "webhook",
                    !["cluster_mode"] = TRUE]

\* The setting that decides whether another one is needed, or what it must be.
MCDecider ==
    [k \in DOMAIN MCUnset |->
        CASE k \in {"url", "data_dir", "cluster_mode"} -> "backend"
          [] k \in {"header_name", "webhook_url"} -> "auth_mode"
          [] OTHER -> "cluster_mode"]

\* A file, empty or a cluster node's, with one setting changed, and an environment
\* that has the same one and its decider.
MCSources ==
    UNION {{[file |-> [base EXCEPT ![k] = u], env |-> [MCUnset EXCEPT ![k] = v, ![MCDecider[k]] = w]] :
               u \in MCRaw("file")[k], v \in MCRaw("env")[k] \cup {Absent},
               w \in MCRaw("env")[MCDecider[k]] \cup {Absent}} :
           base \in {MCUnset, MCClusterFile}, k \in DOMAIN MCUnset}

\* What the process's files and variables hold where they do not matter.
AnySource == CHOOSE s \in Sources : TRUE

migrationVars == <<opened, created, versions, phase, version, stmt, crashes>>
registryVars == <<state, key, nextBeat, set, age, missed, gone>>
webhookVars == <<delivery, attempt, received, calls, errors>>
authVars == <<now, cache, pc, asked, verdict, answer>>
pagingVars == <<pageBackend, clock, rows, latest, writes, list, history>>
sessionsVars == <<connPhase, subs, hubDocs, call, bc, active, messages, used,
                  connected, disconnected, echoed>>
resolverVars == <<made, seen, doc, log, snap, submits, acked, leftOut>>
processVars == <<stage, waits, cancelled, store, node, job, jobCalls, stopped, gaveUp, refused>>
configVars == <<step, file, env, embed, cfg>>
vars == <<focus, migrationVars, registryVars, webhookVars, authVars,
          pagingVars, sessionsVars, resolverVars, processVars, configVars>>

Init ==
    /\ focus \in {"migration", "registry", "webhook", "auth", "paging",
                  "sessions", "resolver", "process", "config"}
    /\ M!Init /\ R!Init /\ W!Init /\ A!Init /\ P!Init /\ S!Init /\ C!Init /\ E!Init
    /\ focus = "migration" \/ opened = "sqlite"
    /\ focus = "process" \/ ~waits
    /\ focus = "paging" \/ pageBackend = "sqlite"
    /\ IF focus = "config"
       THEN G!Init
       ELSE /\ step = "default" /\ file = AnySource.file /\ env = AnySource.env
            /\ embed = G!Standalone /\ cfg = G!Default

OnlyMigration ==
    /\ focus = "migration"
    /\ UNCHANGED <<focus, registryVars, webhookVars, authVars, pagingVars,
                   sessionsVars, resolverVars, processVars, configVars>>
OnlyRegistry ==
    /\ focus = "registry"
    /\ UNCHANGED <<focus, migrationVars, webhookVars, authVars, pagingVars,
                   sessionsVars, resolverVars, processVars, configVars>>
OnlyWebhook ==
    /\ focus = "webhook"
    /\ UNCHANGED <<focus, migrationVars, registryVars, authVars, pagingVars,
                   sessionsVars, resolverVars, processVars, configVars>>
OnlyAuth ==
    /\ focus = "auth"
    /\ UNCHANGED <<focus, migrationVars, registryVars, webhookVars, pagingVars,
                   sessionsVars, resolverVars, processVars, configVars>>
OnlyPaging ==
    /\ focus = "paging"
    /\ UNCHANGED <<focus, migrationVars, registryVars, webhookVars, authVars,
                   sessionsVars, resolverVars, processVars, configVars>>
OnlySessions ==
    /\ focus = "sessions"
    /\ UNCHANGED <<focus, migrationVars, registryVars, webhookVars, authVars,
                   pagingVars, resolverVars, processVars, configVars>>
OnlyResolver ==
    /\ focus = "resolver"
    /\ UNCHANGED <<focus, migrationVars, registryVars, webhookVars, authVars,
                   pagingVars, sessionsVars, processVars, configVars>>
OnlyProcess ==
    /\ focus = "process"
    /\ UNCHANGED <<focus, migrationVars, registryVars, webhookVars, authVars,
                   pagingVars, sessionsVars, resolverVars, configVars>>
OnlyConfig ==
    /\ focus = "config"
    /\ UNCHANGED <<focus, migrationVars, registryVars, webhookVars, authVars,
                   pagingVars, sessionsVars, resolverVars, processVars>>

Next ==
    \/ OnlyMigration /\ M!Next
    \/ OnlyRegistry /\ R!Next
    \/ OnlyWebhook /\ W!Next
    \/ OnlyAuth /\ A!Next
    \/ OnlyPaging /\ P!Next
    \/ OnlySessions /\ S!Next
    \/ OnlyResolver /\ C!Next
    \/ OnlyProcess /\ E!Next
    \/ OnlyConfig /\ G!Next

\* Processes run, and exited ones are started again; the goroutine of a delivery
\* runs, and a post ends at the latest with the client's timeout; run runs, the
\* shutdown timeout passes and a store call ends.  No handler is assumed to return,
\* and no client to leave.
Fairness ==
    /\ \A n \in Node : WF_vars(OnlyMigration /\ M!Step(n))
    /\ \A e \in Event : WF_vars(OnlyWebhook /\ W!Deliver(e))
    /\ WF_vars(OnlyProcess /\ E!Run)
    /\ \A j \in Rest \cup Socket : WF_vars(OnlyProcess /\ E!CallEnds(j))

FairSpec == Init /\ [][Next]_vars /\ Fairness
----------------------------------------------------------------------------
(* Properties, each that of its component.                                 *)

\* Every component keeps the types of its state; a call's start is never ahead of
\* the clock.
TypeOK ==
    /\ M!TypeOK /\ R!TypeOK /\ W!TypeOK /\ A!TypeOK
    /\ P!TypeOK /\ S!TypeOK /\ C!TypeOK /\ E!TypeOK /\ G!TypeOK

\* Every process ends up with an open store, whatever crashes and races its
\* migrations met (migrate, applyMigration).
EventuallyReady == focus = "migration" => M!EventuallyReady

\* Every delivery comes to an end, whatever the endpoint does (deliver).
DeliverySettles == W!DeliverySettles

\* A signal ends the process, whatever clients and handlers do (run, Close).
ShutdownEnds == focus = "process" => E!ShutdownEnds
=============================================================================
