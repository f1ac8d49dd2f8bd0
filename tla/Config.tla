------------------------------- MODULE Config -------------------------------
(***************************************************************************)
(* Configuration (internal/config/config.go Load, pkg/engine/engine.go     *)
(* New): defaults, then the YAML file, then the environment, then what an  *)
(* embedding program asks for, then validation.  The settings are those    *)
(* another component relies on.  A text is Blank, or named after the       *)
(* source it comes from; Bad is what strconv or YAML cannot parse.         *)
(***************************************************************************)
EXTENDS Integers, FiniteSets

CONSTANTS
    Nil, Blank, Bad,
    Sources   \* what the file and the environment may hold

Texts == {"data_dir", "url", "header_name", "webhook_url", "redis_url"}
Names == {"backend", "auth_mode"}
Numbers == {"snapshot_interval", "max_retries", "max_connections"}
Key == Texts \cup Names \cup Numbers \cup {"cluster_mode"}

\* The settings of a source, the file or the environment, Nil where it has none.
Fits(s, source) ==
    /\ \A k \in Texts : s[k] \in {Nil, Blank, source}
    /\ s["backend"] \in {Nil, "sqlite", "postgres", "mysql", "Postgres", "oracle"}
    /\ s["auth_mode"] \in {Nil, "none", "header", "webhook", "Webhook"}
    /\ \A k \in Numbers : s[k] \in Int \cup {Nil, Bad}
    /\ s["cluster_mode"] \in {Nil, TRUE, FALSE, Bad}

ConfigAssumption ==
    /\ Nil \notin {Blank, Bad, "sqlite"} /\ Blank # Bad
    /\ Sources # {} /\ \A s \in Sources : Fits(s.file, "file") /\ Fits(s.env, "env")

VARIABLES
    stage,  \* "default", "file", "env", "loaded", "ready", "failed"
    file,   \* the file's settings, Nil where it has none
    env,    \* the environment's
    embed,  \* the engine.Config that New is called with
    cfg     \* the Config

vars == <<stage, file, env, embed, cfg>>

\* Is there a Config.Full; the directory given to SQLiteStorage, Nil if that is not
\* used; NoAuth or HeaderAuth; and the name given to HeaderAuth, Nil if it is "".
Embeddings ==
    {e \in [full : BOOLEAN, storage : {Nil, Blank, "program"},
            auth : {Nil, "none", "header"}, header : {Nil, Blank, "program"}] :
        e.auth = "header" \/ e.header = Nil}

\* What main asks for.
Standalone == [full |-> TRUE, storage |-> Nil, auth |-> Nil, header |-> Nil]

TypeOK ==
    /\ stage \in {"default", "file", "env", "loaded", "ready", "failed"}
    /\ Fits(file, "file") /\ Fits(env, "env")
    /\ embed \in Embeddings
    /\ DOMAIN cfg = Key

\* Default.
Default ==
    [data_dir |-> "default", url |-> Blank, header_name |-> "default", webhook_url |-> Blank,
     redis_url |-> Blank, backend |-> "sqlite", auth_mode |-> "none",
     snapshot_interval |-> 100, max_retries |-> 3, max_connections |-> 10000,
     cluster_mode |-> FALSE]

Init ==
    /\ stage = "default"
    /\ \E s \in Sources : file = s.file /\ env = s.env
    /\ embed = Standalone
    /\ cfg = Default

Fail == stage' = "failed" /\ UNCHANGED <<file, env, embed, cfg>>
----------------------------------------------------------------------------
\* Load reads the file over the defaults; YAML that does not fit a setting's type
\* is an error.
ReadFile ==
    /\ stage = "default"
    /\ IF \E k \in Key : file[k] = Bad
       THEN Fail
       ELSE /\ stage' = "file"
            /\ cfg' = [k \in Key |-> IF file[k] = Nil THEN cfg[k] ELSE file[k]]
            /\ UNCHANGED <<file, env, embed>>

\* The environment's backend and mode are lower-cased; the file's are not.
Lower(v) == IF v = "Postgres" THEN "postgres" ELSE IF v = "Webhook" THEN "webhook" ELSE v

Parsed(k) == IF k \in Names THEN Lower(env[k]) ELSE env[k]

\* applyEnv overlays the variables that are set, empty ones included, and fails
\* when one does not parse.
ApplyEnv ==
    /\ stage = "file"
    /\ IF \E k \in Key : env[k] = Bad
       THEN Fail
       ELSE /\ stage' = "env"
            /\ cfg' = [k \in Key |-> IF env[k] = Nil THEN cfg[k] ELSE Parsed(k)]
            /\ UNCHANGED <<file, env, embed>>

\* Validate, but for the port, TLS, the bus's name, the message size and the log.
Valid(c) ==
    /\ c["backend"] \in {"sqlite", "postgres", "mysql"}
    /\ c["backend"] = "sqlite" => c["data_dir"] # Blank
    /\ c["backend"] # "sqlite" => c["url"] # Blank
    /\ c["snapshot_interval"] >= 1
    /\ c["auth_mode"] \in {"none", "header", "webhook"}
    /\ c["auth_mode"] = "header" => c["header_name"] # Blank
    /\ c["auth_mode"] = "webhook" => c["webhook_url"] # Blank
    /\ c["max_retries"] >= 0
    /\ c["cluster_mode"] => c["backend"] # "sqlite" /\ c["redis_url"] # Blank
    /\ c["max_connections"] >= 1

Load ==
    /\ stage = "env"
    /\ IF Valid(cfg) THEN stage' = "loaded" /\ UNCHANGED <<file, env, embed, cfg>> ELSE Fail

\* Mutant: HeaderAuth drops the name it is given.
ConfiguratorsUnnamed(c, e) ==
    [c EXCEPT !["backend"] = IF e.storage = Nil THEN @ ELSE "sqlite",
              !["data_dir"] = IF e.storage = Nil THEN @ ELSE e.storage,
              !["auth_mode"] = IF e.auth = Nil THEN @ ELSE e.auth]

\* SQLiteStorage, and NoAuth or HeaderAuth, which keeps the header's name when it
\* is given none.
Configurators(c, e) ==
    [c EXCEPT !["backend"] = IF e.storage = Nil THEN @ ELSE "sqlite",
              !["data_dir"] = IF e.storage = Nil THEN @ ELSE e.storage,
              !["auth_mode"] = IF e.auth = Nil THEN @ ELSE e.auth,
              !["header_name"] = IF e.header = Nil THEN @ ELSE e.header]

\* New starts from Config.Full, here what Load returned, or from the defaults, and
\* validates what it made of them.
New(e) ==
    /\ stage = IF e.full THEN "loaded" ELSE "default"
    /\ embed' = e
    /\ cfg' = Configurators(cfg, e)
    /\ stage' = IF Valid(cfg') THEN "ready" ELSE "failed"
    /\ UNCHANGED <<file, env>>

Next == ReadFile \/ ApplyEnv \/ Load \/ \E e \in Embeddings : New(e)

Spec == Init /\ [][Next]_vars
----------------------------------------------------------------------------
\* What the program's calls name for a setting, Nil where they name nothing.
Asked(k) ==
    CASE k = "backend" -> IF embed.storage = Nil THEN Nil ELSE "sqlite"
      [] k = "data_dir" -> embed.storage
      [] k = "auth_mode" -> embed.auth
      [] k = "header_name" -> embed.header
      [] OTHER -> Nil

\* The highest source that has a setting: the program, then, if the program was
\* given what Load returned, the environment and the file, then the default.
Highest(k) ==
    IF Asked(k) # Nil THEN Asked(k)
    ELSE IF embed.full /\ env[k] # Nil THEN Parsed(k)
    ELSE IF embed.full /\ file[k] # Nil THEN file[k] ELSE Default[k]

\* An engine is built only from settings that come from the highest source that
\* has them, with a variable set to nothing overriding the file's value; and they
\* are what the other parts rely on: a cluster never shares an SQLite file and has
\* a bus, an SQLite file has a directory, a database, a webhook and a header have
\* their URL or name, and no interval, limit or retry count is out of range.
ConfigSound ==
    stage = "ready" =>
        /\ \A k \in Key : cfg[k] = Highest(k)
        /\ cfg["cluster_mode"] => cfg["backend"] \in {"postgres", "mysql"} /\ cfg["redis_url"] # Blank
        /\ cfg[IF cfg["backend"] = "sqlite" THEN "data_dir" ELSE "url"] # Blank
        /\ cfg["auth_mode"] = "header" => cfg["header_name"] # Blank
        /\ cfg["auth_mode"] = "webhook" => cfg["webhook_url"] # Blank
        /\ cfg["snapshot_interval"] > 0 /\ cfg["max_connections"] > 0 /\ cfg["max_retries"] >= 0
=============================================================================
