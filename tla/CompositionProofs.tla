-------------------------- MODULE CompositionProofs -------------------------
(***************************************************************************)
(* That the components MCBackground composes behave there as they do       *)
(* alone, so that what is proved of each, for every value of its           *)
(* constants, holds of the composition that TLC explores.                  *)
(***************************************************************************)
EXTENDS MCBackground, BackgroundProofs, DataProofs, PagingProofs, TLAPS

\* Each component keeps to its own specification.
Components ==
    /\ M!Spec /\ R!Spec /\ W!Spec /\ A!Spec /\ P!Spec
    /\ S!Spec /\ C!Spec /\ E!Spec /\ G!Spec

\* What a component that is not in focus holds of the configuration is one of the
\* sources it may have.
LEMMA InitConfig == Init => G!Init
<1> SUFFICES ASSUME Init PROVE G!Init
  BY Zenon
<1>1. AnySource \in Sources
  BY ConfigAssumed, Zenon DEF AnySource, G!ConfigAssumption
<1> QED
  BY <1>1, Zenon DEF Init, G!Init

\* A step of the composition is, for every component, one of its own steps or none.
LEMMA Steps ==
    [Next]_vars =>
        /\ [M!Next]_(M!vars) /\ [R!Next]_(R!vars) /\ [W!Next]_(W!vars)
        /\ [A!Next]_(A!vars) /\ [P!Next]_(P!vars) /\ [S!Next]_(S!vars)
        /\ [C!Next]_(C!vars) /\ [E!Next]_(E!vars) /\ [G!Next]_(G!vars)
<1> USE DEF OnlyMigration, OnlyRegistry, OnlyWebhook, OnlyAuth, OnlyPaging,
            OnlySessions, OnlyResolver, OnlyProcess, OnlyConfig
<1>1. [Next]_vars => [M!Next]_(M!vars)
  BY Zenon DEF Next, vars, M!vars, migrationVars
<1>2. [Next]_vars => [R!Next]_(R!vars)
  BY Zenon DEF Next, vars, R!vars, registryVars
<1>3. [Next]_vars => [W!Next]_(W!vars)
  BY Zenon DEF Next, vars, W!vars, webhookVars
<1>4. [Next]_vars => [A!Next]_(A!vars)
  BY Zenon DEF Next, vars, A!vars, authVars
<1>5. [Next]_vars => [P!Next]_(P!vars)
  BY Zenon DEF Next, vars, P!vars, pagingVars
<1>6. [Next]_vars => [S!Next]_(S!vars)
  BY Zenon DEF Next, vars, S!vars, sessionsVars
<1>7. [Next]_vars => [C!Next]_(C!vars)
  BY Zenon DEF Next, vars, C!vars, resolverVars
<1>8. [Next]_vars => [E!Next]_(E!vars)
  BY Zenon DEF Next, vars, E!vars, processVars
<1>9. [Next]_vars => [G!Next]_(G!vars)
  BY Zenon DEF Next, vars, G!vars, configVars
<1> QED
  BY <1>1, <1>2, <1>3, <1>4, <1>5, <1>6, <1>7, <1>8, <1>9, Zenon

\* So, by the way they are composed, a behaviour of the composition is one of each
\* component.
LEMMA CompositionImplements == FairSpec => Components
<1>1. Init => M!Init /\ R!Init /\ W!Init /\ A!Init /\ P!Init /\ S!Init /\ C!Init /\ E!Init
  BY Zenon DEF Init
<1> QED
  BY <1>1, InitConfig, Steps, PTL
     DEF FairSpec, Components, M!Spec, R!Spec, W!Spec, A!Spec, P!Spec, S!Spec, C!Spec, E!Spec, G!Spec

\* Every component keeps the types of its state: the call whose start is kept for
\* its timeout is never ahead of the clock, no cursor of a paged read points past
\* the log, no restarted process is past the last version (Authenticate,
\* handleHistory, migrate).
THEOREM CompositionTyped == FairSpec => []TypeOK
<1>1. MigrationInv /\ RegistryInv /\ WebhookInv /\ AuthInv /\ PagingInv /\ SessionsInv
        /\ ResolverInv /\ ProcessInv /\ G!TypeOK => TypeOK
  BY Zenon DEF MigrationInv, RegistryInv, WebhookInv, AuthInv, PagingInv, PagingBase, SessionsInv,
               ResolverInv, ProcessInv, TypeOK
<1> QED
  BY <1>1, CompositionImplements, MigrationInvariant, RegistryInvariant, WebhookInvariant,
     AuthInvariant, PagingInvariant, SessionsInvariant, ResolverInvariant, ProcessInvariant,
     ConfigTyped, PTL DEF Components

\* What the components promise.
Promises ==
    /\ RecordedIsApplied /\ LiveListed /\ GoneDisappears /\ AttemptsExact /\ MetricsBalance
    /\ AllowGrounded /\ ListComplete /\ HistoryComplete /\ NoEcho /\ TornDown /\ AckedShown
    /\ RestServed /\ Released /\ ConfigSound

\* So each promise of a component, proved of the component alone, holds of the
\* composition, the registry's with a TTL that outlives two heartbeats.
THEOREM CompositionSafe == TTLSuffices => (FairSpec => []Promises)
<1> SUFFICES ASSUME TTLSuffices PROVE FairSpec => []Promises
  BY Zenon
<1>1. R!Spec => []LiveListed
  BY HeartbeatCorrect, Zenon
<1> QED
  BY <1>1, CompositionImplements, MigrationCorrect, ExpiryCorrect, RetriesCorrect, MetricsCorrect,
     AuthCorrect, PagingListComplete, PagingHistoryComplete, EchoCorrect, TeardownCorrect,
     ResolverAckedShown, ShutdownCorrect, ReleaseCorrect, ConfigIsSound, PTL DEF Components, Promises
=============================================================================
