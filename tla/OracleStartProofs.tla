--------------------------- MODULE OracleStartProofs ---------------------------
(* What OracleStart guarantees in every configuration, for any prompts. *)
EXTENDS OracleStart, TLAPS

-----------------------------------------------------------------------------
(* The agent's database *)

\* Before the agent database is wired, nothing has opened plugin-sql's manager.
Unwired == {"config", "requiring", "storage", "wiring"}

BootTypeOK ==
  /\ settings \in Settings /\ phase \in Phases
  /\ postgresUrl \in Databases \cup {"none"}
  /\ pool \in Databases \cup {"none", "pglite"}
  /\ tables \subseteq Databases \cup {"pglite"}
  /\ registered \in BOOLEAN

\* The inductive invariant behind AgentDbIsolated: from the wiring on
\* POSTGRES_URL is the agent's, which a reopened manager reads, and the agent is
\* started on a manager that is open.
DbInv ==
  /\ BootTypeOK
  /\ phase \in Unwired => pool = "none"
  /\ phase = "migrating" => postgresUrl # "none"
  /\ AgentDbIntended =>
       /\ tables \subseteq {"agent"}
       /\ pool \in {"none", "agent"} \/ phase = "failed"
       /\ phase \in Unwired \cup Ended \/ postgresUrl = "agent"
       /\ phase = "agents" => pool = "agent"

LEMMA DbInit == Init => DbInv
  <1> SUFFICES ASSUME Init  PROVE DbInv
    OBVIOUS
  <1>1. BootTypeOK
    <2>1. settings.url \in Databases \cup {"none"}
      BY DEF Init, Settings
    <2>2. settings \in Settings /\ phase \in Phases /\ registered \in BOOLEAN
      BY DEF Init, Phases
    <2> QED BY <2>1, <2>2 DEF Init, BootTypeOK
  <1>2. pool = "none" /\ tables = {} /\ phase = "config"
    BY DEF Init
  <1> QED BY <1>1, <1>2 DEF DbInv, Unwired

\* The steps that leave all of start() alone.
LEMMA DbUntouched ==
  ASSUME DbInv, UNCHANGED boot
  PROVE  DbInv'
  BY DEF DbInv, BootTypeOK, boot, AgentDbIntended, IsPostgresConfigured

LEMMA DbStep == DbInv /\ [Next]_vars => DbInv'
  <1> SUFFICES ASSUME DbInv, [Next]_vars  PROVE DbInv'
    OBVIOUS
  <1> USE DEF DbInv, BootTypeOK, AgentDbIntended, IsPostgresConfigured, Unwired,
              Ended, Phases, Databases
  <1>1. CASE CheckConfig
    BY <1>1 DEF CheckConfig
  <1>2. CASE InitializeOracle
    BY <1>2 DEF InitializeOracle
  <1>3. CASE InitializeStorage
    BY <1>3 DEF InitializeStorage
  <1>4. CASE StepFails
    BY <1>4 DEF StepFails, Reject
  <1>5. CASE WireAgentDb
    BY <1>5 DEF WireAgentDb, Bootstrap, Reject
  <1>6. CASE Migrate
    BY <1>6 DEF Migrate, ExpectDatabase
  <1>7. CASE StartAgents
    BY <1>7 DEF StartAgents
  <1>8. CASE SetOracleAddress
    <2>1. registered' \in BOOLEAN
      BY <1>8 DEF SetOracleAddress, SubmitTx
    <2>2. /\ phase = "address" /\ phase' \in {"catchup", "failed"}
          /\ UNCHANGED <<settings, postgresUrl, pool, tables>>
      BY <1>8 DEF SetOracleAddress
    <2> QED BY <2>1, <2>2
  <1>9. CASE CatchUp
    BY <1>9 DEF CatchUp
  <1>10. CASE StartHeartbeat
    BY <1>10 DEF StartHeartbeat
  <1>11. CASE ArmHeartbeat
    BY <1>11 DEF ArmHeartbeat
  <1>12. CASE BrainInitialized
    BY <1>12 DEF BrainInitialized, CreateDb, Bootstrap
  <1>13. CASE RecreatePool
    BY <1>13 DEF RecreatePool
  <1>14. CASE UNCHANGED boot
    BY <1>14, DbUntouched
  <1> QED
    <2>1. ASSUME NEW c \in Prompts, AskBrain(c)  PROVE UNCHANGED boot
      BY <2>1 DEF AskBrain
    <2>2. BrainFails \/ LoadSanitizer \/ SanitizerLoads \/ SanitizerFails => UNCHANGED boot
      BY DEF BrainFails, LoadSanitizer, SanitizerLoads, SanitizerFails
    <2>3. Beat => UNCHANGED boot
      BY DEF Beat, TimerFires, BeatEnds
    <2>4. UNCHANGED vars => UNCHANGED boot
      BY DEF vars
    <2> QED
      BY <1>1, <1>2, <1>3, <1>4, <1>5, <1>6, <1>7, <1>8, <1>9, <1>10, <1>11,
         <1>12, <1>13, <1>14, <2>1, <2>2, <2>3, <2>4
         DEF Next, Main, BrainEnds

\* A configured agent database is the only one the agent's schema is created in
\* and the agent runs on, in every configuration and whenever the Brain is
\* initialized and the manager reopened.
THEOREM AgentDatabaseIsolated == Spec => []AgentDbIsolated
  <1>1. DbInv => AgentDbIsolated
    BY DEF DbInv, AgentDbIsolated
  <1> QED BY <1>1, DbInit, DbStep, PTL DEF Spec

-----------------------------------------------------------------------------
(* What is started on demand, and the heartbeat *)

BrainTypeOK ==
  /\ promise \in {"none", "pending", "ready", "disabled"}
  /\ inits \in Nat /\ built \in Nat
  /\ caller \in [Callers -> [at : {"idle", "waiting", "told"}, got : Nat, failed : BOOLEAN]]

\* The promise knows what runs and what was built.
PromiseExact ==
  /\ inits = IF promise = "pending" THEN 1 ELSE 0
  /\ built = IF promise = "ready" THEN 1 ELSE 0
  /\ promise = "disabled" => ~BrainConfigured

\* Null is the answer to a caller whose initialization failed.
NullExplained ==
  \A c \in Callers :
    /\ caller[c].got <= 1
    /\ caller[c].at = "told" /\ caller[c].got = 0 /\ BrainConfigured => caller[c].failed

BrainInv == BrainTypeOK /\ PromiseExact /\ NullExplained

\* A load is under way or may start only while attempts are left.
LoaderInv ==
  /\ sanitizer \in {"none", "loading", "ready", "no-export", "given-up"}
  /\ loadAttempts \in 0..MAX_LOAD_ATTEMPTS
  /\ sanitizer = "none" => loadAttempts < MAX_LOAD_ATTEMPTS
  /\ sanitizer = "given-up" => loadAttempts = MAX_LOAD_ATTEMPTS

\* One timer or one beat, and neither before the process serves.
HeartInv ==
  /\ timer \in BOOLEAN /\ beats \in 0..1
  /\ timer = TRUE => beats = 0
  /\ phase # "serving" => timer = FALSE /\ beats = 0

LEMMA BrainInit == Init => BrainInv
  BY DEF Init, BrainInv, BrainTypeOK, PromiseExact, NullExplained, Idle

LEMMA LoaderInit == Init => LoaderInv
  BY StartAssumption DEF Init, LoaderInv

LEMMA HeartInit == Init => HeartInv
  <1> SUFFICES ASSUME Init  PROVE HeartInv
    OBVIOUS
  <1>1. timer = FALSE /\ beats = 0
    BY DEF Init
  <1>2. timer \in BOOLEAN
    BY <1>1
  <1> QED BY <1>1, <1>2 DEF HeartInv

\* Asking for the handles starts an initialization only when none runs.
LEMMA GetHandlesKeeps ==
  ASSUME BrainInv, NEW c \in Callers, GetHandles(c), UNCHANGED settings
  PROVE  BrainInv'
  <1>1. BrainConfigured' = BrainConfigured
    BY DEF BrainConfigured, IsPostgresConfigured
  <1>2. \/ /\ promise' = "pending" /\ inits' = 1 /\ built' = 0
           /\ caller' = Awaits(c)
        \/ /\ promise' = "disabled" /\ ~BrainConfigured /\ inits' = 0 /\ built' = 0
           /\ caller' = Told(c, 0)
        \/ /\ promise' = "ready" /\ inits' = 0 /\ built' = 1
           /\ caller' = Told(c, 1)
    BY DEF GetHandles, BrainInv, BrainTypeOK, PromiseExact
  <1>3. BrainTypeOK'
    <2>1. caller' \in [Callers -> [at : {"idle", "waiting", "told"}, got : Nat, failed : BOOLEAN]]
      <3>1. [at |-> "waiting", got |-> 0, failed |-> FALSE]
              \in [at : {"idle", "waiting", "told"}, got : Nat, failed : BOOLEAN]
        OBVIOUS
      <3>2. \A n \in {0, 1} : [at |-> "told", got |-> n, failed |-> FALSE]
              \in [at : {"idle", "waiting", "told"}, got : Nat, failed : BOOLEAN]
        OBVIOUS
      <3> QED BY <3>1, <3>2, <1>2 DEF BrainInv, BrainTypeOK, Awaits, Told
    <2> QED BY <2>1, <1>2 DEF BrainTypeOK
  <1>4. PromiseExact'
    BY <1>1, <1>2 DEF PromiseExact
  <1>5. NullExplained'
    <2> SUFFICES ASSUME NEW d \in Callers
                 PROVE  /\ caller'[d].got <= 1
                        /\ caller'[d].at = "told" /\ caller'[d].got = 0 /\ BrainConfigured
                             => caller'[d].failed
      BY <1>1 DEF NullExplained
    <2>1. CASE d # c
      BY <2>1, <1>2 DEF BrainInv, BrainTypeOK, NullExplained, Awaits, Told
    <2>2. CASE d = c
      BY <2>2, <1>2 DEF BrainInv, BrainTypeOK, Awaits, Told
    <2> QED BY <2>1, <2>2
  <1> QED BY <1>3, <1>4, <1>5 DEF BrainInv

LEMMA BrainStep == BrainInv /\ [Next]_vars => BrainInv'
  <1> SUFFICES ASSUME BrainInv, [Next]_vars  PROVE BrainInv'
    OBVIOUS
  <1>1. CASE UNCHANGED <<settings, brain>>
    BY <1>1 DEF BrainInv, BrainTypeOK, PromiseExact, NullExplained, BrainConfigured,
                IsPostgresConfigured, brain
  <1>2. CASE StartHeartbeat
    BY <1>2, GetHandlesKeeps DEF StartHeartbeat, Callers
  <1>3. ASSUME NEW c \in Prompts, AskBrain(c)  PROVE BrainInv'
    BY <1>3, GetHandlesKeeps DEF AskBrain, Callers, boot
  <1>4. CASE BrainInitialized
    <2>1. promise = "pending" /\ built' = 1 /\ inits' = 0 /\ promise' = "ready"
      BY <1>4 DEF BrainInitialized, BrainInv, BrainTypeOK, PromiseExact
    <2> QED
      BY <2>1, <1>4 DEF BrainInitialized, TellAll, BrainInv, BrainTypeOK, PromiseExact,
                        NullExplained, BrainConfigured, IsPostgresConfigured
  <1>5. CASE BrainFails
    <2>1. promise = "pending" /\ built' = 0 /\ inits' = 0 /\ promise' = "none"
      BY <1>5 DEF BrainFails, BrainInv, BrainTypeOK, PromiseExact
    <2> QED
      BY <2>1, <1>5 DEF BrainFails, TellAll, BrainInv, BrainTypeOK, PromiseExact,
                        NullExplained, BrainConfigured, IsPostgresConfigured, boot
  <1> QED
    <2>1. CheckConfig \/ InitializeOracle \/ InitializeStorage \/ StepFails \/ WireAgentDb
            => UNCHANGED <<settings, brain>>
      BY DEF CheckConfig, InitializeOracle, InitializeStorage, StepFails, WireAgentDb, Reject
    <2>2. Migrate \/ StartAgents \/ SetOracleAddress \/ CatchUp \/ ArmHeartbeat \/ RecreatePool
            => UNCHANGED <<settings, brain>>
      BY DEF Migrate, StartAgents, SetOracleAddress, CatchUp, ArmHeartbeat, RecreatePool
    <2>3. LoadSanitizer \/ SanitizerLoads \/ SanitizerFails \/ Beat
            => UNCHANGED <<settings, brain>>
      BY DEF LoadSanitizer, SanitizerLoads, SanitizerFails, Beat, TimerFires, BeatEnds, boot
    <2>4. UNCHANGED vars => UNCHANGED <<settings, brain>>
      BY DEF vars, boot
    <2> QED
      BY <1>1, <1>2, <1>3, <1>4, <1>5, <2>1, <2>2, <2>3, <2>4 DEF Next, Main, BrainEnds

LEMMA LoaderStep == LoaderInv /\ [Next]_vars => LoaderInv'
  <1> SUFFICES ASSUME LoaderInv, [Next]_vars  PROVE LoaderInv'
    OBVIOUS
  <1>1. CASE UNCHANGED loader
    BY <1>1 DEF LoaderInv, loader
  <1>2. CASE LoadSanitizer
    BY <1>2, StartAssumption DEF LoadSanitizer, LoaderInv
  <1>3. CASE SanitizerLoads
    BY <1>3 DEF SanitizerLoads, LoaderInv
  <1>4. CASE SanitizerFails
    BY <1>4, StartAssumption DEF SanitizerFails, LoaderInv
  <1> QED
    <2>1. Main => UNCHANGED loader
      BY DEF Main, CheckConfig, InitializeOracle, InitializeStorage, StepFails, WireAgentDb,
             Reject, Migrate, StartAgents, SetOracleAddress, CatchUp, StartHeartbeat,
             ArmHeartbeat
    <2>2. BrainEnds \/ Beat \/ RecreatePool => UNCHANGED loader
      BY DEF BrainEnds, BrainInitialized, BrainFails, Beat, TimerFires, BeatEnds, RecreatePool
    <2>3. ASSUME NEW c \in Prompts, AskBrain(c)  PROVE UNCHANGED loader
      BY <2>3 DEF AskBrain
    <2>4. UNCHANGED vars => UNCHANGED loader
      BY DEF vars
    <2> QED BY <1>1, <1>2, <1>3, <1>4, <2>1, <2>2, <2>3, <2>4 DEF Next

LEMMA HeartStep == HeartInv /\ [Next]_vars => HeartInv'
  <1> SUFFICES ASSUME HeartInv, [Next]_vars  PROVE HeartInv'
    OBVIOUS
  <1>1. CASE UNCHANGED <<phase, heart>>
    BY <1>1 DEF HeartInv, heart
  <1>2. CASE phase # "serving" /\ phase' # "serving" /\ UNCHANGED heart
    BY <1>2 DEF HeartInv, heart
  <1>3. CASE ArmHeartbeat
    <2>1. phase = "arming" /\ phase' = "serving" /\ beats' = beats /\ timer' \in BOOLEAN
      BY <1>3 DEF ArmHeartbeat
    <2> QED BY <2>1 DEF HeartInv
  <1>4. CASE TimerFires
    <2>1. timer = TRUE
      BY <1>4 DEF TimerFires, HeartInv
    <2>2. timer' = FALSE /\ timer' \in BOOLEAN
      BY <1>4 DEF TimerFires
    <2>3. beats' = 1 /\ phase' = "serving"
      BY <2>1, <1>4 DEF TimerFires, HeartInv, boot
    <2> QED BY <2>2, <2>3 DEF HeartInv
  <1>5. ASSUME NEW written \in BOOLEAN, BeatEnds(written)  PROVE HeartInv'
    BY <1>5 DEF BeatEnds, HeartInv, boot
  <1> QED
    <2>1. CheckConfig \/ InitializeOracle \/ InitializeStorage \/ StepFails \/ WireAgentDb
            => phase # "serving" /\ phase' # "serving" /\ UNCHANGED heart
      BY DEF CheckConfig, InitializeOracle, InitializeStorage, StepFails, WireAgentDb, Reject
    <2>2. Migrate \/ StartAgents \/ SetOracleAddress \/ CatchUp \/ StartHeartbeat
            => phase # "serving" /\ phase' # "serving" /\ UNCHANGED heart
      BY DEF Migrate, StartAgents, SetOracleAddress, CatchUp, StartHeartbeat
    <2>3. BrainEnds \/ RecreatePool \/ LoadSanitizer \/ SanitizerLoads \/ SanitizerFails
            => UNCHANGED <<phase, heart>>
      BY DEF BrainEnds, BrainInitialized, BrainFails, RecreatePool, LoadSanitizer,
             SanitizerLoads, SanitizerFails, boot
    <2>4. ASSUME NEW c \in Prompts, AskBrain(c)  PROVE UNCHANGED <<phase, heart>>
      BY <2>4 DEF AskBrain, boot
    <2>5. UNCHANGED vars => UNCHANGED <<phase, heart>>
      BY DEF vars, boot
    <2> QED
      BY <1>1, <1>2, <1>3, <1>4, <1>5, <2>1, <2>2, <2>3, <2>4, <2>5 DEF Next, Main, Beat

\* Every variable keeps its type: there is never a second initialization or a
\* second Brain client, never a third import of the sanitizer at a limit of
\* two, and never a beat beside a beat.
THEOREM StartTypeCorrect == Spec => []TypeOK
  <1>1. DbInv /\ BrainInv /\ LoaderInv /\ HeartInv => TypeOK
    <2> SUFFICES ASSUME DbInv, BrainInv, LoaderInv, HeartInv  PROVE TypeOK
      OBVIOUS
    <2>1. BootTypeOK
      BY DEF DbInv
    <2>2. promise \in {"none", "pending", "ready", "disabled", "rejected"}
          /\ inits \in 0..1 /\ built \in 0..1
      BY DEF BrainInv, BrainTypeOK, PromiseExact
    <2>3. caller \in [Callers -> [at : {"idle", "waiting", "told"}, got : 0..1, failed : BOOLEAN]]
      BY DEF BrainInv, BrainTypeOK, NullExplained
    <2> QED BY <2>1, <2>2, <2>3 DEF TypeOK, BootTypeOK, LoaderInv, HeartInv
  <1> QED
    BY <1>1, DbInit, DbStep, BrainInit, BrainStep, LoaderInit, LoaderStep, HeartInit, HeartStep,
       PTL DEF Spec

\* The Brain is built once however many ask for it at once, and a failure is
\* only ever told to those who waited for the initialization that failed.
THEOREM StartsAreShared == Spec => []StartedOnceForAll
  <1>1. BrainInv /\ LoaderInv => StartedOnceForAll
    BY DEF BrainInv, BrainTypeOK, PromiseExact, NullExplained, LoaderInv, StartedOnceForAll
  <1> QED BY <1>1, BrainInit, BrainStep, LoaderInit, LoaderStep, PTL DEF Spec

===============================================================================
