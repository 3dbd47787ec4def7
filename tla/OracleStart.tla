------------------------------ MODULE OracleStart ------------------------------
(***************************************************************************)
(* How the oracle process comes up and what it shares while it runs:       *)
(* index.js validates the configuration and calls start() of               *)
(* aiAgentOracle.js, which initializes storage, pins plugin-sql to the     *)
(* agent database (postgresBootstrap.js, agentSchemaMigrator.js), starts   *)
(* the agent, checks the oracle's address, catches up and starts the       *)
(* heartbeat (oracleHeartbeat.js).  From then on prompts start the Brain   *)
(* (brainContext.js) and the sanitizer (outboundSanitizer.js) on demand.   *)
(*                                                                         *)
(* Catching up and polling are one step each here (OracleEventLoop has     *)
(* them in full), and a database is its name.                              *)
(***************************************************************************)
EXTENDS Integers, FiniteSets

CONSTANTS
  Prompts,            \* what asks for the Brain beside the heartbeat: answers being recorded, actions
  Heartbeat,          \* startOracleHeartbeat, which asks for it once
  Networks,           \* of {"evm", "sapphire", "sapphire-localnet"}
  StorageModes,       \* of {"mock", "irys", "both"}
  MAX_LOAD_ATTEMPTS   \* imports of the sanitizer before it is given up

ASSUME StartAssumption ==
  /\ Heartbeat \notin Prompts
  /\ Networks \subseteq {"evm", "sapphire", "sapphire-localnet"}
  /\ StorageModes \subseteq {"mock", "irys", "both"}
  /\ MAX_LOAD_ATTEMPTS \in Nat \ {0}

Callers == Prompts \cup {Heartbeat}
Databases == {"agent", "cache"}
Credentials == {"irys", "autonomys"}

\* What the operator configures.  postgres: whether the connection and the
\* certificates are all given, and make a url; url: POSTGRES_URL as given.
Settings ==
  [named : BOOLEAN, postgres : {"absent", "good", "bad"}, url : Databases \cup {"none"},
   brain : BOOLEAN, network : Networks, keys : BOOLEAN, storage : StorageModes,
   credentials : SUBSET Credentials, interval : BOOLEAN]

VARIABLES
  settings,      \* the environment, fixed while the process lives
  phase,         \* how far start() is
  postgresUrl,   \* process.env.POSTGRES_URL
  pool,          \* the database plugin-sql's only connection manager is on
  tables,        \* the databases in which the agent's schema was created
  registered,    \* the contract's oracle() is this oracle's address
  promise,       \* initPromise of brainContext.js
  inits,         \* runs of doInit
  built,         \* Brain clients built, each with a pool of its own
  caller,        \* what each caller of getHandles has got
  sanitizer, loadAttempts, \* sanitizerPromise and loadAttempts of outboundSanitizer.js
  timer, beats   \* the heartbeat's timer is set; beats running

boot == <<settings, phase, postgresUrl, pool, tables, registered>>
brain == <<promise, inits, built, caller>>
loader == <<sanitizer, loadAttempts>>
heart == <<timer, beats>>
vars == <<boot, brain, loader, heart>>

Ended == {"exited", "failed"}
Phases == {"config", "requiring", "storage", "wiring", "migrating", "agents", "address",
           "catchup", "heartbeat", "arming", "serving"} \cup Ended

\* index.js and startupConfig.js: what must be there to start at all.
RequiredStorageCredentials ==
  CASE settings.storage = "mock" -> {}
    [] settings.storage = "irys" -> {"irys"}
    [] OTHER -> Credentials

ValidateConfig == settings.keys /\ RequiredStorageCredentials \subseteq settings.credentials

IsPostgresConfigured == settings.postgres # "absent"

\* brainContext.js isConfigured.
BrainConfigured == settings.brain /\ IsPostgresConfigured

Idle == [at |-> "idle", got |-> 0, failed |-> FALSE]

Init ==
  /\ settings \in Settings
  /\ phase = "config"
  /\ postgresUrl = settings.url
  /\ pool = "none"
  /\ tables = {}
  /\ registered \in BOOLEAN
  /\ promise = "none" /\ inits = 0 /\ built = 0
  /\ caller = [c \in Callers |-> Idle]
  /\ sanitizer = "none" /\ loadAttempts = 0
  /\ timer = FALSE /\ beats = 0

-----------------------------------------------------------------------------
(* index.js and start() *)

\* A configuration error ends the process with code 1.
CheckConfig ==
  /\ phase = "config"
  /\ phase' = IF ValidateConfig THEN "requiring" ELSE "exited"
  /\ UNCHANGED <<settings, postgresUrl, pool, tables, registered, brain, loader, heart>>

\* aiAgentOracle.js makes the wallet and the contract when it is required:
\* what throws there is an uncaught exception, which ends the process.
InitializeOracle ==
  /\ phase = "requiring"
  /\ phase' \in {"storage", "exited"}
  /\ UNCHANGED <<settings, postgresUrl, pool, tables, registered, brain, loader, heart>>

\* start() rejects.  Nothing awaits it: the handler of unhandled rejections
\* logs, and the process stays up without serving.
Reject ==
  /\ phase' = "failed"
  /\ UNCHANGED <<settings, postgresUrl, pool, tables, registered, brain, loader, heart>>

\* A provider cannot be reached, a wallet cannot be topped up, the agent
\* cannot be started, the RPC does not answer.
StepFails ==
  /\ \/ phase = "storage" /\ settings.storage # "mock"
     \/ phase \in {"migrating", "agents", "address", "catchup"}
  /\ Reject

InitializeStorage ==
  /\ phase = "storage"
  /\ phase' = "wiring"
  /\ UNCHANGED <<settings, postgresUrl, pool, tables, registered, brain, loader, heart>>

\* The agent database is meant to be Postgres: named, and connection given.
AgentDbIntended == settings.named /\ IsPostgresConfigured

\* bootstrapPostgresFromEnv makes the url of a database or throws, and stamps
\* POSTGRES_URL with it unless it is told not to.
Bootstrap(database, writeEnv) ==
  /\ settings.postgres = "good"
  /\ postgresUrl' = IF writeEnv THEN database ELSE postgresUrl

\* wireAgentDbForPluginSql: a configuration that is there and broken fails the
\* start; without one plugin-sql stays on PGLite, unless POSTGRES_URL was
\* given (the legacy path).
WireAgentDb ==
  /\ phase = "wiring"
  /\ \/ AgentDbIntended /\ settings.postgres = "bad" /\ Reject
     \/ /\ AgentDbIntended /\ Bootstrap("agent", TRUE)
        /\ phase' = "migrating"
        /\ UNCHANGED <<settings, pool, tables, registered, brain, loader, heart>>
     \/ /\ ~AgentDbIntended
        /\ phase' = IF postgresUrl = "none" THEN "agents" ELSE "migrating"
        /\ UNCHANGED <<settings, postgresUrl, pool, tables, registered, brain, loader, heart>>

\* What initializeEliza expects current_database() to be.
ExpectDatabase == IF AgentDbIntended THEN "agent" ELSE postgresUrl

\* runServerLevelMigrations: plugin-sql opens its manager on the url, or, as
\* a later version of it may, on another database; the schema is created only
\* in the database that was asked for.
Migrate ==
  /\ phase = "migrating"
  /\ pool' \in Databases
  /\ IF pool' = ExpectDatabase
     THEN tables' = tables \cup {pool'} /\ phase' = "agents"
     ELSE phase' = "failed" /\ UNCHANGED tables
  /\ UNCHANGED <<settings, postgresUrl, registered, brain, loader, heart>>

\* addAgents, setBrainAccessor and startAgents: the agent's own migrations run
\* on the manager that is there, or on a local PGLite.
StartAgents ==
  /\ phase = "agents"
  /\ pool' = IF pool = "none" THEN "pglite" ELSE pool
  /\ tables' = tables \cup {pool'}
  /\ phase' = "address"
  /\ UNCHANGED <<settings, postgresUrl, registered, brain, loader, heart>>

\* A manager that was closed is recreated from POSTGRES_URL as it is then.
RecreatePool ==
  /\ pool \in Databases
  /\ phase \notin Ended
  /\ pool' = postgresUrl
  /\ UNCHANGED <<settings, phase, postgresUrl, tables, registered, brain, loader, heart>>

\* appd answers with the hash of the transaction, not with its outcome.
SubmitTx == registered' \in BOOLEAN

\* setOracleAddress.  On an EVM chain a mismatch is fatal; on the Sapphire
\* networks the oracle registers itself, and only the local one waits for
\* the transaction.
SetOracleAddress ==
  /\ phase = "address"
  /\ \/ registered /\ phase' = "catchup" /\ UNCHANGED registered
     \/ ~registered /\ settings.network = "evm" /\ phase' = "failed" /\ UNCHANGED registered
     \/ /\ ~registered /\ settings.network = "sapphire-localnet"
        /\ phase' = "catchup" /\ registered' = TRUE
     \/ ~registered /\ settings.network = "sapphire" /\ phase' = "catchup" /\ SubmitTx
  /\ UNCHANGED <<settings, postgresUrl, pool, tables, brain, loader, heart>>

\* retryFailedJobs and processPastEvents.
CatchUp ==
  /\ phase = "catchup"
  /\ phase' = "heartbeat"
  /\ UNCHANGED <<settings, postgresUrl, pool, tables, registered, brain, loader, heart>>

-----------------------------------------------------------------------------
(* The Brain: one initialization, shared by all who ask while it runs *)

Told(c, handles) == [caller EXCEPT ![c] = [at |-> "told", got |-> handles, failed |-> FALSE]]
Awaits(c) == [caller EXCEPT ![c] = [at |-> "waiting", got |-> 0, failed |-> FALSE]]

\* Mutation of GetHandles: only a finished initialization is shared.
GetHandlesUnshared(c) ==
  /\ IF promise \in {"none", "pending"} /\ BrainConfigured
     THEN promise' = "pending" /\ inits' = inits + 1 /\ caller' = Awaits(c)
     ELSE caller' = Told(c, IF promise = "ready" THEN built ELSE 0) /\ UNCHANGED <<promise, inits>>
  /\ UNCHANGED built

\* getHandles, which answers null for a Brain that is disabled or failed.
\* got is the number of the client, 0 for null.
GetHandles(c) ==
  /\ \/ /\ promise = "none" /\ BrainConfigured
        /\ promise' = "pending" /\ inits' = inits + 1
        /\ caller' = Awaits(c)
     \/ /\ promise = "none" /\ ~BrainConfigured
        /\ promise' = "disabled" /\ caller' = Told(c, 0)
        /\ UNCHANGED inits
     \/ /\ promise = "pending"
        /\ caller' = Awaits(c)
        /\ UNCHANGED <<promise, inits>>
     \/ /\ promise = "ready"
        /\ caller' = Told(c, built)
        /\ UNCHANGED <<promise, inits>>
     \/ /\ promise \in {"disabled", "rejected"}
        /\ caller' = Told(c, 0)
        /\ UNCHANGED <<promise, inits>>
  /\ UNCHANGED built

\* A prompt: answerActivity.js and the BrainService of the plugin.
AskBrain(c) ==
  /\ phase \in {"catchup", "heartbeat", "arming", "serving"}
  /\ caller[c].at # "waiting"
  /\ GetHandles(c)
  /\ UNCHANGED <<boot, loader, heart>>

\* Every caller who waits for the initialization is told how it ended.
TellAll(handles, failed) ==
  caller' = [c \in Callers |->
    IF caller[c].at = "waiting" THEN [at |-> "told", got |-> handles, failed |-> failed]
    ELSE caller[c]]

\* Mutation of CreateDb: POSTGRES_URL is stamped for the cache as it is for
\* the agent.
CreateDbStamped == Bootstrap("cache", TRUE)

\* defaultCreateDb has a url of its own and leaves POSTGRES_URL alone.
CreateDb == Bootstrap("cache", FALSE)

BrainInitialized ==
  /\ inits > 0
  /\ CreateDb
  /\ promise' = "ready" /\ inits' = inits - 1 /\ built' = built + 1
  /\ TellAll(built', FALSE)
  /\ UNCHANGED <<settings, phase, pool, tables, registered, loader, heart>>

\* The import or the bootstrap throws: the next caller may retry.
BrainFails ==
  /\ inits > 0
  /\ promise' = "none" /\ inits' = inits - 1
  /\ TellAll(0, TRUE)
  /\ UNCHANGED <<built, boot, loader, heart>>

-----------------------------------------------------------------------------
(* The sanitizer: one import, retried once *)

LoadSanitizer ==
  /\ phase \in {"catchup", "heartbeat", "arming", "serving"}
  /\ sanitizer = "none"
  /\ sanitizer' = "loading" /\ loadAttempts' = loadAttempts + 1
  /\ UNCHANGED <<boot, brain, heart>>

\* The module is there; a renamed export is no failure, and nothing is sanitized.
SanitizerLoads ==
  /\ sanitizer = "loading"
  /\ sanitizer' \in {"ready", "no-export"}
  /\ UNCHANGED <<loadAttempts, boot, brain, heart>>

SanitizerFails ==
  /\ sanitizer = "loading"
  /\ sanitizer' = IF loadAttempts < MAX_LOAD_ATTEMPTS THEN "none" ELSE "given-up"
  /\ UNCHANGED <<loadAttempts, boot, brain, heart>>

-----------------------------------------------------------------------------
(* The heartbeat: a chain of timers *)

StartHeartbeat ==
  /\ phase = "heartbeat"
  /\ GetHandles(Heartbeat)
  /\ phase' = "arming"
  /\ UNCHANGED <<settings, postgresUrl, pool, tables, registered, loader, heart>>

\* start() awaits the handles, and without them, or with an interval that is
\* not positive, there is no heartbeat in this process; then it polls.
ArmHeartbeat ==
  /\ phase = "arming" /\ caller[Heartbeat].at = "told"
  /\ timer' = (caller[Heartbeat].got # 0 /\ settings.interval)
  /\ phase' = "serving"
  /\ UNCHANGED <<settings, postgresUrl, pool, tables, registered, brain, loader, beats>>

\* Mutation of TimerFires: setInterval, which fires whether or not the last
\* beat has ended.
TimerFiresAgain ==
  /\ timer
  /\ beats' = beats + 1
  /\ UNCHANGED <<timer, boot, brain, loader>>

TimerFires ==
  /\ timer
  /\ timer' = FALSE /\ beats' = beats + 1
  /\ UNCHANGED <<boot, brain, loader>>

\* Mutation of BeatEnds: the next beat is scheduled by a beat that succeeds.
BeatEndsChained(written) ==
  /\ beats > 0
  /\ beats' = beats - 1 /\ timer' = written
  /\ UNCHANGED <<boot, brain, loader>>

\* The vitals are collected and the row is written, or either fails: the next
\* timer is set all the same.
BeatEnds(written) ==
  /\ beats > 0
  /\ beats' = beats - 1 /\ timer' = TRUE
  /\ UNCHANGED <<boot, brain, loader>>

-----------------------------------------------------------------------------
Main ==
  \/ CheckConfig \/ InitializeOracle \/ InitializeStorage \/ StepFails \/ WireAgentDb \/ Migrate
  \/ StartAgents \/ SetOracleAddress \/ CatchUp \/ StartHeartbeat \/ ArmHeartbeat

BrainEnds == BrainInitialized \/ BrainFails

Beat == TimerFires \/ \E written \in BOOLEAN : BeatEnds(written)

Next ==
  \/ Main
  \/ BrainEnds
  \/ Beat
  \/ \E c \in Prompts : AskBrain(c)
  \/ LoadSanitizer \/ SanitizerLoads \/ SanitizerFails
  \/ RecreatePool

\* start() goes on to its next line, an initialization ends (its queries have
\* timeouts), a timer fires and a beat ends.  Nothing must ever be asked.
Fairness == WF_vars(Main) /\ WF_vars(BrainEnds) /\ WF_vars(Beat)

Spec == Init /\ [][Next]_vars /\ Fairness

-----------------------------------------------------------------------------
TypeOK ==
  /\ settings \in Settings /\ phase \in Phases
  /\ postgresUrl \in Databases \cup {"none"}
  /\ pool \in Databases \cup {"none", "pglite"}
  /\ tables \subseteq Databases \cup {"pglite"}
  /\ registered \in BOOLEAN
  /\ promise \in {"none", "pending", "ready", "disabled", "rejected"}
  /\ inits \in 0..1 /\ built \in 0..1
  /\ caller \in [Callers -> [at : {"idle", "waiting", "told"}, got : 0..1, failed : BOOLEAN]]
  /\ sanitizer \in {"none", "loading", "ready", "no-export", "given-up"}
  /\ loadAttempts \in 0..MAX_LOAD_ATTEMPTS
  /\ timer \in BOOLEAN /\ beats \in 0..1

\* An agent database that is configured is the only one the agent's schema is
\* created in and the agent runs on, whatever the Brain bootstraps for itself
\* and whenever plugin-sql opens its manager again; and a broken
\* configuration never leaves the agent on PGLite (wireAgentDbForPluginSql,
\* runServerLevelMigrations, defaultCreateDb).
AgentDbIsolated ==
  AgentDbIntended =>
    /\ tables \subseteq {"agent"}
    /\ pool \in {"none", "agent"} \/ phase = "failed"

\* What several prompts ask for at once is started once, and a start that
\* failed is not held against those who ask later (init of brainContext.js,
\* loadSanitizer of outboundSanitizer.js): one Brain client is built, a
\* caller gets null only if an initialization failed while it waited, and
\* the sanitizer is given up after the last attempt only.
StartedOnceForAll ==
  /\ built <= 1
  /\ \A c \in Callers :
       caller[c].at = "told" /\ caller[c].got = 0 /\ BrainConfigured => caller[c].failed
  /\ sanitizer = "given-up" => loadAttempts = MAX_LOAD_ATTEMPTS

\* A process ends its start, and one that serves beats again and again,
\* whatever a beat meets (oracleHeartbeat.js: the chain survives), unless the
\* Brain was not to be had when it was started or no interval is set.
ServesAndBeats ==
  \/ <>[](phase \in Ended /\ beats = 0)
  \/ <>[](phase = "serving" /\ (caller[Heartbeat].got = 0 \/ ~settings.interval))
  \/ <>[](phase = "serving") /\ []<>(beats > 0) /\ []<>(beats = 0)

=============================================================================
