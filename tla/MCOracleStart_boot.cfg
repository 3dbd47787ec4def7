\* Every configuration of the process; two prompts and the heartbeat ask for
\* the Brain.
SPECIFICATION Spec

CONSTANTS
  Prompts = {p1, p2}
  Heartbeat = heartbeat
  Networks = {"evm", "sapphire", "sapphire-localnet"}
  StorageModes = {"mock", "irys", "both"}
  MAX_LOAD_ATTEMPTS = 2

\* A start may end without a process that serves.
CHECK_DEADLOCK FALSE

INVARIANTS
  TypeOK
  AgentDbIsolated
  StartedOnceForAll

PROPERTIES
  ServesAndBeats
