\* Three requests in two conversations, on each kind of storage, with a failing
\* call and a restart.
SPECIFICATION Spec

CONSTANTS
  Conversations = {1}
  BranchTargets = {2}
  MaxRequests = 3
  Concurrency = 2
  Limit = 3
  Modes = {"ipfs", "irys", "autonomys"}
  MaxFaults = 1

\* The client stops asking.
CHECK_DEADLOCK FALSE

INVARIANTS
  TypeOK
  ThreadOnStorage
  HistoryAsSeen
  KeyFileOpens
  AnsweredMeansInitialized
