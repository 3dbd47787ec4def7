\* One event that keeps failing and one that fails for good, starts that fail,
\* and a crash.
SPECIFICATION FairSpec

CONSTANTS
  NumEvents = 3
  MaxBlock = 3
  Flaky = {2}
  Broken = {3}
  Runs = {r1}
  Concurrency = 2
  BatchSize = 2
  Lookback = 3
  MAX_RETRIES = 2
  StartMayFail = TRUE
  MaxCrashes = 1

\* The chain ends at MaxBlock, and polling then has nothing to do.
CHECK_DEADLOCK FALSE

INVARIANTS
  TypeOK
  
  CheckpointWithinBatch


  
