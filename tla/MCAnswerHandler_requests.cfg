\* Two regenerations, one of them malformed, and a branch; a crash and a failing
\* call.
SPECIFICATION FairSpec

CONSTANTS
  Prompts = {}
  Regenerations = {1, 2}
  Branches = {3}
  Updates = {}
  Malformed = {2}
  PerBatch = 2
  Tasks = {t1, t2}
  NoTask = NoTask
  MAX_RETRIES = 2
  MaxFaults = 1
  MaxCrashes = 1

\* Every request ends.
CHECK_DEADLOCK FALSE

PROPERTIES
  EveryRequestEnds
