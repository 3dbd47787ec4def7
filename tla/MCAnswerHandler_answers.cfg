\* A prompt and two updates in two batches; two failing calls and a crash.
SPECIFICATION Spec

CONSTANTS
  Prompts = {1}
  Regenerations = {}
  Branches = {}
  Updates = {2, 3}
  Malformed = {}
  PerBatch = 2
  Tasks = {t1, t2}
  NoTask = NoTask
  MAX_RETRIES = 2
  MaxFaults = 2
  MaxCrashes = 1

\* Every request ends.
CHECK_DEADLOCK FALSE

SYMMETRY Symmetry

INVARIANTS
  TypeOK
  SentOnce
  
  
  NoWorkForFinalized
  BatchesLandInOrder
