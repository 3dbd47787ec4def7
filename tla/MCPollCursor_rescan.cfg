\* Every drop of the head is polled: nothing is missed, and what is mined again
\* is processed again.
SPECIFICATION FairSpec

CONSTANTS
  Events = {e1, e2}
  MaxBlock = 4
  MaxReverts = 2
  BatchSize = 2
  DropsAreSeen = TRUE

INVARIANTS
  TypeOK
  


  
