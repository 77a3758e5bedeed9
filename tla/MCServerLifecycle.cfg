\* Three calls: two may race to terminate the server while a third is in progress.
\* The process ends, and a server nobody terminates waits for ever.
SPECIFICATION FairSpec
CHECK_DEADLOCK FALSE
CONSTANTS
  Calls = {c1, c2, c3}
INVARIANTS
  TypeOK
  KilledOnRequest
  AnnouncedWhenOver
PROPERTIES
  TokenMissingOnlyAtStart
  TerminationCompletes
  EveryCallEnds
