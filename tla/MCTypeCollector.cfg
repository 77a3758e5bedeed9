\* The walk over every small program of MCTypeCollector, Collect called twice.
\* The caller may stop calling Collect, so a run may end.
SPECIFICATION FairSpec
CHECK_DEADLOCK FALSE
CONSTANTS
  A = A
  B = B
  C = C
  m = m
  x = x
  y = y
  Unset = Unset
  Types = {A, B, C}
  Names = {m}
  Attributes = {x, y}
  Throwing = {y}
  Assemblies <- MCAssemblies
  MaxCollects = 2
INVARIANTS
  TypeOK
  CollectedOnce
  CollectedIsReachable
  ThrowsHaveCause
  NoDanglingMember
  RepeatedCollectAgrees
  ResultsStablySorted
PROPERTIES
  ImplementsTypeClosure
  CollectEnds
