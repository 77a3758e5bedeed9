\* The walk over every small compilation, Collect called again and again.
\* The caller may stop calling Collect.
SPECIFICATION Spec
CHECK_DEADLOCK FALSE
CONSTANTS
  A = A
  B = B
  C = C
  D = D
  m = m
  None = None
  Types = {A, B, C, D}
  Names = {m}
  Compilations <- MCCompilations
INVARIANTS
  TypeOK
  DescribedOnce
  MissingOnlyIfDropped
  ThrowsHaveCause
PROPERTIES
  ImplementsTypeClosure
