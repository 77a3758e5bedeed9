\* MakeRegistry over every result of MCStadAnalyzer; it ends, so the run may.
SPECIFICATION Spec
CHECK_DEADLOCK FALSE
CONSTANTS
  Unset = Unset
  Results <- MCResults
  KeyValueCollections <- MCKeyValueCollections
  MaxDepth = 6
INVARIANTS
  TypeOK
  RecursionEndsUnlessRecursive
  DescribedMembersLinked
  FailuresHaveACause
