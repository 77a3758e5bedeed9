\* What the annotations of Stad.Annotation are declared for.
SPECIFICATION Spec
CHECK_DEADLOCK FALSE
CONSTANTS
  Unset = Unset
  Results <- MCResults
  KeyValueCollections <- MCKeyValueCollections
  MaxDepth = 6
INVARIANT
  StadAnnotationsHandled
