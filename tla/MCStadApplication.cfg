\* Threads may call setters for ever, but each object is set once (MaxSets).
SPECIFICATION FairSpec
CONSTANTS
  v1 = v1
  v2 = v2
  v3 = v3
  Threads = {ui, t1}
  UI = ui
  Views = {v1, v2, v3}
  Listens <- MCListens
  MaxSets <- MCMaxSets
INVARIANTS
  TypeOK
  HandlersSerialized
  ViewsConverge
PROPERTIES
  ReturnMeansShown
  SettersEnd
