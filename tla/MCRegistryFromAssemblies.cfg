\* From the assemblies to the registry, for every program of the module.
\* MakeRegistry ends, so a run does.
SPECIFICATION Spec
CHECK_DEADLOCK FALSE
CONSTANTS
  Game = Game
  Table = Table
  Hero = Hero
  Element = Element
  Open = Open
  m = "m"
  Unset = Unset
  Types = {Game, Table, Hero, Element, Open}
  Names = {"m"}
  Attributes <- MCAttributes
  Throwing <- MCThrowing
  Assemblies <- MCAssemblies
  KeyValueCollections <- MCKeyValueCollections
  MaxDepth = 5
INVARIANTS
  OutcomesHaveCauses
  RegistryOfProgram
  ModelsLinked
