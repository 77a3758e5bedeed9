\* Two threads load two items while the files are rewritten.
SPECIFICATION Spec
CHECK_DEADLOCK FALSE
CONSTANTS
  t1 = t1
  t2 = t2
  n1 = n1
  n2 = n2
  Names = {n1, n2}
  Threads = {t1, t2}
  Texts <- MCTexts
  Capacity = 3
  Buffers = {b1, b2}
  Worlds <- MCWorlds
  MaxLoads <- MCMaxLoads
INVARIANTS
  TypeOK
  BuffersComeBack
  ValuesFromOwnFile
  AllOrNothing
  RegisteredOrRegistering
