\* Any number of clicks on two folders, while a file is built or a folder removed.
SPECIFICATION Spec
CONSTANTS
  f1 = f1
  f2 = f2
  p1 = p1
  p2 = p2
  p3 = p3
  n1 = n1
  n2 = n2
  good = good
  Folders = {f1, f2}
  Paths = {p1, p2, p3}
  FolderOf <- MCFolderOf
  Names = {n1, n2}
  NameOf <- MCNameOf
  Builds = {good, other, bad, native}
  NativeBuilds = {native}
  BadBuilds = {bad}
  Own <- MCOwn
  DataSets = {d}
  None = None
  MaxEdits = 1
INVARIANTS
  TypeOK
  AppliedOrReported
  RegistryComplete
