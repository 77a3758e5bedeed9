--------------------------- MODULE SourceSelection ---------------------------
(***************************************************************************)
(* Choosing the sources of Stad.View.Wpf: the click handlers of            *)
(* DataSourceCandidate and AssemblySourceCandidate, LocalFileDataSource,   *)
(* LocalFileAssemblySource and StadAnalyzer.MakeRegistry, with what they   *)
(* set in StadApplication (that module models the events).                 *)
(*                                                                         *)
(* The dialogs are modal and every task is completed when it is awaited,   *)
(* so one handler runs at a time, on the UI thread.  What interleaves with *)
(* it is the disk, where projects are built while folders are analysed,    *)
(* and what lasts from one click to the next: the assemblies the process   *)
(* has loaded, which it never unloads.                                     *)
(***************************************************************************)
EXTENDS Integers, FiniteSets

CONSTANTS
  Folders,       \* folders a user can choose
  Paths,         \* paths of dll files
  FolderOf,      \* FolderOf[p]: the folder p is in, at any depth
  Names,         \* names of assemblies
  NameOf,        \* NameOf[p]: the name of the assembly at p
  Builds,        \* the builds of an assembly
  NativeBuilds,  \* those that are no assemblies
  BadBuilds,     \* those whose analysis throws: a dependency or a member is missing
  Own,           \* what the viewer may itself run on: functions from names to builds
  DataSets,      \* directories of data sets
  None,
  MaxEdits       \* bound: changes of the disk

\* A registry shows assemblies of a folder; an Assembly was loaded from a path,
\* or is one of the viewer, from outside the folders.
Registries == [folder : Folders, assemblies : [Paths -> Builds \cup {None}]]
Assemblies == [path : Paths \cup {None}, build : Builds]

ASSUME FilesAssumption == FolderOf \in [Paths -> Folders] /\ NameOf \in [Paths -> Names]
ASSUME BuildsAssumption == NativeBuilds \subseteq Builds /\ BadBuilds \subseteq Builds
ASSUME OwnAssumption == Own \subseteq [Names -> (Builds \ NativeBuilds) \cup {None}]
ASSUME NoneAssumption == None \notin Folders \cup Paths \cup Builds \cup Registries \cup Assemblies
ASSUME MaxEditsAssumption == MaxEdits \in Nat

VARIABLES
  exists,        \* exists[f]: folder f is there
  onDisk,        \* onDisk[p]: the build at path p, or None
  manifests,     \* manifests[f]: the directories of f that have a manifest
  edits,         \* how often the disk has changed
  loaded,        \* loaded[n]: path and build of the assembly n of this process, or None
  DataSource, AssemblySource, StadRegistry,       \* StadApplication's, or None
  pc,            \* "idle", "enumerate", "load"
  todo,          \* files the loop of MakeRegistry has still to load
  assemblies,    \* assemblies[p]: the build MakeRegistry holds for path p, or None
  outcome,       \* how the last click ended: "cancelled", "applied", "reported"
  told,          \* the assembly source that a message has said cannot be analysed
  before,        \* history: what the application and the process had at the click
  listed,        \* history: the files GetAssemblyTargetFiles has answered
  seen           \* history: seen[p]: builds p has had since the click

disk == <<exists, onDisk, manifests, edits>>
app == <<DataSource, AssemblySource, StadRegistry>>
history == <<before, listed, seen>>
vars == <<disk, loaded, app, pc, todo, assemblies, outcome, told, history>>

NoAssemblies == [p \in Paths |-> None]
FilesIn(f) == {p \in Paths : FolderOf[p] = f /\ onDisk[p] # None}

Now == [DataSource |-> DataSource, AssemblySource |-> AssemblySource,
        StadRegistry |-> StadRegistry, loaded |-> loaded]

Init ==
  /\ exists = [f \in Folders |-> TRUE]
  /\ onDisk \in [Paths -> Builds \cup {None}]
  /\ manifests \in [Folders -> SUBSET DataSets]
  /\ edits = 0
  /\ \E own \in Own :
       loaded = [n \in Names |->
                   IF own[n] = None THEN None ELSE [path |-> None, build |-> own[n]]]
  /\ DataSource = None
  /\ AssemblySource = None
  /\ StadRegistry = None
  /\ pc = "idle"
  /\ todo = {}
  /\ assemblies = NoAssemblies
  /\ outcome = None
  /\ told = None
  /\ before = Now
  /\ listed = {}
  /\ seen = [p \in Paths |-> {}]

\* Builds change the folders at any time: external.
Edit ==
  /\ edits < MaxEdits
  /\ edits' = edits + 1
  /\ UNCHANGED <<loaded, app, pc, todo, assemblies, outcome, told, before, listed>>

Build(p, build) ==
  /\ Edit
  /\ exists[FolderOf[p]]
  /\ onDisk' = [onDisk EXCEPT ![p] = build]
  /\ seen' = [seen EXCEPT ![p] = @ \cup ({build} \ {None})]
  /\ UNCHANGED <<exists, manifests>>

Remove(f) ==
  /\ Edit
  /\ exists' = [exists EXCEPT ![f] = FALSE]
  /\ onDisk' = [p \in Paths |-> IF FolderOf[p] = f THEN None ELSE onDisk[p]]
  /\ manifests' = [manifests EXCEPT ![f] = {}]
  /\ UNCHANGED seen

\* A click on a candidate, up to what the handler does first.
Click ==
  /\ pc = "idle"
  /\ before' = Now
  /\ seen' = [p \in Paths |-> {onDisk[p]} \ {None}]
  /\ assemblies' = NoAssemblies
  /\ listed' = {}

\* The user leaves the dialog.
Cancel ==
  /\ Click
  /\ outcome' = "cancelled"
  /\ UNCHANGED <<disk, loaded, app, pc, todo, told>>

-----------------------------------------------------------------------------
(* DataSourceCandidate and LocalFileDataSource                             *)

\* Mutant: the answer of Initialize is not tested.
MutantSelectDataSource(f) ==
  /\ Click
  /\ exists[f]
  /\ DataSource' = [root |-> f, dataSets |-> manifests[f]]
  /\ outcome' = "applied"
  /\ UNCHANGED <<disk, loaded, AssemblySource, StadRegistry, pc, todo, told>>

\* Initialize keeps every directory that has a manifest; the source is set.
SelectDataSource(f) ==
  /\ Click
  /\ manifests[f] # {}
  /\ DataSource' = [root |-> f, dataSets |-> manifests[f]]
  /\ outcome' = "applied"
  /\ UNCHANGED <<disk, loaded, AssemblySource, StadRegistry, pc, todo, told>>

\* Initialize answers false, or the enumeration throws: a message is shown.
DataSourceFails(f) ==
  /\ Click
  /\ manifests[f] = {}
  /\ outcome' = "reported"
  /\ UNCHANGED <<disk, loaded, app, pc, todo, told>>

-----------------------------------------------------------------------------
(* AssemblySourceCandidate and MakeRegistry                                *)

\* Initialize answers true whatever the folder holds: the source is set.
SelectAssemblySource(f) ==
  /\ Click
  /\ AssemblySource' = f
  /\ told' = None
  /\ pc' = "enumerate"
  /\ UNCHANGED <<disk, loaded, DataSource, StadRegistry, todo, outcome>>

\* GetAssemblyTargetFiles: every dll below the folder.
GetAssemblyTargetFiles ==
  /\ pc = "enumerate"
  /\ exists[AssemblySource]
  /\ todo' = FilesIn(AssemblySource)
  /\ listed' = FilesIn(AssemblySource)
  /\ pc' = "load"
  /\ UNCHANGED <<disk, loaded, app, assemblies, outcome, told, before, seen>>

\* Mutant: the handler catches whatever is thrown and says nothing.
MutantCatch ==
  /\ pc' = "idle"
  /\ todo' = {}
  /\ outcome' = "applied"
  /\ UNCHANGED <<disk, app, told, history>>

\* The handler catches whatever is thrown and shows it.
Catch ==
  /\ pc' = "idle"
  /\ todo' = {}
  /\ outcome' = "reported"
  /\ told' = AssemblySource
  /\ UNCHANGED <<disk, app, history>>

EnumerationThrows ==
  /\ pc = "enumerate"
  /\ ~exists[AssemblySource]
  /\ Catch
  /\ UNCHANGED <<loaded, assemblies>>

\* Assembly.LoadFrom (external): a path loaded before answers what was loaded,
\* another path with an assembly of a loaded name must hold the same build.
CanLoad(p) ==
  LET known == loaded[NameOf[p]] IN
  /\ onDisk[p] # None /\ onDisk[p] \notin NativeBuilds
  /\ known # None => known.path = p \/ known.build = onDisk[p]

LoadFrom(p) ==
  LET known == loaded[NameOf[p]] IN
  IF known = None THEN [path |-> p, build |-> onDisk[p]] ELSE known

LoadAssembly(p) ==
  /\ pc = "load" /\ p \in todo
  /\ CanLoad(p)
  /\ todo' = todo \ {p}
  /\ loaded' = [loaded EXCEPT ![NameOf[p]] = LoadFrom(p)]
  /\ assemblies' = [assemblies EXCEPT ![p] = LoadFrom(p).build]
  /\ UNCHANGED <<disk, app, pc, outcome, told, history>>

\* Mutant: a file that cannot be loaded is left out.
MutantSkipFile(p) ==
  /\ pc = "load" /\ p \in todo
  /\ ~CanLoad(p)
  /\ todo' = todo \ {p}
  /\ UNCHANGED <<disk, loaded, app, pc, assemblies, outcome, told, history>>

LoadThrows(p) ==
  /\ pc = "load" /\ p \in todo
  /\ ~CanLoad(p)
  /\ Catch
  /\ UNCHANGED <<loaded, assemblies>>

\* The types are collected and the registry is made of them (StadAnalyzer), or
\* one of the assemblies makes that throw.
IsAnalyzable == \A p \in Paths : assemblies[p] \notin BadBuilds

\* The registry is made of the assemblies, and set.
SetStadRegistry ==
  /\ pc = "load" /\ todo = {}
  /\ IsAnalyzable
  /\ StadRegistry' = [folder |-> AssemblySource, assemblies |-> assemblies]
  /\ pc' = "idle"
  /\ outcome' = "applied"
  /\ UNCHANGED <<disk, loaded, DataSource, AssemblySource, todo, assemblies, told, history>>

AnalysisThrows ==
  /\ pc = "load" /\ todo = {}
  /\ ~IsAnalyzable
  /\ Catch
  /\ UNCHANGED <<loaded, assemblies>>

Next ==
  \/ \E p \in Paths, build \in Builds \cup {None} : Build(p, build)
  \/ \E f \in Folders :
       \/ Remove(f)
       \/ SelectDataSource(f) \/ DataSourceFails(f) \/ SelectAssemblySource(f)
  \/ Cancel
  \/ GetAssemblyTargetFiles \/ EnumerationThrows
  \/ \E p \in Paths : LoadAssembly(p) \/ LoadThrows(p)
  \/ SetStadRegistry \/ AnalysisThrows

Spec == Init /\ [][Next]_vars

-----------------------------------------------------------------------------
(* Properties.                                                             *)

Sources == [root : Folders, dataSets : (SUBSET DataSets) \ {{}}]
Loaded == [Names -> Assemblies \cup {None}]

\* Types; the data source of the application is available: it has data sets.
TypeOK ==
  /\ exists \in [Folders -> BOOLEAN]
  /\ onDisk \in [Paths -> Builds \cup {None}]
  /\ manifests \in [Folders -> SUBSET DataSets]
  /\ edits \in Nat
  /\ loaded \in Loaded
  /\ DataSource \in Sources \cup {None}
  /\ AssemblySource \in Folders \cup {None}
  /\ StadRegistry \in Registries \cup {None}
  /\ pc \in {"idle", "enumerate", "load"}
  /\ todo \subseteq Paths
  /\ assemblies \in [Paths -> Builds \cup {None}]
  /\ outcome \in {"cancelled", "applied", "reported", None}
  /\ told \in Folders \cup {None}
  /\ listed \subseteq Paths
  /\ before \in [DataSource : Sources \cup {None}, AssemblySource : Folders \cup {None},
                 StadRegistry : Registries \cup {None}, loaded : Loaded]
  /\ seen \in [Paths -> SUBSET Builds]

\* SetAssemblySource comes before the analysis, which fails in many ways: the
\* application is then left with a registry that is not of its source, if it has
\* one at all.  But whenever no handler runs, it is so only while the last thing
\* the user was told of that source is that it cannot be analysed; and a click
\* that reports an error or is cancelled keeps the data sets and the registry.
AppliedOrReported ==
  pc = "idle" =>
    /\ outcome \in {"reported", "cancelled"} =>
         DataSource = before.DataSource /\ StadRegistry = before.StadRegistry
    /\ outcome = "cancelled" => AssemblySource = before.AssemblySource
    /\ AssemblySource # None =>
         \/ told = AssemblySource
         \/ StadRegistry # None /\ StadRegistry.folder = AssemblySource

\* A registry is never that of a part of a folder, although any file can fail:
\* it has every file the folder was found to have.  And because assemblies are
\* not unloaded, what it shows of a file need not be the latest build, but is
\* one the file has had since the click or one that was loaded before.
RegistryComplete ==
  pc = "idle" /\ outcome = "applied" /\ StadRegistry # before.StadRegistry =>
    /\ {p \in Paths : StadRegistry.assemblies[p] # None} = listed
    /\ \A p \in listed :
         LET known == before.loaded[NameOf[p]] IN
         \/ StadRegistry.assemblies[p] \in seen[p]
         \/ known # None /\ known.build = StadRegistry.assemblies[p]
=============================================================================
