------------------------ MODULE SourceSelectionProofs ------------------------
(***************************************************************************)
(* For any folders, files, builds and clicks: after every click the        *)
(* application shows what belongs to its sources or an error was reported, *)
(* and no registry is of a part of a folder.                               *)
(***************************************************************************)
EXTENDS SourceSelection, TLAPS

-----------------------------------------------------------------------------
(* Types.                                                                  *)

\* While a handler analyses, the application has an assembly source.
HasSource == pc # "idle" => AssemblySource # None
ITypes == TypeOK /\ HasSource

\* The initial states are well typed.
LEMMA TypeInit == Init => ITypes
<1> SUFFICES ASSUME Init PROVE ITypes
  OBVIOUS
<1>1. PICK own \in Own :
        loaded = [n \in Names |->
                    IF own[n] = None THEN None ELSE [path |-> None, build |-> own[n]]]
  BY DEF Init
<1>2. own \in [Names -> Builds \cup {None}]
  BY OwnAssumption
<1>3. loaded \in Loaded
  BY <1>1, <1>2 DEF Loaded, Assemblies
<1> QED BY <1>3, FilesAssumption DEF Init, ITypes, HasSource, TypeOK, Now, NoAssemblies

\* Every step of a handler or of the disk keeps the types.
LEMMA TypeNext == ITypes /\ [Next]_vars => ITypes'
<1> SUFFICES ASSUME ITypes, [Next]_vars PROVE ITypes'
  OBVIOUS
<1> USE FilesAssumption, BuildsAssumption, NoneAssumption DEF ITypes, HasSource, TypeOK
<1> DEFINE Clicked == Click => before' \in [DataSource : Sources \cup {None},
                          AssemblySource : Folders \cup {None},
                          StadRegistry : Registries \cup {None}, loaded : Loaded]
                        /\ seen' \in [Paths -> SUBSET Builds]
                        /\ assemblies' \in [Paths -> Builds \cup {None}] /\ listed' \subseteq Paths
<1>0. Clicked
  BY DEF Click, Now, NoAssemblies
<1>1. ASSUME NEW p \in Paths, NEW build \in Builds \cup {None}, Build(p, build) PROVE ITypes'
  BY <1>1 DEF Build, Edit, app
<1>2. ASSUME NEW f \in Folders, Remove(f) PROVE ITypes'
  BY <1>2 DEF Remove, Edit, app
<1>3. ASSUME NEW f \in Folders, SelectDataSource(f) PROVE ITypes'
  <2>1. DataSource' \in Sources
    <3>1. manifests[f] \in (SUBSET DataSets) \ {{}}
      BY <1>3 DEF SelectDataSource
    <3>2. DataSource' = [root |-> f, dataSets |-> manifests[f]]
      BY <1>3 DEF SelectDataSource
    <3> HIDE DEF ITypes
    <3> QED BY <3>1, <3>2 DEF Sources
  <2> QED BY <1>3, <1>0, <2>1 DEF SelectDataSource, disk
<1>4. ASSUME NEW f \in Folders, DataSourceFails(f) PROVE ITypes'
  BY <1>4, <1>0 DEF DataSourceFails, disk, app
<1>5. ASSUME NEW f \in Folders, SelectAssemblySource(f) PROVE ITypes'
  BY <1>5, <1>0 DEF SelectAssemblySource, disk
<1>6. CASE Cancel
  BY <1>6, <1>0 DEF Cancel, disk, app
<1>7. CASE GetAssemblyTargetFiles
  BY <1>7 DEF GetAssemblyTargetFiles, disk, app, FilesIn
<1>8. CASE EnumerationThrows
  BY <1>8 DEF EnumerationThrows, Catch, disk, app, history
<1>9. ASSUME NEW p \in Paths, LoadAssembly(p) PROVE ITypes'
  <2>1. LoadFrom(p) \in Assemblies
    BY <1>9 DEF Assemblies, LoadAssembly, CanLoad, LoadFrom, Loaded
  <2>2. LoadFrom(p).build \in Builds
    BY <2>1 DEF Assemblies
  <2>3. loaded' \in Loaded
    BY <1>9, <2>1 DEF LoadAssembly, Loaded
  <2> QED BY <1>9, <2>2, <2>3 DEF LoadAssembly, disk, app, history
<1>10. ASSUME NEW p \in Paths, LoadThrows(p) PROVE ITypes'
  BY <1>10 DEF LoadThrows, Catch, disk, app, history
<1>11. CASE SetStadRegistry
  <2>1. StadRegistry' \in Registries
    BY <1>11 DEF SetStadRegistry, Registries
  <2> QED BY <1>11, <2>1 DEF SetStadRegistry, disk, history
<1>12. CASE AnalysisThrows
  BY <1>12 DEF AnalysisThrows, Catch, disk, app, history
<1>13. CASE UNCHANGED vars
  BY <1>13 DEF vars, disk, app, history
<1> QED
  BY <1>1, <1>2, <1>3, <1>4, <1>5, <1>6, <1>7, <1>8, <1>9, <1>10, <1>11, <1>12, <1>13 DEF Next

\* However clicks and the disk change, everything has its type, and the data
\* source that is set has data sets.
THEOREM TypeCorrect == Spec => []TypeOK
<1>1. ITypes => TypeOK
  BY DEF ITypes
<1> QED BY TypeInit, TypeNext, <1>1, PTL DEF Spec

-----------------------------------------------------------------------------
(* What a failing click leaves.                                            *)

\* While a handler analyses, only the assembly source has been changed.
Untouched ==
  pc # "idle" => DataSource = before.DataSource /\ StadRegistry = before.StadRegistry

AppliedInv == ITypes /\ Untouched /\ AppliedOrReported

\* Initially no click has changed anything.
LEMMA AppliedInit == Init => AppliedInv
BY TypeInit DEF Init, AppliedInv, Untouched, AppliedOrReported, Now

\* Each way a handler ends leaves the application as AppliedOrReported says.
LEMMA AppliedNext == AppliedInv /\ [Next]_vars => AppliedInv'
<1> SUFFICES ASSUME AppliedInv, [Next]_vars PROVE Untouched' /\ AppliedOrReported'
  BY TypeNext DEF AppliedInv
<1> USE DEF AppliedInv, ITypes, HasSource, Untouched, AppliedOrReported
<1>1. ASSUME NEW p \in Paths, NEW build \in Builds \cup {None}, Build(p, build)
      PROVE Untouched' /\ AppliedOrReported'
  BY <1>1 DEF Build, Edit, app
<1>2. ASSUME NEW f \in Folders, Remove(f) PROVE Untouched' /\ AppliedOrReported'
  BY <1>2 DEF Remove, Edit, app
<1>3. ASSUME NEW f \in Folders, SelectDataSource(f) PROVE Untouched' /\ AppliedOrReported'
  BY <1>3 DEF SelectDataSource, Click
<1>4. ASSUME NEW f \in Folders, DataSourceFails(f) PROVE Untouched' /\ AppliedOrReported'
  BY <1>4 DEF DataSourceFails, Click, Now, app
<1>5. ASSUME NEW f \in Folders, SelectAssemblySource(f)
      PROVE Untouched' /\ AppliedOrReported'
  BY <1>5 DEF SelectAssemblySource, Click, Now
<1>6. CASE Cancel
  BY <1>6 DEF Cancel, Click, Now, app
<1>7. CASE GetAssemblyTargetFiles
  BY <1>7 DEF GetAssemblyTargetFiles, app
<1>8. CASE EnumerationThrows
  BY <1>8 DEF EnumerationThrows, Catch, app, history
<1>9. ASSUME NEW p \in Paths, LoadAssembly(p) PROVE Untouched' /\ AppliedOrReported'
  BY <1>9 DEF LoadAssembly, app, history
<1>10. ASSUME NEW p \in Paths, LoadThrows(p) PROVE Untouched' /\ AppliedOrReported'
  BY <1>10 DEF LoadThrows, Catch, app, history
<1>11. CASE SetStadRegistry
  <2>1. StadRegistry' = [folder |-> AssemblySource, assemblies |-> assemblies]
    BY <1>11 DEF SetStadRegistry
  <2>2. StadRegistry'.folder = AssemblySource'
    BY <1>11, <2>1 DEF SetStadRegistry
  <2>3. StadRegistry' # None
    <3>1. StadRegistry' \in Registries
      BY <2>1, <1>11 DEF SetStadRegistry, Registries, TypeOK
    <3> QED BY <3>1, NoneAssumption
  <2> QED BY <1>11, <2>2, <2>3 DEF SetStadRegistry
<1>12. CASE AnalysisThrows
  BY <1>12 DEF AnalysisThrows, Catch, app, history
<1>13. CASE UNCHANGED vars
  BY <1>13 DEF vars, app, history
<1> QED
  BY <1>1, <1>2, <1>3, <1>4, <1>5, <1>6, <1>7, <1>8, <1>9, <1>10, <1>11, <1>12, <1>13 DEF Next

\* After every click, however it fails: AppliedOrReported.
THEOREM Reported == Spec => []AppliedOrReported
<1>1. AppliedInv => AppliedOrReported
  BY DEF AppliedInv
<1> QED BY AppliedInit, AppliedNext, <1>1, PTL DEF Spec

-----------------------------------------------------------------------------
(* What a registry is made of.                                             *)

\* A build of p that the click may show: on disk since, or loaded before.
MayShow(p, build) ==
  \/ build \in seen[p]
  \/ before.loaded[NameOf[p]] # None /\ before.loaded[NameOf[p]].build = build

\* seen is what the disk has shown, loaded has grown only by what was seen.
SeenInv ==
  pc # "idle" =>
    /\ \A p \in Paths : onDisk[p] # None => onDisk[p] \in seen[p]
    /\ \A n \in Names : loaded[n] # None =>
         \/ loaded[n] = before.loaded[n]
         \/ loaded[n].path \in Paths /\ loaded[n].build \in seen[loaded[n].path]

\* The loop of MakeRegistry has gathered the files listed up to those in todo.
GatherInv ==
  /\ todo \subseteq listed
  /\ pc # "load" => todo = {}
  /\ pc = "enumerate" => listed = {}
  /\ pc # "idle" =>
       /\ {p \in Paths : assemblies[p] # None} = listed \ todo
       /\ \A p \in Paths : assemblies[p] # None => MayShow(p, assemblies[p])

CompleteInv == AppliedInv /\ SeenInv /\ GatherInv /\ RegistryComplete

\* Initially nothing is loaded and nothing is gathered.
LEMMA CompleteInit == Init => CompleteInv
BY AppliedInit DEF Init, CompleteInv, SeenInv, GatherInv, RegistryComplete, Now

\* The assembly LoadFrom answers may be shown for the path it was asked for.
LEMMA LoadFromMayShow ==
  ASSUME TypeOK, SeenInv, pc # "idle", NEW p \in Paths, CanLoad(p)
  PROVE  MayShow(p, LoadFrom(p).build) /\ LoadFrom(p).build # None
<1> DEFINE known == loaded[NameOf[p]]
<1>1. onDisk[p] \in seen[p] /\ NameOf[p] \in Names /\ onDisk[p] # None
  BY FilesAssumption DEF SeenInv, CanLoad
<1>2. CASE known = None
  BY <1>1, <1>2 DEF MayShow, LoadFrom
<1>3. CASE known # None
  <2>1. LoadFrom(p) = known /\ known \in Assemblies
    BY <1>1, <1>3 DEF LoadFrom, TypeOK, Loaded
  <2>2. known.build # None
    BY <2>1, NoneAssumption DEF Assemblies
  <2>3. CASE known.path # p
    BY <1>1, <1>3, <2>1, <2>2, <2>3 DEF CanLoad, MayShow
  <2>4. CASE known.path = p
    <3>1. known = before.loaded[NameOf[p]] \/ known.build \in seen[p]
      BY <1>1, <1>3, <2>4 DEF SeenInv
    <3> QED BY <1>3, <2>1, <2>2, <3>1 DEF MayShow
  <2> QED BY <2>3, <2>4
<1> QED BY <1>2, <1>3

\* One more file is loaded.
LEMMA LoadGathers ==
  ASSUME CompleteInv, NEW p \in Paths, LoadAssembly(p)
  PROVE  SeenInv' /\ GatherInv' /\ RegistryComplete'
<1> DEFINE new == LoadFrom(p)
<1>0. /\ TypeOK /\ SeenInv /\ GatherInv /\ pc = "load" /\ p \in todo /\ CanLoad(p)
      /\ todo' = todo \ {p} /\ UNCHANGED <<onDisk, pc, before, listed, seen>>
      /\ loaded' = [loaded EXCEPT ![NameOf[p]] = new]
      /\ assemblies' = [assemblies EXCEPT ![p] = new.build]
  BY DEF LoadAssembly, CompleteInv, AppliedInv, ITypes, disk, history
<1>1. MayShow(p, new.build) /\ new.build # None
  BY <1>0, LoadFromMayShow
<1>2. \A q \in Paths : assemblies'[q] = IF q = p THEN new.build ELSE assemblies[q]
  BY <1>0 DEF TypeOK
<1>3. SeenInv'
  <2> SUFFICES ASSUME NEW n \in Names, loaded'[n] # None
               PROVE \/ loaded'[n] = before.loaded[n]
                     \/ /\ loaded'[n].path \in Paths
                        /\ loaded'[n].build \in seen[loaded'[n].path]
    BY <1>0 DEF SeenInv
  <2>1. CASE n = NameOf[p] /\ loaded[n] = None
    <3>1. loaded'[n] = [path |-> p, build |-> onDisk[p]]
      BY <1>0, <2>1 DEF LoadFrom, TypeOK, Loaded
    <3>2. onDisk[p] \in seen[p]
      BY <1>0 DEF SeenInv, CanLoad
    <3> QED BY <3>1, <3>2
  <2>2. CASE n # NameOf[p] \/ loaded[n] # None
    <3>1. loaded'[n] = loaded[n]
      BY <1>0, <2>2 DEF LoadFrom, TypeOK, Loaded
    <3> QED BY <1>0, <3>1 DEF SeenInv
  <2> QED BY <2>1, <2>2
<1>4. GatherInv'
  <2>1. {q \in Paths : assemblies'[q] # None} = {q \in Paths : assemblies[q] # None} \cup {p}
    BY <1>1, <1>2
  <2>2. todo \subseteq listed /\ {q \in Paths : assemblies[q] # None} = listed \ todo
    BY <1>0 DEF GatherInv
  <2>3. {q \in Paths : assemblies'[q] # None} = listed \ todo' /\ todo' \subseteq listed
    BY <1>0, <2>1, <2>2
  <2>4. \A q \in Paths : assemblies'[q] # None => MayShow(q, assemblies'[q])
    BY <1>0, <1>1, <1>2 DEF GatherInv
  <2> QED BY <1>0, <2>1, <2>3, <2>4 DEF GatherInv, MayShow
<1>5. RegistryComplete'
  BY <1>0 DEF RegistryComplete
<1> QED BY <1>3, <1>4, <1>5

\* A click that ends at once, or starts an analysis, starts from nothing seen.
LEMMA ClickGathers ==
  ASSUME CompleteInv, Click, UNCHANGED <<onDisk, loaded, todo, StadRegistry>>,
         pc' \in {"idle", "enumerate"}
  PROVE  SeenInv' /\ GatherInv' /\ RegistryComplete'
<1>1. before'.loaded = loaded' /\ before'.StadRegistry = StadRegistry'
  BY DEF Click, Now
<1>2. SeenInv'
  BY <1>1 DEF SeenInv, Click
<1>3. \A p \in Paths : assemblies'[p] = None
  BY DEF Click, NoAssemblies
<1>4. GatherInv'
  BY <1>3 DEF CompleteInv, GatherInv, Click
<1>5. RegistryComplete'
  BY <1>1 DEF RegistryComplete
<1> QED BY <1>2, <1>4, <1>5

\* An analysis that throws leaves the registry of before.
LEMMA CatchGathers ==
  ASSUME Catch PROVE SeenInv' /\ GatherInv' /\ RegistryComplete'
BY DEF Catch, SeenInv, GatherInv, RegistryComplete

\* Every step keeps what the registry is and will be made of.
LEMMA CompleteNext == CompleteInv /\ [Next]_vars => CompleteInv'
<1> SUFFICES ASSUME CompleteInv, [Next]_vars
             PROVE SeenInv' /\ GatherInv' /\ RegistryComplete'
  BY AppliedNext DEF CompleteInv
<1> DEFINE Kept == SeenInv' /\ GatherInv' /\ RegistryComplete'
<1>1. ASSUME NEW p \in Paths, NEW build \in Builds \cup {None}, Build(p, build) PROVE Kept
  <2>1. /\ UNCHANGED <<loaded, app, pc, todo, assemblies, outcome, before, listed>>
        /\ TypeOK /\ SeenInv /\ GatherInv /\ RegistryComplete
    BY <1>1 DEF Build, Edit, CompleteInv, AppliedInv, ITypes
  <2>2. /\ \A q \in Paths : seen[q] \subseteq seen'[q]
        /\ \A q \in Paths : onDisk'[q] = onDisk[q] \/ onDisk'[q] = None \/ onDisk'[q] \in seen'[q]
    BY <1>1 DEF Build, TypeOK, CompleteInv, AppliedInv, ITypes
  <2>4. SeenInv'
    BY <2>1, <2>2 DEF SeenInv
  <2>5. GatherInv'
    BY <2>1, <2>2 DEF GatherInv, MayShow
  <2>6. listed \subseteq Paths
    BY <2>1 DEF TypeOK
  <2>7. RegistryComplete'
    BY <2>1, <2>2, <2>6 DEF RegistryComplete, app
  <2> QED BY <2>4, <2>5, <2>7
<1>2. ASSUME NEW f \in Folders, Remove(f) PROVE Kept
  <2>1. /\ UNCHANGED <<loaded, app, pc, todo, assemblies, outcome, before, listed, seen>>
        /\ SeenInv /\ GatherInv /\ RegistryComplete
    BY <1>2 DEF Remove, Edit, CompleteInv
  <2>2. \A q \in Paths : onDisk'[q] = onDisk[q] \/ onDisk'[q] = None
    BY <1>2 DEF Remove
  <2>3. SeenInv'
    BY <2>1, <2>2 DEF SeenInv
  <2>4. GatherInv' /\ RegistryComplete'
    BY <2>1 DEF GatherInv, MayShow, RegistryComplete, app
  <2> QED BY <2>3, <2>4
<1>3. ASSUME NEW f \in Folders, SelectDataSource(f) PROVE Kept
  <2>1. Click /\ UNCHANGED <<onDisk, loaded, todo, StadRegistry>> /\ pc' = "idle"
    BY <1>3 DEF SelectDataSource, disk, Click
  <2> QED BY <2>1, ClickGathers
<1>4. ASSUME NEW f \in Folders, DataSourceFails(f) PROVE Kept
  <2>1. Click /\ UNCHANGED <<onDisk, loaded, todo, StadRegistry>> /\ pc' = "idle"
    BY <1>4 DEF DataSourceFails, disk, app, Click
  <2> QED BY <2>1, ClickGathers
<1>5. ASSUME NEW f \in Folders, SelectAssemblySource(f) PROVE Kept
  <2>1. Click /\ UNCHANGED <<onDisk, loaded, todo, StadRegistry>> /\ pc' = "enumerate"
    BY <1>5 DEF SelectAssemblySource, disk
  <2> QED BY <2>1, ClickGathers
<1>6. CASE Cancel
  <2>1. Click /\ UNCHANGED <<onDisk, loaded, todo, StadRegistry>> /\ pc' = "idle"
    BY <1>6 DEF Cancel, disk, app, Click
  <2> QED BY <2>1, ClickGathers
<1>7. CASE GetAssemblyTargetFiles
  BY <1>7 DEF GetAssemblyTargetFiles, CompleteInv, SeenInv, GatherInv, MayShow, RegistryComplete, disk
<1>8. CASE EnumerationThrows
  BY <1>8, CatchGathers DEF EnumerationThrows
<1>9. ASSUME NEW p \in Paths, LoadAssembly(p) PROVE Kept
  BY <1>9, LoadGathers
<1>10. ASSUME NEW p \in Paths, LoadThrows(p) PROVE Kept
  BY <1>10, CatchGathers DEF LoadThrows
<1>11. CASE SetStadRegistry
  <2>1. StadRegistry' = [folder |-> AssemblySource, assemblies |-> assemblies]
    BY <1>11 DEF SetStadRegistry
  <2>2. /\ pc = "load" /\ pc' = "idle" /\ todo = {} /\ todo' = {}
        /\ UNCHANGED <<assemblies, before, listed, seen>> /\ GatherInv /\ TypeOK
    BY <1>11 DEF SetStadRegistry, history, CompleteInv, AppliedInv, ITypes
  <2>3. /\ {p \in Paths : assemblies[p] # None} = listed
        /\ \A p \in listed : p \in Paths /\ assemblies[p] # None /\ MayShow(p, assemblies[p])
    BY <2>2 DEF GatherInv, TypeOK
  <2>4. StadRegistry'.assemblies = assemblies
    BY <2>1
  <2>5. RegistryComplete'
    BY <2>2, <2>3, <2>4 DEF RegistryComplete, MayShow
  <2> QED BY <2>2, <2>5 DEF SeenInv, GatherInv
<1>12. CASE AnalysisThrows
  BY <1>12, CatchGathers DEF AnalysisThrows
<1>13. CASE UNCHANGED vars
  BY <1>13 DEF CompleteInv, SeenInv, GatherInv, MayShow, RegistryComplete, vars, disk, app, history
<1> QED
  BY <1>1, <1>2, <1>3, <1>4, <1>5, <1>6, <1>7, <1>8, <1>9, <1>10, <1>11, <1>12, <1>13 DEF Next

\* Whatever fails and whatever was loaded before: RegistryComplete.
THEOREM Complete == Spec => []RegistryComplete
<1>1. CompleteInv => RegistryComplete
  BY DEF CompleteInv
<1> QED BY CompleteInit, CompleteNext, <1>1, PTL DEF Spec
=============================================================================
