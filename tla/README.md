# Stad in TLA+

Stad is a standalone editor for game data: it analyzes the assemblies of a
project into a registry of data sets (`Stad.Analysis`), loads the data
(`Stad`, `Stad.Core`), keeps what is open and tells views about it
(`Stad.Service`), and shows it (`Stad.View.Wpf`, `Stad.View.Console`,
`Stad.macOS`). These modules model the parts that carry its logic, TLC checks
them on small instances, and TLAPS proves what matters most for all instances.

## Inventory

| Part | State | Operations | What makes it correct | Modules |
|---|---|---|---|---|
| Type collector, `TypeCollectorForAssembly.cs` | visited types, three lists of descriptions | `Collect`: a recursive walk through reflection, which runs the code of attributes | exactly the reachable types, each once; nothing left dangling; repeatable; an exception only for what cannot be described | `TypeCollectorForAssembly`, `TypeClosure`, `OrderBy` |
| Compilation collector, `TypeCollectorForCompilation.cs` | the same, over Roslyn symbols | the same, with filters for what is not public | the same, up to the types it drops | `TypeCollectorForCompilation` |
| Analyzer, `StadAnalyzer.cs` | `AllModels`, the lists of the current data set | `MakeRegistry`: recursion over described types, then linking by name | complete and linked registry, or an exception with a cause; termination | `StadAnalyzer`, `RegistryFromAssemblies` |
| Service process, `ServerApplication.cs`, `StadServiceImpl.cs` | gRPC server, cancellation token, completion source | `Run` (start, self test, polling, kill), four handlers | a termination is carried out once asked for, and only then; every call ends | `ServerLifecycle` |
| Application state, `StadApplication.cs` and two `*Descripter` views | three static properties, handlers, a lock | setters, `RaiseEvent`, handlers that read and show | views show what was set last, whatever threads do | `StadApplication` |
| Source selection, `*Candidate.xaml.cs`, `LocalFile*Source.cs`, `MakeRegistry(IAssemblySource)` | the application's sources and registry, the assemblies of the process | two click handlers with all they call | source and registry belong together, or the user knows; a registry is of all files | `SourceSelection` |
| Data loading, `StadSerializer`, `FileSystemDataSet`, `StadJsonFormatter`, `ReflectionUtility`, `StadSettings` | files, a shared pool of buffers, a flag | `LoadDataAsync`, `GetItems`, `LoadAsync`, `Deserialize`, `Initialize` | what is loaded is what the file says; all items or an exception; buffers come back | `DataLoading` |
| `StadCache` | a dictionary | `Set`, `Get`, `Clear` | one value for a type (a second `Set` throws) | - |
| `PseudoCompilation.cs` | sets of sources and references | recursion over projects and packages | every project's sources | - |
| Registry over the wire, `CreateFrom` | none | conversion | keeps what was sent | - |
| `WindowManager`, `MainWindow` | list of windows | register, unregister, show | registered once, shown once | - |
| Console editor, macOS view | a registry, a connection | one command each | - | - |
| `Stad.Diff` | empty project | - | - | - |

Interactions: a click in a view calls a source's `Initialize`, then a setter of
`StadApplication`; for assemblies it calls `StadAnalyzer.MakeRegistry`, which
runs a collector and turns its result into a registry by name, and sets that.
`StadApplication` calls the views' handlers back under its lock. The gRPC
service runs in a process of its own; its two `Load` handlers are not
implemented yet, so nothing connects it to the rest, and nothing yet calls
`LoadDataAsync` for the data sets a source has found.

Hard to test: the order in which types are met (cycles, equal names, types with
no name, partial types); recursion without an end; a Terminate at any moment of
the start, the self test and the end; setters on several threads, views that
subscribe late, handlers that throw; folders that are built or deleted while they
are analysed, in a process that keeps every assembly it has loaded; buffers that
keep old bytes, files rewritten, cut short or held open during a load, one attribute
or file that throws in the midst of others, initialization that
is announced before it is done. `PROJECT.json` lists the hazards line by line.

## Modules

* `TypeClosure`: what a collector promises, in four steps: `Start`, `Discover`
  one more type, `Return` when nothing is left to discover, and `Fail`.
* `OrderBy`: the stable sort of LINQ that both collectors apply to their results.
* `TypeCollectorForAssembly`: the walk. `asm` is what reflection tells about a
  program; `alreadyCollected` and the three lists are the fields of the class.
  The recursion `CollectCore` -> `CollectGeneric`/`CollectObject` ->
  `GetObjectInfo` -> `CollectCore` is `stack`, one frame for each activation,
  with `next` the position in the loops over type arguments, properties and
  fields. `CollectTarget`, `CollectArgument`, `SkipMember`, `CollectMember` are
  turns of those loops, `FinishType` the end of an activation, `Collect` and
  `ReturnResult` call and return. `EnumThrows`, `MemberThrows` and `InfoThrows` are
  the exceptions that leave it: attributes are converted by reading each of their
  properties, which may throw (`Throwing`), and a member may be of a type that
  cannot be loaded (`missing`). A property's attributes are converted before it is
  known whether it is listed. `ImplementsTypeClosure` instantiates
  `TypeClosure` with the visited types.
* `TypeCollectorForCompilation`: the same walk over symbols. A type is marked
  before it is judged: `IsDescribed` gathers the tests that drop one
  (accessibility out to the outermost container, no name, declared by a library).
  It throws where an attribute has an array for an argument (`arrays`); the
  attributes it lists for a property are those of the property's type.
  Members come from a type and its bases. `ImplementsTypeClosure` instantiates
  the same abstract module, a dropped type leading nowhere.
* `StadAnalyzer`: `MakeRegistry(TypeCollectorResult)`. `at`, `member` and `stack`
  are its nested loops and the recursion of `MakeStadModel`; `AllModels`,
  `listModels`, `singleModels`, `dataSetModels` are the lists of the code.
  Throwing and the overflow of the stack are ends of their own.
* `RegistryFromAssemblies`: the second half of `MakeRegistry(IAssemblySource)`, which
  composes the two modules above: steps of the collector (`Collecting`), its end
  (`Collected` or `CollectThrows`), steps of the analysis (`Analyzing`). The collector hands over names
  (`ReadResult` is the part of its result that the analysis reads);
  the properties speak of the types of the program, and say what the registry of a
  program should be without either of the two.
* `ServerLifecycle`: `run` is where `ServerApplication.Run` is, split wherever a
  handler may come in between; each call of a client has a handler that is
  `SayHello`, `Load` or the two halves of `Terminate`.
* `StadApplication`: each thread goes through `Set` (assign), `Lock`, `Ignore` or
  `Read` and `Show` for every handler, `Unlock`; a thread other than `UI` fails
  where it would touch a view. `EndCall` is the end of a setter.
* `SourceSelection`: a click is `SelectDataSource`, `DataSourceFails`,
  `Cancel`, or `SelectAssemblySource` followed by `GetAssemblyTargetFiles`, one
  `LoadAssembly` for each file and `SetStadRegistry`; `EnumerationThrows`,
  `LoadThrows` and `AnalysisThrows` go to the handler's `Catch`. `Build` and
  `Remove` change the disk between any two of them. The assemblies the viewer
  itself runs on (`Own`) are loaded before the first click.
* `DataLoading`: `Initialize` and `RegisterAndSetAsDefault` are the two halves of
  `StadSettings.Initialize`; a load is `LoadItems`, and for each item
  `ReadContent`, `Rent` and `Deserialize`, or a failure. It ends early without a
  data set (`LoadNothing`), without a manifest, with one that cannot be read, or
  with one that has no items (`LoadNoItems`, for which the code hands out
  `default`). `Rewrite` edits a file at any time, `Hold` and `Release` are another
  process that has it open. A cell of a buffer remembers which byte of
  which version of which file was copied into it, so that a value says where
  every byte of it came from.
* `MCTypeCollector`, `MCTypeCollectorForCompilation`, `MCStadAnalyzer`,
  `MCRegistryFromAssemblies`, `MCStadApplication`, `MCSourceSelection`,
  `MCDataLoading`: small programs,
  results, views, folders and files for TLC. `ServerLifecycle` needs none.
* `...Proofs`: theorems about the module they are named after: `TypeCollectorProofs`
  about the collector for assemblies, `CompilationProofs` about that for
  compilations, `RegistryProofs` about `RegistryFromAssemblies`.

Operators named `Mutant...` are mistakes that a change of the definition after
them could make; each property is violated by one of them.

What is outside the repository is modelled from its use: reflection and Roslyn
hand out the members and arguments of types and run the code of attributes; the gRPC server accepts calls from
`Start` on, and `KillAsync` refuses new calls, cancels those in progress and ends
without waiting for their handlers; WPF throws when a thread touches what another
owns; `Assembly.LoadFrom` answers what it has loaded before for a path and refuses
another build of a loaded name; `ArrayPool` hands out arrays as they were left, of
a length rounded up; the parser of Utf8Json is given the whole array and stops
where the value does; files change whenever somebody writes them.

Data is abstracted. A name of a type is its rank in the order of names, 0 for
none; an attribute is the namespace and the name of its type, without its
arguments, and its conversion throws or does not; a source or registry is the number of its assignment, or the folder
and builds it was made of; a text is digits, or an object that opens and closes.

## Runs and bounds

| Run | Instance | States |
|---|---|---|
| `collector` | 8881 programs of three types (class, generic, class or enum), up to two members each, some with an attribute that throws or a type that is missing; two calls of `Collect` | 130k |
| `compilation` | compilations of four types: partial, generic, nested, derived, internal, of a library, unnamed or missing, with an array argument; members of every kind; any number of calls | 72k |
| `analyzer` | 4379 results with five types, two data sets, members that refer to one another in every way, attributes of every kind; recursion up to depth 6 | 38k |
| `registry` | 4462 programs of five types: a data set, a collection, two classes of which one may be an enum, a second data set or of an equal name, the open generic collection with members whose types have no name; attributes of every kind, one that throws | 75k |
| `server` | three calls of any kind | 17k |
| `events` | the UI thread and another, two views of the registry and one of the data source; the registry is set twice, each source once | 327k |
| `source_selection` | two folders, three files, an assembly in both folders, four kinds of build; the viewer runs on one of them or on none; any number of clicks, one change of the disk at any moment after any initial disk | 4.0M |
| `data_loading` | two threads, two items, two buffers of three bytes, members of six kinds; one file rewritten once or held open; also each kind of manifest, a file missing, an item without formatter | 301k |
| `annotations`, `ignored_member`, `terminate_reply`, `found_data_sets` | as above, one property each: what a comment, a declaration, a guard or the interface says and the code does not do | - |

Three types make self references, cycles of two and three, a type shared by two
others, one reached by a type argument alone, and equal names; a fourth is there
to be dropped for each reason in turn. A depth of 6 is more than the five types
of a result: without a recursive type no recursion is that deep. Three calls let
two clients terminate the server while a third is in any state. Two threads and
two views of one property are what it takes for one thread to assign between
another's assignment, read and show; two threads and two buffers let a load get
a buffer another thread, or its own item before, has written, and capacity 3
leaves room after the longest text. One name in two folders is what makes
`LoadFrom` answer an old build or refuse a new one; because clicks are not
bounded, the second folder can be chosen after the first in any state of the
disk, and any initial disk stands for what earlier edits did. The bounds
(`MaxSets`, `MaxCollects`, `MaxDepth`, `MaxEdits`, `MaxLoads`, `edits`) are in the
guards; the theorems hold without choosing them.

Collector: `CollectedOnce` (the gate lets each type in once, also in the middle
of the recursion), `CollectedIsReachable` and `ImplementsTypeClosure` (exactly the
reachable types), `NoDanglingMember` (every member's type is described in the
same result, which the analyzer's lookups rest on), `RepeatedCollectAgrees`
(`ResetWorkspace`), `ResultsStablySorted` (which of two equal names a lookup
finds), `ThrowsHaveCause` (a result exactly for the programs in which everything
reachable can be described), `CollectEnds`.

Compilation collector: `DescribedOnce` (a type marked is dropped for good, or
described once, or open once, although partial types are targets several times),
`MissingOnlyIfDropped` (a lookup by name can fail only for a dropped type),
`ThrowsHaveCause` (over described types alone), `ImplementsTypeClosure`.

Analyzer: `RecursionEndsUnlessRecursive` (there is no test for a model under
construction: a recursive type, and only such a type, overflows the stack),
`DescribedMembersLinked` and `FailuresHaveACause`.

Collector and analyzer together: `OutcomesHaveCauses` (no registry when something
reachable cannot be described, needed or not; else it throws for enum members of
data sets and unhandled attributes, recurses without end for recursive types, and
never because a lookup misses what the collector has), `RegistryOfProgram` (each
data set, in order, with a model for each member that is not ignored),
`ModelsLinked` (only enums have no model). A lookup by name finds the first of
several. So what the first says of causes, and the second of the models of members,
is about programs in which no other type has the name of a type the analysis looks
at: a data set, or the type of a member of one or of what it leads to
(`NamesDistinct`). Other names may repeat or be missing, as those of the types of
the open `StadKeyValueCollection` are in every folder with `Stad.dll`. The rest,
and all of `ModelsLinked`, is about every program.

Server: `KilledOnRequest`, `AnnouncedWhenOver`, `TokenMissingOnlyAtStart` (a
Terminate may fail on a null token only between `Start` and the assignment),
`TerminationCompletes`, `EveryCallEnds`.

Events: `HandlersSerialized`, `ViewsConverge`, `ReturnMeansShown` (a setter that
returns has refreshed the views that had subscribed before; one whose event could
not be shown throws), `SettersEnd`.

Source selection: `AppliedOrReported` (the source is set before the analysis
that may fail: registry and source differ only while the last message about that
source said so), `RegistryComplete` (every file found is in the registry, in a
build it has had since the click or one the process had loaded before).

Data loading: `BuffersComeBack`, `ValuesFromOwnFile` (pooled arrays keep old
bytes and the parser sees them, yet an object is its own file's text and only a
number or a truncated text can run on), `AllOrNothing` (an object with every item,
or an exception with a cause), and `RegisteredOrRegistering` (what the early return
of `Initialize` can cost).

Findings: no annotation of Stad is handled by `MakeAnnotationInfo`, because it
compares full names with names; `IgnoreMemberAttribute` on a member is not looked
at; a client never gets the reply of its `Terminate`; the data sets that
`LocalFileDataSource` finds are given a root path without a separator, under
which they do not find the manifest they were chosen for.

Read, not run: `CollectGeneric` says that it collects only closed generic types;
`GetTypes` answers generic type definitions too, and they are collected like any
other (programs that declare their generic type are among those of `collector`).

## Fairness

* Collector: a thread inside `Collect` runs on (weak fairness of its steps, of the
  exceptions too). Nobody has to call. The getters of attributes are taken to answer
  or to throw.
* Server: `Run` and each handler run on (weak fairness). Their threads may be
  blocked in `Thread.Sleep` loops, but the thread pool starts further workers
  while that is so; clients need not call, and a server nobody terminates waits.
  Should `KillAsync` wait for handlers, `Terminate` and `Run` would wait for each
  other; the model takes Grpc.Core as it is.
* Events: a thread inside a setter runs on (weak fairness), and one that blocks
  on the lock gets it (strong fairness of `Lock`): `Monitor` queues its waiters.
* Analyzer, data loading, source selection: safety only, no fairness. The recursion
  of the analyzer overflows or ends; a load never waits for another, as the pool has
  a buffer for every thread (`ArrayPool` allocates when it is empty); and a click
  has as many steps as files.

## Proofs

`TypeCollectorProofs`, from the assumption that programs are well formed
(`AssembliesAssumption`), for any set of types, members and attributes:

* `TypeCorrect`: the types of the state, by one step per action.
* `CollectsReachable` and `WalkImplementsClosure` rest on `WalkInv`.
  "Returns with the reachable types" is not inductive: in the middle of the
  recursion most types known have members not met yet. `WalkInv` says that
  everything known is in every closed set, that a frame has met what its loop has
  passed and could read it, that a type known either has all it uses known and can
  be described or has a frame open, and that the targets passed are known. With no
  frame and no target left, the types known are closed and hence the smallest
  closed set. The same facts map each step of the walk to `Discover`, `Return`,
  `Fail`, `Start` or a stutter.
* `ThrowsCaused` (`ThrowsHaveCause`): what an exception is over has been marked, so it
  is reachable; and at a return no frame is open, so all that is reachable could
  be described.
* `CollectsOnce`: what is described or open, list by list, is the set of types
  collected without repetition; each step moves one type from one to the next.
  The set grows by one type a step from the empty set, so it is finite although
  the program need not be.

And about the lists returned:

* `ResultsSorted`: the number of elements that precede an element is a place of
  the list; it grows along the stable order, so it is injective and, the list
  being finite, takes every place (`PositionsFill`). Hence `OrderByFullName` has
  the elements of the list, sorted and stable (`OrderFacts`).
* `MembersDescribed` (`NoDanglingMember`): `DescriptionInv` says, of frames and
  descriptions, that each member has the name of a type collected and each
  description the name of its own type. When the stack is empty every type
  collected is described (`Counted`), and the sort loses none.
* `RepeatedCollects` (`RepeatedCollectAgrees`) compares walks that lie apart in time.
  What a walk changes is a configuration, `Now`, and a step of it is a function,
  `Successor`, of the program and the configuration (`WalkIsFunction`). `Reached` is
  the least set that holds the empty workspace and is closed under the function, and
  it has one configuration that is done: every other leads there and nothing leads
  on from it (`OneOutcome`). `AgreeInv`: the walk under way is in `Reached`, and every
  result is what that one configuration is reported as.
* `ResultsReport`, for the composition below: a list that is returned has one
  description for each type collected of its kind, and a description one member for
  each accessible property or field (`ListingInv`, `ReportInv`).

`CompilationProofs`, for any compilation of finitely many types whose base types and
containers are acyclic (`TypesAssumption`, `CompilationsAssumption`). The compiler
refuses cyclic ones; a program with infinitely many instances of its generic types
has no such set of types, and no walk of it ends. A symbol without a name, or for a
type that is missing, counts as not public.

* `TypeCorrect`. The members of a type and its bases, and the targets, are recursive
  functions over the program. That there are such functions, with values of the
  type expected, is shown by ranks: a base has a lower rank than what derives from
  it, and the numbers are well founded (`AllMembersExist`, `SelectionExists`).
* `WalkImplementsClosure` by a `WalkInv` as above, except that a type that is known
  and dropped has nothing to be met.
* `DescribesOnce`: what is described or open is, without repetition, what is known and
  not dropped (`Counted`).
* `ThrowsCaused` (`ThrowsHaveCause`): a type called next is used by a described type or
  a target, so it is reachable (`CalledIsUsed`).
* `NothingForgotten` (`MissingOnlyIfDropped`): `DescriptionInv` gives each member the name
  of a known type, and a known type that is not dropped is described at the end.

`StadApplicationProofs`, for any threads, views, subscriptions and bounds, from
`IInv`: the types; `HandlersSerialized`; `CallInv` (a call's property still holds
its object or a later one, and so does what a handler has read, and on the UI
thread what is read is current unless another thread has set since); `ServedInv`
(a view the call owes a refresh shows one or its handler is still to come); and
`ViewsConverge`. `TypeCorrect`, `OneThreadInHandlers`, `ViewsCatchUp`,
`ReturnedMeansShown` follow.

`ServerLifecycleProofs`, for any set of calls: `TypeCorrect`, `OnlyOnRequest`,
`Announced` and `TokenMissing`, by `LifeInv`: the place of `Run` fixes whether there
is a server, a token and an announcement (`ProgressInv`); the server is killed only
with the token cancelled, and the token cancelled only by a Terminate that waits or
has returned (`RequestInv`); a call that has entered was accepted, and none is in
progress once the server is killed (`CallInv`). None of the parts holds alone.

`DataLoadingProofs`, for any threads, classes, manifests, files and texts of the
shape `TextsAssumption` gives them, and any number of loads, edits and files held open:

* `TypeCorrect` and `PoolKeepsBuffers` (`BuffersComeBack` is inductive with the
  types).
* `RegisteredOnce`: one thread is registering from the exchange of the flag to the
  assignment of the formatters.
* `OwnFile`: `ValuesFromOwnFile` says nothing of a load under way. `ReadInv` adds
  that a file keeps its name and its version grows, that the versions a load has
  noted lie below those of now, that the content read is of the item's own name
  and of a version since then, and that the buffer of a parsing call starts with
  the cells of its content. The parser then stops where the text does: at its
  closing byte, or, for digits, not before the end of the text.
* `Outcomes` (`AllOrNothing`), by `OutcomeInv`: while a load goes on the items
  passed have values and it has no outcome (`Passed`), and a file that does not
  fit its member or is held open, or what was read of one, is of a name that has once
  not fitted or been held (`MisfitInv`). A text that fits is parsed: a number ends in the buffer because
  the positions of its digits are finitely many (`NumberEnds`).

`SourceSelectionProofs`, for any folders, files and builds, and any clicks and
edits, and any assemblies loaded at the start: `TypeCorrect`; `Reported`, by `AppliedInv`, which follows a click from the
assignment of the source to its message or its registry; `Complete`, by `SeenInv`
and `GatherInv`, which say that every build loaded was on disk since the click or in
the process before it, and which files have been loaded and which are still to do.

`StadAnalyzerProofs`, for any collector results of the shape the collectors give
(`ResultsAssumption`) and a stack deeper than a result has types
(`MaxDepthAssumption`): `TypeCorrect`, `MembersLinked` (`DescribedMembersLinked`),
`HaveCauses` (`FailuresHaveACause`) and `RecursionEnds`
(`RecursionEndsUnlessRecursive`). The three speak of the end of loops; what holds
inside them is `AnalysisInv`:

* `FrameInv`: a frame is the description of a type that is reached, and what its
  loop has passed is defined and handled. `OpenedInv`: it was opened for the type
  of the member the frame below has come to. `PassedInv`: the described types of
  the members passed have models, the last one excepted while a frame is open
  for it.
* `ModelInv`: the members of a model's type have models that were made before, so
  the type leads only to types that are known not to be recursive and is not
  recursive itself. The same fact makes the types with models a closed set: at
  the end they are all the types that are reached, which is why a registry means
  that nothing was unhandled.
* `TakenInv` and `LoopInv`: what the two outer loops have passed, and that the
  outermost frame is for the member they have come to.

A frame on every one of `MaxDepth` places, and one more wanted, is a path along
members with more types than the result describes. Two of them are equal
(`LongPath`, by the pigeonhole principle), and a path that comes back starts at a
recursive type (`PathIsRecursive`).

What a data set files is an invariant of its own, `FilingInv`: each list holds one
model for each member passed that is to be in it, whatever the order, and the data
sets passed are in the registry in their order. Linking and later models keep both,
because `AllModels` only grows and no model changes its type.

`RegistryProofs`, for any programs (`ProgramsAssumption`), names and attributes
(`NamesAssumption`) and a stack deeper than the types are many (`DepthAssumption`):

* A registry being made is a behaviour of the collector (`Collects`), and what
  `TypeCollectorProofs` shows holds in it. `Handed`: until `Collect` returns the
  analysis has not begun, and afterwards it works on the result that was returned.
* `ResultDescribes`: that result describes the program (`ResultOfProgram`), each
  reachable class or generic type once and each of its accessible members once,
  sorted by name; and it is one of the results that `StadAnalyzerProofs` is about, since
  the types described are no more than the stack is deep. From there on the
  steps are those of the analysis, so its invariants hold (`AnalyzerInv`).
* Two types may share a full name, or have none, and the analysis looks types up by
  name. What has to be distinct for that are only the names it looks at (`LookedAt`,
  `NamesDistinct`): a nameless type that no data set leads to, like the properties of
  the open `StadKeyValueCollection<TValue>`, is no obstacle. Where they are distinct,
  each notion the analysis has of a result (described, mentioned, modelled, reached,
  recursive, unhandled) is the image, under `fullName`, of one of the program
  (`NamedFacts` to `RecursiveFacts`). This gives the causes in `Outcomes`
  (`OutcomesHaveCauses`) and the models of each data set in `Registries`.
* Whatever names repeat or are missing: a returned registry means that every type of
  the program can be described (`Outcomes`), has as many data sets as the program, with their names
  and in their order (`Registries`, by counting along the bijections of
  `ResultOfProgram` and `FilingInv`), and its models are linked to models of their own
  program (`Links`, from `LinksOfModel`).

Every safety property that the passing runs check is proved. Only model-checked: the
liveness properties, since fairness is out of the prover's reach.

## What is left

1. The composition of the compilation collector and the analyzer, when something
   calls `MakeRegistryFromSource`.
2. `Load` and the registry over the wire, when the service implements them.

## Not modelled

* Vendored and generated code: the pods of `Stad.macOS` (gRPC core, BoringSSL,
  SwiftNIO) are third party, and by far the most lines of the repository; Stad's
  own code is the C# below `Stad*`. `StadProtoModel.cs` and `gen/` are generated.
* `StadCache`: a dictionary behind three methods, documented as not thread safe,
  without a caller.
* `PseudoCompilation`: the recursion over project references is in
  `CreateFromProjectAsync`, which is private and has no caller; what is called adds
  the sources of a directory to a compilation, which is file access and Roslyn.
* `CreateFrom`: a conversion of messages nobody sends, as `Load` is not
  implemented.
* Windows: a list read and written by the UI thread alone.
* Model keys and `ToTypeCode`: string building and a hash nothing looks up yet.
* The branch of `TypeCollectorForCompilation` for a `TupleUnderlyingType` (150-154):
  with Roslyn 3.7, to which the project refers, a tuple is a generic type and has
  been collected as one before it.
* The console editor and the macOS view: layout, one command, a connection.
* `Stad.Sample`, the empty `Stad.Diff`, and tests without assertions.
