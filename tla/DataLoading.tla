----------------------------- MODULE DataLoading -----------------------------
(***************************************************************************)
(* Loading a data set: StadSerializer.LoadDataAsync over FileSystemDataSet,*)
(* with StadJsonFormatter and its pooled buffers, ReflectionUtility, the   *)
(* once-only StadSettings.Initialize.  Any thread may load; every task of  *)
(* this code is completed when it is awaited, so a load runs on the thread *)
(* that called it.                                                         *)
(*                                                                         *)
(* There is one directory.  The root path of a data set ends in a          *)
(* separator or not, and names are appended to it as they are: without a   *)
(* separator they name files of the parent directory, which has none of    *)
(* these names.  A text is its shape: a number is digits, an object opens  *)
(* and closes; one that never closes is a truncated file.                  *)
(***************************************************************************)
EXTENDS Integers, Sequences, FiniteSets

CONSTANTS
  Threads,
  Names,         \* names of members and items
  Texts,         \* what files may contain
  Capacity,      \* length of the buffers: ArrayPool rounds every size up to one
  Buffers,       \* the arrays the pool can hand out
  Worlds,        \* the directories and classes to choose from, each a World
  MaxLoads       \* MaxLoads[t], a bound: how often thread t loads

None == "none"

Bytes == {"digit", "open", "close"}
IsNumber(text) == \A i \in DOMAIN text : text[i] = "digit"
IsDelimited(text) == text[Len(text)] = "close"

\* A class has no such member, or one that is of a value type (int, a struct), an
\* object, a class, a StadKeyValueCollection or a class without a setter.
MemberKinds == {"missing", "value", "object", "class", "collection", "readonly"}
Encodings == {"Undefined", "MessagePack", "Json"}
DataSetItem == [name : Names, encoding : Encodings]

\* There is no manifest; it is held open by another process or is no JSON of a
\* manifest; it has no Items; it has some.
Manifests == {"missing", "unreadable", "noItems", "items"}

NoFile == [version |-> -1]
File == [name : Names, version : Nat, text : Texts]

\* The members of the class, the manifest in the directory, its data files and
\* (bounds) how often each of them is rewritten and which are held open.
World == [member : [Names -> MemberKinds], manifest : Manifests,
          items : Seq(DataSetItem), files : [Names -> File \cup {NoFile}],
          edits : [Names -> Nat], held : SUBSET Names]

ASSUME TextsAssumption ==
  Texts \subseteq {text \in Seq(Bytes) :
    /\ Len(text) \in 1..Capacity
    /\ \/ IsNumber(text)
       \/ text[1] = "open" /\ \A i \in DOMAIN text : text[i] = "close" => i = Len(text)}
ASSUME CapacityAssumption == Capacity \in Nat
ASSUME BuffersAssumption ==
  None \notin Threads /\ IsFiniteSet(Buffers) /\ IsFiniteSet(Threads) /\ Cardinality(Buffers) >= Cardinality(Threads)
ASSUME WorldsAssumption ==
  /\ Worlds \subseteq World
  /\ \A w \in Worlds, n \in Names : w.files[n] # NoFile => w.files[n].name = n
ASSUME MaxLoadsAssumption == MaxLoads \in [Threads -> Nat]

VARIABLES
  world,         \* what never changes: members, manifest
  files,         \* the data files now
  held,          \* those that another process holds open: they cannot be read
  initState,     \* _initStateUnsafe
  registered,    \* the formatters of Stad are the default of Utf8Json
  buffers,       \* buffers[b]: the cells of buffer b
  renter,        \* renter[b]: who has rented buffer b, or None
  pc,            \* "idle", "registering", "item", "rent", "parse"
  root,          \* root[t]: the root path of t's data set
  next,          \* next[t]: index of the item t loads
  content,       \* content[t]: the file LoadAsync has read
  result,        \* result[t]: the members of the object LoadDataAsync fills
  outcome,       \* outcome[t]: how t's last load ended
  since,         \* history: the versions of the files when t's load started
  loads,         \* how often t has called LoadDataAsync
  misfits        \* history: the names whose file has not always fitted its member,
                 \* or has been held open

disk == <<world, files, held, misfits>>
settings == <<initState, registered>>
pool == <<buffers, renter>>
call == <<root, since, loads>>
vars == <<disk, settings, pool, call, pc, next, content, result, outcome>>

\* The root path of a data set ends in a separator; or it does not, as those of
\* the directories that LocalFileDataSource keeps because they have a manifest.
Roots == {"separated", "bare"}

\* A cell of a buffer is the byte `at' of a file, or has never been written.
Zero == [at |-> 0]
Cell == [file : File, at : 1..Capacity] \cup {Zero}
Byte(cell) == IF cell = Zero THEN "zero" ELSE cell.file.text[cell.at]
CellsOf(file) == [i \in 1..Len(file.text) |-> [file |-> file, at |-> i]]

\* A value is the cells it was parsed from; default(T) has none.
Unset == << >>

\* Deserializing text as a member of this kind succeeds.
Fits(kind, file) ==
  /\ file # NoFile
  /\ \/ kind = "object" /\ IsNumber(file.text)
     \/ kind \in {"object", "class", "collection"} /\ IsDelimited(file.text)

Versions == [n \in Names |-> files[n].version]
NoResult == [n \in Names |-> Unset]

Init ==
  /\ world \in Worlds
  /\ files = world.files
  /\ held = {}
  /\ initState = 0
  /\ registered = FALSE
  /\ buffers = [b \in Buffers |-> [i \in 1..Capacity |-> Zero]]
  /\ renter = [b \in Buffers |-> None]
  /\ pc = [t \in Threads |-> "idle"]
  /\ root = [t \in Threads |-> None]
  /\ next = [t \in Threads |-> 1]
  /\ content = [t \in Threads |-> NoFile]
  /\ result = [t \in Threads |-> NoResult]
  /\ outcome = [t \in Threads |-> None]
  /\ since = [t \in Threads |-> Versions]
  /\ loads = [t \in Threads |-> 0]
  /\ misfits = {n \in Names : ~Fits(world.member[n], files[n])}

\* Somebody edits a data file (a tool, another editor): external.
Rewrite(n) ==
  /\ files[n] # NoFile
  /\ files[n].version < world.edits[n]
  /\ \E text \in Texts :
       files' = [files EXCEPT ![n] = [name |-> n, version |-> @.version + 1, text |-> text]]
  /\ misfits' = misfits \cup {m \in Names : ~Fits(world.member[m], files'[m])}
  /\ UNCHANGED <<settings, pool, call, world, held, pc, next, content, result, outcome>>

\* Another process opens a data file and shares it with nobody, or closes it.
Hold(n) ==
  /\ n \in world.held \ held
  /\ held' = held \cup {n}
  /\ misfits' = misfits \cup {n}
  /\ UNCHANGED <<settings, pool, call, world, files, pc, next, content, result, outcome>>

Release(n) ==
  /\ n \in held
  /\ held' = held \ {n}
  /\ UNCHANGED <<settings, pool, call, world, files, misfits, pc, next, content, result, outcome>>

-----------------------------------------------------------------------------
(* StadSettings.Initialize                                                 *)

\* Mutant: the flag counts the calls, and is not tested.
MutantInitialize(t) ==
  /\ pc[t] = "idle"
  /\ initState < 2
  /\ initState' = initState + 1
  /\ pc' = [pc EXCEPT ![t] = "registering"]
  /\ UNCHANGED <<disk, pool, call, registered, next, content, result, outcome>>

\* Interlocked.Exchange answers 0: this call goes on to register.  For every
\* later call it answers 1, and the call returns at once: nothing changes.
Initialize(t) ==
  /\ pc[t] = "idle"
  /\ initState = 0
  /\ initState' = 1
  /\ pc' = [pc EXCEPT ![t] = "registering"]
  /\ UNCHANGED <<disk, pool, call, registered, next, content, result, outcome>>

\* Mutant: a resolver is set that is never the default.
MutantRegister(t) ==
  /\ pc[t] = "registering"
  /\ pc' = [pc EXCEPT ![t] = "idle"]
  /\ UNCHANGED <<disk, settings, pool, call, next, content, result, outcome>>

RegisterAndSetAsDefault(t) ==
  /\ pc[t] = "registering"
  /\ registered' = TRUE
  /\ pc' = [pc EXCEPT ![t] = "idle"]
  /\ UNCHANGED <<disk, pool, call, initState, next, content, result, outcome>>

-----------------------------------------------------------------------------
(* StadSerializer.LoadDataAsync and what it calls                          *)

\* What GetItems finds: _rootPath + name exists only if _rootPath ends in a
\* separator.
ManifestAt(path) == IF path = "separated" THEN world.manifest ELSE "missing"

\* The load of t ends: its object is handed out, or nothing is.
EndLoad(t, how) ==
  /\ pc' = [pc EXCEPT ![t] = "idle"]
  /\ next' = [next EXCEPT ![t] = 1]
  /\ content' = [content EXCEPT ![t] = NoFile]
  /\ result' = IF how = "returned" THEN result ELSE [result EXCEPT ![t] = NoResult]
  /\ outcome' = [outcome EXCEPT ![t] = how]

\* LoadDataAsync is called.
Call(t) ==
  /\ pc[t] = "idle"
  /\ loads[t] < MaxLoads[t]
  /\ loads' = [loads EXCEPT ![t] = @ + 1]

\* LoadDataAsync ends before an object is made.
EndEarly(t, how) ==
  /\ Call(t)
  /\ result' = [result EXCEPT ![t] = NoResult]
  /\ outcome' = [outcome EXCEPT ![t] = how]
  /\ UNCHANGED <<disk, settings, pool, since, pc, next, content>>

\* A data set of null: default(T).
LoadNothing(t) ==
  /\ EndEarly(t, "default")
  /\ UNCHANGED root

\* GetItems finds no manifest and answers null for its task: the await throws,
\* and the caller's test of the items for null is not reached.
LoadWithoutManifest(t, path) ==
  /\ ManifestAt(path) = "missing"
  /\ root' = [root EXCEPT ![t] = path]
  /\ EndEarly(t, "noTask")

\* ReadAllText or DataSetManifest.Deserialize throws.
LoadUnreadable(t, path) ==
  /\ ManifestAt(path) = "unreadable"
  /\ root' = [root EXCEPT ![t] = path]
  /\ EndEarly(t, "noManifest")

\* The task answers null for the items: default(T).
LoadNoItems(t, path) ==
  /\ ManifestAt(path) = "noItems"
  /\ root' = [root EXCEPT ![t] = path]
  /\ EndEarly(t, "default")

\* GetItems answers the items of the manifest, and new T() is filled.
LoadItems(t, path) ==
  /\ Call(t)
  /\ ManifestAt(path) = "items"
  /\ root' = [root EXCEPT ![t] = path]
  /\ pc' = [pc EXCEPT ![t] = "item"]
  /\ result' = [result EXCEPT ![t] = NoResult]
  /\ outcome' = [outcome EXCEPT ![t] = None]
  /\ since' = [since EXCEPT ![t] = Versions]
  /\ UNCHANGED <<disk, settings, pool, next, content>>

HasItem(t) == pc[t] = "item" /\ next[t] <= Len(world.items)
ItemOf(t) == world.items[next[t]]
KindOf(t) == world.member[ItemOf(t).name]

\* LoadAsync gets as far as the formatter: the file can be read, a delegate can be
\* made for a member of a reference type, and the formatter is not null.
CanDeserialize(t) ==
  /\ files[ItemOf(t).name] # NoFile /\ ItemOf(t).name \notin held
  /\ KindOf(t) \notin {"missing", "value"}
  /\ ItemOf(t).encoding = "Json"

\* Mutant: an item that cannot be loaded is left out.
MutantSkipItem(t) ==
  /\ HasItem(t)
  /\ ~CanDeserialize(t)
  /\ next' = [next EXCEPT ![t] = @ + 1]
  /\ UNCHANGED <<disk, settings, pool, call, pc, content, result, outcome>>

LoadFails(t) ==
  /\ HasItem(t)
  /\ ~CanDeserialize(t)
  /\ EndLoad(t, "threw")
  /\ UNCHANGED <<disk, settings, pool, call>>

\* ReadContent reads the file in one piece.
ReadContent(t) ==
  /\ HasItem(t)
  /\ CanDeserialize(t)
  /\ content' = [content EXCEPT ![t] = files[ItemOf(t).name]]
  /\ pc' = [pc EXCEPT ![t] = "rent"]
  /\ UNCHANGED <<disk, settings, pool, call, next, result, outcome>>

\* The pool hands out a buffer nobody has rented, as it was left (external).
IsFree(b) == renter[b] = None

\* CopyTo writes the content over the start of the buffer.
Copied(file, cells) ==
  [i \in 1..Capacity |-> IF i <= Len(file.text) THEN CellsOf(file)[i] ELSE cells[i]]

\* Deserialize rents a buffer and copies the content.
Rent(t) ==
  /\ pc[t] = "rent"
  /\ \E b \in Buffers :
       /\ IsFree(b)
       /\ renter' = [renter EXCEPT ![b] = t]
       /\ buffers' = [buffers EXCEPT ![b] = Copied(content[t], @)]
  /\ pc' = [pc EXCEPT ![t] = "parse"]
  /\ UNCHANGED <<disk, settings, call, next, content, result, outcome>>

\* JsonSerializer is given the whole buffer and stops where the value does
\* (external): a number at the first byte that is no digit or at the end of the
\* buffer, an object where it closes.
EndsAt(cells, k) ==
  \/ /\ \A i \in 1..k : Byte(cells[i]) = "digit"
     /\ k = Capacity \/ Byte(cells[k + 1]) # "digit"
  \/ /\ Byte(cells[1]) = "open"
     /\ Byte(cells[k]) = "close"
     /\ \A i \in 1..(k - 1) : Byte(cells[i]) # "close"

\* A number is no instance of a class, and only the registered formatters can
\* make a StadKeyValueCollection.
CanHold(kind, cells) ==
  /\ Byte(cells[1]) = "digit" => kind = "object"
  /\ kind = "collection" => registered

\* The rest of a truncated object makes sense or not.
MayThrow(t, cells) ==
  \/ ~CanHold(KindOf(t), cells)
  \/ ~\E k \in 1..Capacity : EndsAt(cells, k)
  \/ ~IsDelimited(content[t].text) /\ ~IsNumber(content[t].text)
  \/ KindOf(t) = "readonly"

Return(b) == renter' = [renter EXCEPT ![b] = None]

\* Mutant: a parser that looks for the end of an object in what follows it.
MutantParse(t) ==
  /\ pc[t] = "parse"
  /\ \E b \in Buffers, k \in 1..Capacity :
       /\ renter[b] = t
       /\ CanHold(KindOf(t), buffers[b])
       /\ KindOf(t) # "readonly"
       /\ k = Capacity
       /\ result' = [result EXCEPT ![t][ItemOf(t).name] = SubSeq(buffers[b], 1, k)]
       /\ Return(b)
  /\ pc' = [pc EXCEPT ![t] = "item"]
  /\ next' = [next EXCEPT ![t] = @ + 1]
  /\ content' = [content EXCEPT ![t] = NoFile]
  /\ UNCHANGED <<disk, settings, call, buffers, outcome>>

\* Deserialize succeeds and returns the buffer; SetValue assigns the member.
Deserialize(t) ==
  /\ pc[t] = "parse"
  /\ \E b \in Buffers, k \in 1..Capacity :
       /\ renter[b] = t
       /\ CanHold(KindOf(t), buffers[b])
       /\ KindOf(t) # "readonly"
       /\ EndsAt(buffers[b], k)
       /\ result' = [result EXCEPT ![t][ItemOf(t).name] = SubSeq(buffers[b], 1, k)]
       /\ Return(b)
  /\ pc' = [pc EXCEPT ![t] = "item"]
  /\ next' = [next EXCEPT ![t] = @ + 1]
  /\ content' = [content EXCEPT ![t] = NoFile]
  /\ UNCHANGED <<disk, settings, call, buffers, outcome>>

\* Mutant: Return is not in a finally block.
MutantLeak(t) ==
  /\ pc[t] = "parse"
  /\ \E b \in Buffers : renter[b] = t /\ MayThrow(t, buffers[b])
  /\ EndLoad(t, "threw")
  /\ UNCHANGED <<disk, settings, pool, call>>

\* Deserialize throws, and returns the buffer; or SetValue throws after it.
DeserializeFails(t) ==
  /\ pc[t] = "parse"
  /\ \E b \in Buffers : renter[b] = t /\ MayThrow(t, buffers[b]) /\ Return(b)
  /\ EndLoad(t, "threw")
  /\ UNCHANGED <<disk, settings, call, buffers>>

ReturnResult(t) ==
  /\ pc[t] = "item"
  /\ next[t] > Len(world.items)
  /\ EndLoad(t, "returned")
  /\ UNCHANGED <<disk, settings, pool, call>>

Load(t) ==
  \/ RegisterAndSetAsDefault(t)
  \/ LoadFails(t) \/ ReadContent(t) \/ Rent(t) \/ Deserialize(t) \/ DeserializeFails(t)
  \/ ReturnResult(t)

Next ==
  \/ \E n \in Names : Rewrite(n) \/ Hold(n) \/ Release(n)
  \/ \E t \in Threads :
       \/ Initialize(t)
       \/ LoadNothing(t)
       \/ \E path \in Roots :
            \/ LoadWithoutManifest(t, path) \/ LoadUnreadable(t, path)
            \/ LoadNoItems(t, path) \/ LoadItems(t, path)
       \/ Load(t)

Spec == Init /\ [][Next]_vars

-----------------------------------------------------------------------------
(* Properties.                                                             *)

Endings == {"default", "noTask", "noManifest", "returned", "threw"}

TypeOK ==
  /\ world \in World
  /\ files \in [Names -> File \cup {NoFile}]
  /\ held \subseteq Names
  /\ initState \in {0, 1}
  /\ registered \in BOOLEAN
  /\ buffers \in [Buffers -> [1..Capacity -> Cell]]
  /\ renter \in [Buffers -> Threads \cup {None}]
  /\ pc \in [Threads -> {"idle", "registering", "item", "rent", "parse"}]
  /\ root \in [Threads -> Roots \cup {None}]
  /\ next \in [Threads -> Nat \ {0}]
  /\ content \in [Threads -> File \cup {NoFile}]
  /\ result \in [Threads -> [Names -> Seq(Cell)]]
  /\ outcome \in [Threads -> Endings \cup {None}]
  /\ since \in [Threads -> [Names -> Nat \cup {-1}]]
  /\ loads \in [Threads -> Nat]
  /\ misfits \subseteq Names

\* The finally of Deserialize: a buffer is out of the pool while a call parses
\* in it and at no other time, and no two calls parse in one, however many
\* loads run and fail.
BuffersComeBack ==
  /\ \A b \in Buffers : renter[b] # None => pc[renter[b]] = "parse"
  /\ \A b, c \in Buffers : renter[b] = renter[c] /\ renter[b] # None => b = c
  /\ \A t \in Threads : pc[t] = "parse" => \E b \in Buffers : renter[b] = t

\* A buffer keeps what it held, and the parser is given all of it.  Yet what a
\* load makes of an item is the text of the item's file, as it was at some
\* moment of the load; only a number, or the text of a truncated file, can be
\* followed by bytes of another file.
IsReadingOf(value, n, t) ==
  LET file == value[1].file IN
  /\ file.name = n
  /\ file.version \in since[t][n] .. files[n].version
  /\ Len(value) >= Len(file.text)
  /\ \A i \in DOMAIN file.text : value[i] = [file |-> file, at |-> i]
  /\ IsDelimited(file.text) => Len(value) = Len(file.text)

ValuesFromOwnFile ==
  \A t \in Threads, n \in Names : result[t][n] # Unset => IsReadingOf(result[t][n], n, t)

\* A load hands out an object with every item of the manifest, or throws; and it
\* throws only if an item has no Json file or no member that can hold what the
\* file has held, the file was held open, or the formatters are not registered.
AllOrNothing ==
  \A t \in Threads :
    /\ outcome[t] = "returned" =>
         \A i \in DOMAIN world.items : result[t][world.items[i].name] # Unset
    /\ outcome[t] = "threw" =>
         \E i \in DOMAIN world.items :
           \/ world.items[i].encoding # "Json"
           \/ world.items[i].name \in misfits
           \/ world.member[world.items[i].name] = "collection"

\* Initialize returns early to all but its first caller.  What that can cost is
\* bounded: a caller to whom it has returned meets unregistered formatters only
\* while the first caller, one thread, is still registering them.
RegisteredOrRegistering ==
  initState = 1 =>
    \/ registered /\ \A t \in Threads : pc[t] # "registering"
    \/ /\ ~registered
       /\ \E t \in Threads : \A u \in Threads : pc[u] = "registering" <=> u = t

\* LocalFileDataSource.cs:23 keeps only directories in which the manifest exists:
\* a data set that the source has found can be asked for its items.
FoundDataSetsHaveItems ==
  \A t \in Threads :
    root[t] = "bare" /\ world.manifest # "missing" => outcome[t] # "noTask"
=============================================================================
