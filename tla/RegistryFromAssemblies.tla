------------------------ MODULE RegistryFromAssemblies ------------------------
(***************************************************************************)
(* Stad.Analysis/StadAnalyzer.cs, MakeRegistry(IAssemblySource) once the   *)
(* assemblies are loaded: the types are collected, then the result is      *)
(* analyzed.  The collector's walk is TypeCollectorForAssembly, the        *)
(* analysis StadAnalyzer; what one hands to the other is names, while the  *)
(* properties here speak of the types of the program.                      *)
(***************************************************************************)
EXTENDS Integers, Sequences, FiniteSets

CONSTANTS
  Types, Names, Attributes, Throwing, Unset, Assemblies,  \* of TypeCollectorForAssembly
  KeyValueCollections, MaxDepth                           \* of StadAnalyzer

ASSUME DepthAssumption ==
  IsFiniteSet(Types) /\ MaxDepth \in Nat \ {0} /\ Cardinality(Types) <= MaxDepth

VARIABLES
  \* the collector; calls are its frames
  asm, phase, target, calls, alreadyCollected, collectedObjectInfo, collectedEnumInfo,
  collectedClosedTypeGenericInfo, results,
  \* the analysis; status is "collecting" before it
  result, status, at, member, stack, AllModels, listModels, singleModels, dataSetModels

Collector == INSTANCE TypeCollectorForAssembly WITH MaxCollects <- 1, stack <- calls

\* The result is not chosen among Results: the collector makes it.
Analyzer == INSTANCE StadAnalyzer WITH Results <- {}

\* Programs are programs, and names and attributes what the analysis takes them for.
ASSUME ProgramsAssumption == Assemblies \subseteq Collector!Assembly
ASSUME NamesAssumption ==
  Names \subseteq STRING /\ Attributes \subseteq Analyzer!NeutralAttributeData

collectorVars == <<asm, phase, target, calls, alreadyCollected, collectedObjectInfo,
                   collectedEnumInfo, collectedClosedTypeGenericInfo, results>>
modelVars == <<at, member, stack, AllModels, listModels, singleModels, dataSetModels>>
vars == <<collectorVars, result, status, modelVars>>

-----------------------------------------------------------------------------
Init ==
  /\ Collector!Init
  /\ result = Unset
  /\ status = "collecting"
  /\ at = 1
  /\ member = 0
  /\ stack = << >>
  /\ AllModels = << >>
  /\ listModels = << >>
  /\ singleModels = << >>
  /\ dataSetModels = << >>

\* typeCollectorForAssembly.Collect()
Collecting ==
  /\ status = "collecting"
  /\ Collector!Collect \/ Collector!Walk
  /\ UNCHANGED <<result, status, modelVars>>

\* An exception in Collect leaves MakeRegistry.
CollectThrows ==
  /\ Collector!Throw
  /\ status' = "threw"
  /\ UNCHANGED <<result, modelVars>>

\* What the analysis reads of a result: not the enums, and of a description not
\* what is computed from its type.
Read(info) ==
  [fullName |-> info.fullName, attributes |-> info.attributes, members |-> info.members]
ReadAll(infos) == [i \in DOMAIN infos |-> Read(infos[i])]
ReadResult(r) ==
  [CollectedObjectInfo |-> ReadAll(r.CollectedObjectInfo),
   CollectedClosedTypeGenericInfo |-> ReadAll(r.CollectedClosedTypeGenericInfo)]

\* Collect returns and its result is analyzed.
Collected ==
  /\ Collector!ReturnResult
  /\ result' = ReadResult(results'[1])
  /\ status' = "running"
  /\ UNCHANGED modelVars

\* MakeRegistry(result)
Analyzing ==
  /\ Analyzer!Next
  /\ UNCHANGED collectorVars

Next == Collecting \/ CollectThrows \/ Collected \/ Analyzing

Spec == Init /\ [][Next]_vars

-----------------------------------------------------------------------------
(* What the registry of a program should be, from the program alone.       *)

ElementsOf(s) == {s[i] : i \in DOMAIN s}

\* The properties and fields of t that are accessible.
Members(t) ==
  IF asm.kind[t] = "enum" THEN {}
  ELSE {i \in DOMAIN Collector!Uses(asm, t) :
          LET u == Collector!Uses(asm, t)[i] IN u.via # "argument" /\ Collector!IsIncluded(u)}
Member(t, i) == Collector!Uses(asm, t)[i]
TypesOfMembers(t) == {Member(t, i).type : i \in Members(t)}

\* Data sets are classes; enums are never modelled.
IsEnum(t) == asm.kind[t] = "enum"
Program == Collector!Closure!Reachable
DataSets ==
  {t \in Program : /\ asm.kind[t] = "object"
                   /\ Analyzer!IsNamed(asm.attributes[t], "DataSetDefinition")}
IsIgnored(t) == ~IsEnum(t) /\ Analyzer!IsNamed(asm.attributes[t], "IgnoreMemberAttribute")
LeadsTo(t) == {u \in TypesOfMembers(t) : ~IsEnum(u)}
Modelled == UNION {{u \in LeadsTo(d) : ~IsIgnored(u)} : d \in DataSets}
ModelledOrReached ==
  LET modelled == Modelled IN
  {t \in Types : \A S \in SUBSET Types :
     modelled \subseteq S /\ (\A u \in S : LeadsTo(u) \subseteq S) => t \in S}
IsRecursive(t) ==
  \E S \in SUBSET Types : t \in S /\ \A u \in S : LeadsTo(u) \cap S # {}
IsUnhandled(t) ==
  \/ Analyzer!IsNotHandled(asm.attributes[t])
  \/ \E i \in Members(t) : Analyzer!IsNotHandled(Member(t, i).attributes)

\* The analysis looks types up by name; where two types of a program share a
\* name it takes the one described first.  That matters only for the types it
\* looks at: the data sets, and the types of the members of these and of what
\* they lead to.  Elsewhere names may repeat and be null, as they are on an open
\* generic type such as StadKeyValueCollection.
LookedAt == DataSets \cup UNION {TypesOfMembers(t) : t \in DataSets \cup ModelledOrReached}
NamesDistinct ==
  \A t \in LookedAt, u \in Program : asm.fullName[t] = asm.fullName[u] => t = u
TypeNamed(name) == CHOOSE t \in Program : asm.fullName[t] = name

\* No registry for a program with a type that cannot be described, needed by a
\* data set or not.  Otherwise MakeRegistry throws only for a data set that has
\* a member of an enum type, which the collector files where the analysis does
\* not look, or for an attribute nobody handles on a type or property a data set
\* leads to.  Its recursion is endless only if a type that a data set uses leads
\* back to itself, however cyclic the types are elsewhere.  It returns a
\* registry for every other program, and for no program of these.
OutcomesHaveCauses ==
  LET undescribable == \E t \in Program : ~Collector!IsDescribable(asm, t)
      unanalyzable == \/ \E d \in DataSets : \E u \in TypesOfMembers(d) : IsEnum(u)
                      \/ \E t \in ModelledOrReached : IsUnhandled(t)
      endless == \E t \in Modelled : IsRecursive(t)
  IN  /\ status \in {"returned", "overflowed"} => ~undescribable
      /\ status \notin {"collecting", "running"} /\ NamesDistinct =>
           /\ status = "threw" => undescribable \/ unanalyzable
           /\ status = "overflowed" => endless
           /\ status = "returned" => ~unanalyzable /\ ~endless

\* Each data set of the program is in the registry, in the order of names.  If
\* no other type has a name that is looked at, it has a model for each member
\* that is not ignored, collections apart.
CountOf(models, name) == Cardinality({i \in DOMAIN models : AllModels[models[i]].type = name})
MembersNamed(t, name) ==
  {i \in Members(t) : asm.fullName[Member(t, i).type] = name /\ ~IsIgnored(Member(t, i).type)}
RegistryOfProgram ==
  status = "returned" =>
    /\ Len(dataSetModels) = Cardinality(DataSets)
    /\ {d.name : d \in ElementsOf(dataSetModels)} = {asm.fullName[t] : t \in DataSets}
    /\ \A i, j \in DOMAIN dataSetModels : i < j => dataSetModels[i].name <= dataSetModels[j].name
    /\ NamesDistinct =>
         \A d \in ElementsOf(dataSetModels) : \A name \in {asm.fullName[t] : t \in Program} :
           LET count == Cardinality(MembersNamed(TypeNamed(d.name), name))
               filed == name \in KeyValueCollections
           IN  /\ CountOf(d.listModels, name) = IF filed THEN count ELSE 0
               /\ CountOf(d.singleModels, name) = IF filed THEN 0 ELSE count

\* A model of the registry defines the accessible members of a type that has its
\* name, and each leads to a model of its type's name, unless only enums have
\* that name: every other type the collector mentions it has described, under
\* the name it mentions.
ModelsLinked ==
  status = "returned" =>
    \A m \in ElementsOf(AllModels) :
      /\ \E t \in Program :
           /\ asm.fullName[t] = m.type
           /\ Len(m.members) = Cardinality(Members(t))
           /\ {d.type : d \in ElementsOf(m.members)} = {asm.fullName[u] : u \in TypesOfMembers(t)}
      /\ \A d \in ElementsOf(m.members) :
           IF \E u \in Program : ~IsEnum(u) /\ asm.fullName[u] = d.type
             THEN d.model \in DOMAIN AllModels /\ AllModels[d.model].type = d.type
             ELSE d.model = Analyzer!NoModel
=============================================================================
