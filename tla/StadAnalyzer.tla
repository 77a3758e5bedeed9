---------------------------- MODULE StadAnalyzer ----------------------------
(***************************************************************************)
(* Stad.Analysis/StadAnalyzer.cs: MakeRegistry(TypeCollectorResult), which *)
(* turns what a type collector has found into the registry of data sets.   *)
(*                                                                         *)
(* The recursion MakeStadModel -> MakeStadModel is a stack of frames.  A   *)
(* recursion deeper than MaxDepth is the end of the process (a .NET stack  *)
(* overflow cannot be caught); MaxDepth is a bound of the model, larger    *)
(* than the number of types, that stands for the stack of the thread.      *)
(*                                                                         *)
(* Types are the ranks of their full names, as the collector gives them.   *)
(* A model is its position in AllModels, which only grows.                 *)
(***************************************************************************)
EXTENDS Integers, Sequences, FiniteSets

CONSTANTS
  Results,              \* the collector results to choose from
  KeyValueCollections,  \* the types whose name holds "StadKeyValueCollection"
  Unset,                \* attributes the collector never assigned
  MaxDepth              \* bound: activations of MakeStadModel on the stack

\* An attribute is the namespace and the name of its type, its arguments left
\* out; "System" stands for every namespace inside System.
NeutralAttributeData == [namespace : STRING, name : STRING]
MemberSerializationInfo ==
  [type : Nat, name : STRING, isProperty : BOOLEAN, isField : BOOLEAN,
   attributes : Seq(NeutralAttributeData) \cup {Unset}]
ObjectSerializationInfo ==
  [fullName : Nat, attributes : Seq(NeutralAttributeData), members : Seq(MemberSerializationInfo)]
TypeCollectorResult ==
  [CollectedObjectInfo : Seq(ObjectSerializationInfo),
   CollectedClosedTypeGenericInfo : Seq(ObjectSerializationInfo)]

ASSUME ResultsAssumption == Results \subseteq TypeCollectorResult
ASSUME MaxDepthAssumption ==
  /\ MaxDepth \in Nat \ {0}
  /\ \A r \in Results :
       Len(r.CollectedObjectInfo) + Len(r.CollectedClosedTypeGenericInfo) <= MaxDepth

NoModel == 0            \* a MemberDefinition whose Model is null

VARIABLES
  result,               \* the TypeCollectorResult
  status,               \* "running", "returned", "threw" or "overflowed"
  at,                   \* loop of MakeRegistry: index in CollectedObjectInfo
  member,               \* loop of MakeDataSetModel: index in Members, 0 outside
  stack,                \* frames of MakeStadModel, the innermost last
  AllModels,            \* context.AllModels
  listModels,
  singleModels,
  dataSetModels

loops == <<at, member, stack>>
vars == <<result, status, loops, AllModels, listModels, singleModels, dataSetModels>>

-----------------------------------------------------------------------------
(* Attributes.                                                             *)

\* a.Type.Contains(nameof(DataSetDefinition)), ...(nameof(IgnoreMemberAttribute))
IsNamed(attributes, name) ==
  attributes # Unset /\ \E i \in DOMAIN attributes : attributes[i].name = name

SwitchLabels == {"ReferenceAttribute", "RangeAttribute", "IgnoreMemberAttribute",
                 "NameAttribute", "DescAttribute", "DataSetDefinition"}

\* The special case, then the switch: it compares the full name of the
\* attribute's type with names that have no namespace.
IsAnnotation(a) ==
  \/ a.namespace = "Utf8Json" /\ a.name = "JsonFormatterAttribute"
  \/ a.namespace = "" /\ a.name \in SwitchLabels

\* The two `continue's: an attribute Roslyn has no class for has no name.
IsSkipped(a) == a.name = "" \/ a.namespace = "System"

\* MakeAnnotationInfo throws "Not handled attribute".
IsNotHandled(attributes) ==
  /\ attributes # Unset
  /\ \E i \in DOMAIN attributes : ~IsSkipped(attributes[i]) /\ ~IsAnnotation(attributes[i])

\* What MakeAnnotationInfo answers, without the order.
AnnotationInfo(attributes) ==
  IF attributes = Unset
    THEN {} ELSE {attributes[i] : i \in {j \in DOMAIN attributes : IsAnnotation(attributes[j])}}

-----------------------------------------------------------------------------
(* Lookups, by name, of the first that has it.                             *)

First(s, Test(_)) ==
  CHOOSE i \in DOMAIN s : Test(s[i]) /\ \A j \in DOMAIN s : Test(s[j]) => i <= j

IsDescribedIn(s, type) == \E i \in DOMAIN s : s[i].fullName = type
InfoIn(s, type) == LET has(i) == i.fullName = type IN s[First(s, has)]

IsDescribed(collectorResult, type) ==
  \/ IsDescribedIn(collectorResult.CollectedObjectInfo, type)
  \/ IsDescribedIn(collectorResult.CollectedClosedTypeGenericInfo, type)

GetObjectInfo(collectorResult, type) ==
  IF IsDescribedIn(collectorResult.CollectedObjectInfo, type)
    THEN InfoIn(collectorResult.CollectedObjectInfo, type)
    ELSE InfoIn(collectorResult.CollectedClosedTypeGenericInfo, type)

HasModel(models, type) == \E i \in DOMAIN models : models[i].type = type

\* AllModels.Find(m => m.Type == type)
ModelOf(models, type) ==
  LET has(m) == m.type = type IN IF HasModel(models, type) THEN First(models, has) ELSE NoModel

-----------------------------------------------------------------------------
Init ==
  /\ result \in Results
  /\ status = "running"
  /\ at = 1
  /\ member = 0
  /\ stack = << >>
  /\ AllModels = << >>
  /\ listModels = << >>
  /\ singleModels = << >>
  /\ dataSetModels = << >>

Infos == result.CollectedObjectInfo
Running == status = "running"
AtInfo == Running /\ member = 0 /\ at <= Len(Infos)

Throw ==
  /\ status' = "threw"
  /\ UNCHANGED <<result, loops, AllModels, listModels, singleModels, dataSetModels>>

\* MakeRegistry: an info that does not define a data set.
SkipInfo ==
  /\ AtInfo
  /\ ~IsNamed(Infos[at].attributes, "DataSetDefinition")
  /\ at' = at + 1
  /\ UNCHANGED <<result, status, member, stack, AllModels, listModels, singleModels, dataSetModels>>

\* Mutant: the lists of the previous data set are kept.
MutantKeepLists ==
  /\ AtInfo
  /\ IsNamed(Infos[at].attributes, "DataSetDefinition")
  /\ member' = 1
  /\ UNCHANGED <<result, status, at, stack, AllModels, listModels, singleModels, dataSetModels>>

\* MakeRegistry calls MakeDataSetModel.
EnterDataSet ==
  /\ AtInfo
  /\ IsNamed(Infos[at].attributes, "DataSetDefinition")
  /\ member' = 1
  /\ listModels' = << >>
  /\ singleModels' = << >>
  /\ UNCHANGED <<result, status, at, stack, AllModels, dataSetModels>>

InDataSet == Running /\ member > 0 /\ stack = << >>
AtMember == InDataSet /\ member <= Len(Infos[at].members)
MemberType == Infos[at].members[member].type

\* MakeDataSetModel throws "Member not found".
MemberNotFound ==
  /\ AtMember
  /\ ~IsDescribed(result, MemberType)
  /\ Throw

\* The attribute is looked for on the type of the member.
IgnoreMember ==
  /\ AtMember
  /\ IsDescribed(result, MemberType)
  /\ IsNamed(GetObjectInfo(result, MemberType).attributes, "IgnoreMemberAttribute")
  /\ member' = member + 1
  /\ UNCHANGED <<result, status, at, stack, AllModels, listModels, singleModels, dataSetModels>>

\* MakeStadModel(info) is called with the frames `callers' below it.
MakeStadModel(info, callers) ==
  IF Len(callers) < MaxDepth
    THEN /\ stack' = Append(callers, [info |-> info, next |-> 1, definitions |-> << >>])
         /\ UNCHANGED status
    ELSE status' = "overflowed" /\ UNCHANGED stack

\* MakeDataSetModel makes the model of a member, whether or not there is one.
MakeMemberModel ==
  /\ AtMember
  /\ IsDescribed(result, MemberType)
  /\ ~IsNamed(GetObjectInfo(result, MemberType).attributes, "IgnoreMemberAttribute")
  /\ MakeStadModel(GetObjectInfo(result, MemberType), << >>)
  /\ UNCHANGED <<result, at, member, AllModels, listModels, singleModels, dataSetModels>>

InModel == Running /\ stack # << >>
Top == stack[Len(stack)]
Callers == SubSeq(stack, 1, Len(stack) - 1)
EachMember == Top.info.members[Top.next]
AtEachMember == InModel /\ Top.next <= Len(Top.info.members)

MemberDefinition(m) ==
  [type |-> m.type, name |-> m.name, kind |-> IF m.isField THEN "Field" ELSE "Property",
   annotations |-> AnnotationInfo(m.attributes), model |-> NoModel]

\* Mutant: the recursion is given the type at hand for that of its member.
MutantSameInfo ==
  /\ AtEachMember
  /\ ~IsNotHandled(EachMember.attributes)
  /\ LET advanced == Append(Callers,
           [Top EXCEPT !.next = @ + 1,
                       !.definitions = Append(@, MemberDefinition(EachMember))])
     IN  IF ~HasModel(AllModels, EachMember.type) /\ IsDescribed(result, EachMember.type)
           THEN MakeStadModel(Top.info, advanced)
           ELSE stack' = advanced /\ UNCHANGED status
  /\ UNCHANGED <<result, at, member, AllModels, listModels, singleModels, dataSetModels>>

\* MakeStadModel, one turn of its loop: the definition of the member, then the
\* model of its type unless AllModels has one or the type is not described.
DefineMember ==
  /\ AtEachMember
  /\ ~IsNotHandled(EachMember.attributes)
  /\ LET advanced == Append(Callers,
           [Top EXCEPT !.next = @ + 1,
                       !.definitions = Append(@, MemberDefinition(EachMember))])
     IN  \/ /\ ~HasModel(AllModels, EachMember.type) /\ IsDescribed(result, EachMember.type)
            /\ MakeStadModel(GetObjectInfo(result, EachMember.type), advanced)
         \/ /\ HasModel(AllModels, EachMember.type) \/ ~IsDescribed(result, EachMember.type)
            /\ stack' = advanced
            /\ UNCHANGED status
  /\ UNCHANGED <<result, at, member, AllModels, listModels, singleModels, dataSetModels>>

\* MakeAnnotationInfo throws for a member.
MemberNotHandled ==
  /\ AtEachMember
  /\ IsNotHandled(EachMember.attributes)
  /\ Throw

\* Mutant: the attributes of the type itself are not checked.
MutantTypeUnchecked ==
  /\ InModel
  /\ Top.next > Len(Top.info.members)
  /\ AllModels' = Append(AllModels,
       [type |-> Top.info.fullName, annotations |-> {}, members |-> Top.definitions])
  /\ stack' = Callers
  /\ member' = IF Len(stack) = 1 THEN member + 1 ELSE member
  /\ UNCHANGED <<result, status, at, listModels, singleModels, dataSetModels>>

\* Mutant: the model is added as its own definition, without a name.
MutantUntypedModel ==
  /\ InModel
  /\ Top.next > Len(Top.info.members)
  /\ AllModels' = Append(AllModels, Top.definitions)
  /\ stack' = Callers
  /\ member' = IF Len(stack) = 1 THEN member + 1 ELSE member
  /\ UNCHANGED <<result, status, at, listModels, singleModels, dataSetModels>>

\* The model is added when its members are done; the outermost activation
\* returns to MakeDataSetModel, which files the model.
FinishModel ==
  /\ InModel
  /\ Top.next > Len(Top.info.members)
  /\ ~IsNotHandled(Top.info.attributes)
  /\ AllModels' = Append(AllModels,
       [type |-> Top.info.fullName, annotations |-> AnnotationInfo(Top.info.attributes),
        members |-> Top.definitions])
  /\ stack' = Callers
  /\ \/ /\ Len(stack) > 1
        /\ UNCHANGED <<member, listModels, singleModels>>
     \/ /\ Len(stack) = 1
        /\ member' = member + 1
        /\ IF Top.info.fullName \in KeyValueCollections
             THEN /\ listModels' = Append(listModels, Len(AllModels'))
                  /\ UNCHANGED singleModels
             ELSE /\ singleModels' = Append(singleModels, Len(AllModels'))
                  /\ UNCHANGED listModels
  /\ UNCHANGED <<result, status, at, dataSetModels>>

\* MakeAnnotationInfo throws for the type itself.
TypeNotHandled ==
  /\ InModel
  /\ Top.next > Len(Top.info.members)
  /\ IsNotHandled(Top.info.attributes)
  /\ Throw

\* MakeDataSetModel, after its members: every member definition of every model
\* so far is linked, then MakeRegistry takes the data set.
Linked(models, m) ==
  [m EXCEPT !.members = [i \in DOMAIN m.members |->
     [m.members[i] EXCEPT !.model = ModelOf(models, m.members[i].type)]]]

\* Mutant: only the first data set links its models.
MutantLinkOnce ==
  /\ InDataSet
  /\ member > Len(Infos[at].members)
  /\ AllModels' = IF dataSetModels = << >>
                   THEN [i \in DOMAIN AllModels |-> Linked(AllModels, AllModels[i])] ELSE AllModels
  /\ dataSetModels' = Append(dataSetModels,
       [name |-> Infos[at].fullName, listModels |-> listModels, singleModels |-> singleModels])
  /\ at' = at + 1
  /\ member' = 0
  /\ UNCHANGED <<result, status, stack, listModels, singleModels>>

LinkDataSet ==
  /\ InDataSet
  /\ member > Len(Infos[at].members)
  /\ AllModels' = [i \in DOMAIN AllModels |-> Linked(AllModels, AllModels[i])]
  /\ dataSetModels' = Append(dataSetModels,
       [name |-> Infos[at].fullName, listModels |-> listModels, singleModels |-> singleModels])
  /\ at' = at + 1
  /\ member' = 0
  /\ UNCHANGED <<result, status, stack, listModels, singleModels>>

\* MakeRegistry returns StadRegistry.Create(dataSetModels).
ReturnRegistry ==
  /\ Running
  /\ member = 0
  /\ at > Len(Infos)
  /\ status' = "returned"
  /\ UNCHANGED <<result, loops, AllModels, listModels, singleModels, dataSetModels>>

Next ==
  \/ SkipInfo \/ EnterDataSet \/ MemberNotFound \/ IgnoreMember \/ MakeMemberModel
  \/ DefineMember \/ MemberNotHandled \/ FinishModel \/ TypeNotHandled
  \/ LinkDataSet \/ ReturnRegistry

Spec == Init /\ [][Next]_vars

-----------------------------------------------------------------------------
(* Properties.                                                             *)

Definitions == [type : Nat, name : STRING, kind : {"Field", "Property"}, model : Nat,
                annotations : SUBSET NeutralAttributeData]
Frames == [info : ObjectSerializationInfo, next : Nat \ {0}, definitions : Seq(Definitions)]
StadModels == [type : Nat, annotations : SUBSET NeutralAttributeData, members : Seq(Definitions)]

\* Types; the lists of a data set hold places in AllModels.
TypeOK ==
  /\ result \in Results
  /\ status \in {"running", "returned", "threw", "overflowed"}
  /\ at \in 1..Len(Infos) + 1
  /\ member \in Nat
  /\ stack \in Seq(Frames)
  /\ \A f \in DOMAIN stack : stack[f].next \in 1..Len(stack[f].info.members) + 1
  /\ AllModels \in Seq(StadModels)
  /\ listModels \in Seq(DOMAIN AllModels)
  /\ singleModels \in Seq(DOMAIN AllModels)

\* The data sets a result defines, the types of their members, and those a model
\* is made for.
DataSetInfos(r) ==
  {d \in DOMAIN r.CollectedObjectInfo :
     IsNamed(r.CollectedObjectInfo[d].attributes, "DataSetDefinition")}
MembersIn(r, d) == r.CollectedObjectInfo[d].members
IsIgnored(r, type) ==
  IsDescribed(r, type) /\ IsNamed(GetObjectInfo(r, type).attributes, "IgnoreMemberAttribute")
MemberTypes(r) ==
  UNION {{MembersIn(r, d)[i].type : i \in DOMAIN MembersIn(r, d)} : d \in DataSetInfos(r)}
ModelledTypes(r) == {t \in MemberTypes(r) : IsDescribed(r, t) /\ ~IsIgnored(r, t)}

Described(r) == {r.CollectedObjectInfo[i].fullName : i \in DOMAIN r.CollectedObjectInfo}
  \cup {r.CollectedClosedTypeGenericInfo[i].fullName :
            i \in DOMAIN r.CollectedClosedTypeGenericInfo}
Mentions(r, type) ==
  LET members == GetObjectInfo(r, type).members
  IN  {members[i].type : i \in DOMAIN members} \cap Described(r)

\* The members of type, their members, and so on, come back to a type already
\* on the way: some set of types holds type and leads nowhere but into itself.
IsRecursive(r, type) ==
  \E S \in SUBSET Described(r) : type \in S /\ \A u \in S : Mentions(r, u) \cap S # {}

\* MakeStadModel has no test for a model under construction.  A program whose
\* data sets reach a recursive type (a node with a Next, a System.DateTime with
\* its Date) never gets a registry, and the recursion is unbounded for no other
\* program.
RecursionEndsUnlessRecursive ==
  /\ status = "returned" => \A t \in ModelledTypes(result) : ~IsRecursive(result, t)
  /\ status = "overflowed" => \E t \in ModelledTypes(result) : IsRecursive(result, t)

\* Once a data set is taken, every member definition of every model made so far,
\* for this data set or an earlier one, has a model of its type exactly when the
\* collector describes that type.
DescribedMembersLinked ==
  member = 0 =>
    \A i \in DOMAIN AllModels : \A j \in DOMAIN AllModels[i].members :
      LET d == AllModels[i].members[j] IN
      IF IsDescribed(result, d.type)
        THEN d.model \in DOMAIN AllModels /\ AllModels[d.model].type = d.type
        ELSE d.model = NoModel

\* The types models are made for: those of data set members and, from them, the
\* described types of members.
ReachedTypes(r) ==
  {t \in Described(r) : \A S \in SUBSET Described(r) :
     ModelledTypes(r) \subseteq S /\ (\A u \in S : Mentions(r, u) \subseteq S) => t \in S}
HasUnhandled(info) ==
  \/ IsNotHandled(info.attributes)
  \/ \E i \in DOMAIN info.members : IsNotHandled(info.members[i].attributes)

\* MakeRegistry throws only when a member of a data set has a type that is not
\* described or a type reached carries an attribute that is not handled, and
\* answers a registry only when there is neither.
FailuresHaveACause ==
  LET cause == \/ \E t \in MemberTypes(result) : ~IsDescribed(result, t)
               \/ \E t \in ReachedTypes(result) : HasUnhandled(GetObjectInfo(result, t))
  IN  /\ status = "threw" => cause
      /\ status = "returned" => ~cause

\* The labels of the switch in MakeAnnotationInfo name the annotations of Stad:
\* no annotation of Stad alone makes MakeRegistry throw.
StadAnnotationsHandled ==
  status = "threw" /\ stack # << >> =>
    LET attributes == IF Top.next > Len(Top.info.members) THEN Top.info.attributes
                                                          ELSE EachMember.attributes
    IN  \E i \in DOMAIN attributes :
          attributes[i].namespace # "Stad.Annotation" \/ attributes[i].name \notin SwitchLabels

\* IgnoreMemberAttribute may be put on a property or a field: the registry has
\* no model for a member of a data set that carries it.
IgnoredMembersLeftOut ==
  status = "returned" =>
    \A d \in DataSetInfos(result) : \A i \in DOMAIN Infos[d].members :
      IsNamed(Infos[d].members[i].attributes, "IgnoreMemberAttribute")
        => ~HasModel(AllModels, Infos[d].members[i].type)
=============================================================================
