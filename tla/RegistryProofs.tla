---------------------------- MODULE RegistryProofs ----------------------------
(***************************************************************************)
(* For every program: what MakeRegistry answers, and how it fails, told    *)
(* from the program alone.  The collector does what TypeCollectorProofs    *)
(* says of it; its result describes the types of the program, which turns  *)
(* what StadAnalyzerProofs says of the names in a result into a statement  *)
(* about types.                                                            *)
(***************************************************************************)
EXTENDS RegistryFromAssemblies, FiniteSetTheorems, SequenceTheorems, TLAPS

CollectorProofs == INSTANCE TypeCollectorProofs WITH MaxCollects <- 1, stack <- calls

\* The results that the analysis may be handed.
HandedResults ==
  {r \in Analyzer!TypeCollectorResult :
     Len(r.CollectedObjectInfo) + Len(r.CollectedClosedTypeGenericInfo) <= MaxDepth}

AnalyzerProofs == INSTANCE StadAnalyzerProofs WITH Results <- HandedResults

-----------------------------------------------------------------------------
(* The assumptions of the two, and their definitions under either name.    *)

LEMMA CollectorAssumptions == Assemblies \subseteq CollectorProofs!Assembly /\ 1 \in Nat
BY ProgramsAssumption DEF CollectorProofs!Assembly, CollectorProofs!PropertyInfo,
   CollectorProofs!FieldInfo, Collector!Assembly, Collector!PropertyInfo, Collector!FieldInfo

LEMMA AnalyzerAssumptions ==
  /\ HandedResults \subseteq AnalyzerProofs!TypeCollectorResult
  /\ MaxDepth \in Nat \ {0}
  /\ \A r \in HandedResults :
       Len(r.CollectedObjectInfo) + Len(r.CollectedClosedTypeGenericInfo) <= MaxDepth
BY DepthAssumption DEF HandedResults,
   Analyzer!TypeCollectorResult, Analyzer!ObjectSerializationInfo,
   Analyzer!MemberSerializationInfo, Analyzer!NeutralAttributeData,
   AnalyzerProofs!TypeCollectorResult, AnalyzerProofs!ObjectSerializationInfo,
   AnalyzerProofs!MemberSerializationInfo, AnalyzerProofs!NeutralAttributeData

LEMMA SameUses ==
  /\ \A a, t : CollectorProofs!Uses(a, t) = Collector!Uses(a, t)
  /\ \A u : CollectorProofs!IsIncluded(u) <=> Collector!IsIncluded(u)
  /\ \A a, t : CollectorProofs!UsedTypes(a, t) = Collector!UsedTypes(a, t)
  /\ \A attributes : CollectorProofs!Converts(attributes) <=> Collector!Converts(attributes)
  /\ \A a, u : CollectorProofs!IsReadable(a, u) <=> Collector!IsReadable(a, u)
  /\ \A a, t : CollectorProofs!IsDescribable(a, t) <=> Collector!IsDescribable(a, t)
<1>1. ASSUME NEW a, NEW t PROVE CollectorProofs!Uses(a, t) = Collector!Uses(a, t)
  BY DEF CollectorProofs!Uses, CollectorProofs!ArgumentUse, CollectorProofs!PropertyUse,
         CollectorProofs!FieldUse, Collector!Uses, Collector!ArgumentUse, Collector!PropertyUse,
         Collector!FieldUse
<1>2. \A u : CollectorProofs!IsIncluded(u) <=> Collector!IsIncluded(u)
  BY DEF CollectorProofs!IsIncluded, Collector!IsIncluded
<1>3. ASSUME NEW a, NEW t PROVE CollectorProofs!UsedTypes(a, t) = Collector!UsedTypes(a, t)
  BY <1>1, <1>2 DEF CollectorProofs!UsedTypes, Collector!UsedTypes
<1>4. \A attributes : CollectorProofs!Converts(attributes) <=> Collector!Converts(attributes)
  BY DEF CollectorProofs!Converts, Collector!Converts
<1>5. \A a, u : CollectorProofs!IsReadable(a, u) <=> Collector!IsReadable(a, u)
  BY <1>4 DEF CollectorProofs!IsReadable, Collector!IsReadable
<1>6. ASSUME NEW a, NEW t PROVE CollectorProofs!IsDescribable(a, t) <=> Collector!IsDescribable(a, t)
  BY <1>1, <1>4, <1>5 DEF CollectorProofs!IsDescribable, Collector!IsDescribable
<1> QED BY <1>1, <1>2, <1>3, <1>4, <1>5, <1>6

LEMMA SameReachable == CollectorProofs!Closure!Reachable = Program
BY SameUses DEF CollectorProofs!Closure!Reachable, CollectorProofs!Closure!IsClosed,
   CollectorProofs!ElementsOf, Program, Collector!Closure!Reachable,
   Collector!Closure!IsClosed, Collector!ElementsOf

LEMMA SameTests ==
  /\ \A attributes, name :
       AnalyzerProofs!IsNamed(attributes, name) <=> Analyzer!IsNamed(attributes, name)
  /\ \A attributes : AnalyzerProofs!IsNotHandled(attributes) <=> Analyzer!IsNotHandled(attributes)
  /\ AnalyzerProofs!NoModel = Analyzer!NoModel
BY DEF AnalyzerProofs!IsNamed, AnalyzerProofs!IsNotHandled, AnalyzerProofs!IsAnnotation,
   AnalyzerProofs!IsSkipped, AnalyzerProofs!SwitchLabels, AnalyzerProofs!NoModel,
   Analyzer!IsNamed, Analyzer!IsNotHandled, Analyzer!IsAnnotation, Analyzer!IsSkipped,
   Analyzer!SwitchLabels, Analyzer!NoModel

-----------------------------------------------------------------------------
(* Collecting, then analyzing.                                             *)

LEMMA SameCollectorSteps ==
  /\ Collector!Collect <=> CollectorProofs!Collect
  /\ Collector!Walk <=> CollectorProofs!Walk
  /\ Collector!Throw <=> CollectorProofs!Throw
  /\ Collector!ReturnResult <=> CollectorProofs!ReturnResult
<1>1. Collector!Collect <=> CollectorProofs!Collect
  BY DEF Collector!Collect, Collector!ResetWorkspace, CollectorProofs!Collect,
         CollectorProofs!ResetWorkspace
<1>2. /\ Collector!Top = CollectorProofs!Top /\ Collector!Callers = CollectorProofs!Callers
      /\ Collector!TopUse = CollectorProofs!TopUse
      /\ Collector!InUse <=> CollectorProofs!InUse
  BY SameUses DEF Collector!Top, Collector!Callers, Collector!TopUse, Collector!InUse,
         CollectorProofs!Top, CollectorProofs!Callers, CollectorProofs!TopUse,
         CollectorProofs!InUse
<1>3. /\ \A members : Collector!Advanced(members) = CollectorProofs!Advanced(members)
      /\ \A t, callers : Collector!CollectCore(t, callers) <=> CollectorProofs!CollectCore(t, callers)
  BY <1>2, SameUses DEF Collector!Advanced, Collector!CollectCore, Collector!EnumSerializationInfo,
         CollectorProofs!Advanced, CollectorProofs!CollectCore,
         CollectorProofs!EnumSerializationInfo
<1>4. Collector!CollectTarget <=> CollectorProofs!CollectTarget
  BY <1>3 DEF Collector!CollectTarget, CollectorProofs!CollectTarget
<1>5. Collector!CollectArgument <=> CollectorProofs!CollectArgument
  BY <1>2, <1>3 DEF Collector!CollectArgument, CollectorProofs!CollectArgument
<1>6. Collector!SkipMember <=> CollectorProofs!SkipMember
  BY <1>2, <1>3, SameUses DEF Collector!SkipMember, Collector!workspace,
         CollectorProofs!SkipMember, CollectorProofs!workspace
<1>7. Collector!CollectMember <=> CollectorProofs!CollectMember
  BY <1>2, <1>3, SameUses DEF Collector!CollectMember, Collector!MemberSerializationInfo,
         CollectorProofs!CollectMember, CollectorProofs!MemberSerializationInfo
<1>8. Collector!FinishType <=> CollectorProofs!FinishType
  BY <1>2, SameUses DEF Collector!FinishType, Collector!AddInfo,
         Collector!ObjectSerializationInfo, CollectorProofs!FinishType, CollectorProofs!AddInfo,
         CollectorProofs!ObjectSerializationInfo
<1>9. Collector!ReturnResult <=> CollectorProofs!ReturnResult
  <2>1. \A s : Collector!OrderByFullName(s) = CollectorProofs!OrderByFullName(s)
    BY DEF Collector!OrderByFullName, Collector!Precedes, Collector!Cardinality,
           CollectorProofs!OrderByFullName, CollectorProofs!Precedes,
           CollectorProofs!Cardinality
  <2> QED BY <2>1 DEF Collector!ReturnResult, Collector!workspace,
           CollectorProofs!ReturnResult, CollectorProofs!workspace
<1>10. Collector!Throw <=> CollectorProofs!Throw
  <2>1. Collector!Unwind <=> CollectorProofs!Unwind
    BY DEF Collector!Unwind, CollectorProofs!Unwind
  <2>2. \A t : Collector!Calls(t) <=> CollectorProofs!Calls(t)
    BY <1>2, SameUses DEF Collector!Calls, CollectorProofs!Calls
  <2>3. Collector!EnumThrows <=> CollectorProofs!EnumThrows
    BY <2>1, <2>2, SameUses DEF Collector!EnumThrows, CollectorProofs!EnumThrows
  <2>4. Collector!MemberThrows <=> CollectorProofs!MemberThrows
    BY <1>2, <2>1, SameUses DEF Collector!MemberThrows, CollectorProofs!MemberThrows
  <2>5. Collector!InfoThrows <=> CollectorProofs!InfoThrows
    BY <1>2, <2>1, SameUses DEF Collector!InfoThrows, CollectorProofs!InfoThrows
  <2> QED BY <2>3, <2>4, <2>5 DEF Collector!Throw, CollectorProofs!Throw
<1> QED
  BY <1>1, <1>4, <1>5, <1>6, <1>7, <1>8, <1>9, <1>10 DEF Collector!Walk, CollectorProofs!Walk

(* The registry is made of one run of the collector.                       *)
LEMMA Collects == Spec => CollectorProofs!Spec
<1>1. Init => CollectorProofs!Init
  BY DEF Init, Collector!Init, CollectorProofs!Init
<1>2. [Next]_vars => [CollectorProofs!Next]_(CollectorProofs!vars)
  <2> SUFFICES ASSUME [Next]_vars PROVE [CollectorProofs!Next]_(CollectorProofs!vars)
    OBVIOUS
  <2>1. CASE Collecting \/ CollectThrows \/ Collected
    BY <2>1, SameCollectorSteps DEF Collecting, CollectThrows, Collected, CollectorProofs!Next
  <2>2. CASE Analyzing \/ UNCHANGED vars
    BY <2>2 DEF Analyzing, vars, collectorVars, CollectorProofs!vars, CollectorProofs!workspace
  <2> QED BY <2>1, <2>2 DEF Next
<1> QED BY <1>1, <1>2, PTL DEF Spec, CollectorProofs!Spec

(* What the proofs of the collector give.                                  *)
CollectorInv ==
  /\ CollectorProofs!TypeOK /\ CollectorProofs!ReportInv
  /\ CollectorProofs!CollectedIsReachable /\ CollectorProofs!ThrowsHaveCause

LEMMA CollectorHolds == Spec => []CollectorInv
<1>1. /\ CollectorProofs!Spec => []CollectorProofs!TypeOK
      /\ CollectorProofs!Spec => []CollectorProofs!ReportInv
      /\ CollectorProofs!Spec => []CollectorProofs!CollectedIsReachable
      /\ CollectorProofs!Spec => []CollectorProofs!ThrowsHaveCause
  BY CollectorAssumptions, CollectorProofs!TypeCorrect, CollectorProofs!ResultsReport,
     CollectorProofs!CollectsReachable, CollectorProofs!ThrowsCaused
<1> QED BY <1>1, Collects, PTL DEF CollectorInv

(* The analysis has not begun, or never will, or has the result of a       *)
(* Collect that is over.                                                   *)
Handed ==
  /\ status = "collecting" =>
       /\ results = << >>
       /\ at = 1 /\ member = 0 /\ stack = << >> /\ AllModels = << >>
       /\ listModels = << >> /\ singleModels = << >> /\ dataSetModels = << >>
  /\ status # "collecting" =>
       \/ phase = "threw" /\ status = "threw"
       \/ phase = "returned" /\ Len(results) = 1 /\ result = ReadResult(results[1])

(* A step of the analysis is one of a registry being made.                 *)
LEMMA AnalyzerSteps ==
  Analyzer!Next => status = "running" /\ status' # "collecting" /\ result' = result
<1> SUFFICES ASSUME Analyzer!Next
             PROVE  status = "running" /\ status' # "collecting" /\ result' = result
  OBVIOUS
<1>1. CASE \/ Analyzer!SkipInfo \/ Analyzer!EnterDataSet \/ Analyzer!MemberNotFound
           \/ Analyzer!IgnoreMember \/ Analyzer!MakeMemberModel
  BY <1>1 DEF Analyzer!SkipInfo, Analyzer!EnterDataSet, Analyzer!MemberNotFound,
              Analyzer!IgnoreMember, Analyzer!MakeMemberModel, Analyzer!MakeStadModel,
              Analyzer!AtInfo, Analyzer!AtMember, Analyzer!InDataSet, Analyzer!Running,
              Analyzer!Throw
<1>2. CASE \/ Analyzer!DefineMember \/ Analyzer!MemberNotHandled \/ Analyzer!FinishModel
           \/ Analyzer!TypeNotHandled \/ Analyzer!LinkDataSet \/ Analyzer!ReturnRegistry
  BY <1>2 DEF Analyzer!DefineMember, Analyzer!MemberNotHandled, Analyzer!FinishModel,
              Analyzer!TypeNotHandled, Analyzer!LinkDataSet, Analyzer!ReturnRegistry,
              Analyzer!MakeStadModel, Analyzer!AtEachMember, Analyzer!InModel,
              Analyzer!InDataSet, Analyzer!Running, Analyzer!Throw
<1> QED BY <1>1, <1>2 DEF Analyzer!Next

LEMMA HandedStep == Handed /\ [Next]_vars => Handed'
<1> SUFFICES ASSUME Handed, [Next]_vars PROVE Handed'
  OBVIOUS
<1>1. CASE Collecting
  <2>1. results' = results
    BY <1>1 DEF Collecting, Collector!Collect, Collector!Walk, Collector!CollectTarget,
                Collector!CollectArgument, Collector!SkipMember, Collector!CollectMember,
                Collector!FinishType
  <2> QED BY <1>1, <2>1 DEF Collecting, modelVars, Handed
<1>5. CASE CollectThrows
  <2>1. phase' = "threw" /\ status' = "threw"
    BY <1>5 DEF CollectThrows, Collector!Throw, Collector!EnumThrows, Collector!MemberThrows,
                Collector!InfoThrows, Collector!Unwind
  <2> QED BY <2>1 DEF Handed
<1>2. CASE Collected
  <2>1. phase = "walking" /\ phase' = "returned"
    BY <1>2 DEF Collected, Collector!ReturnResult
  <2>2. results = << >>
    BY <2>1 DEF Handed
  <2>3. PICK r : results' = Append(results, r)
    BY <1>2 DEF Collected, Collector!ReturnResult
  <2>4. Len(results') = 1
    BY <2>2, <2>3
  <2> QED BY <1>2, <2>1, <2>4 DEF Collected, Handed
<1>3. CASE Analyzing
  <2>1. status = "running" /\ status' # "collecting" /\ result' = result
    BY <1>3, AnalyzerSteps DEF Analyzing
  <2> QED BY <1>3, <2>1 DEF Analyzing, collectorVars, Handed
<1>4. CASE UNCHANGED vars
  BY <1>4 DEF vars, collectorVars, modelVars, Handed
<1> QED BY <1>1, <1>2, <1>3, <1>4, <1>5 DEF Next

LEMMA HandedHolds == Spec => []Handed
<1>1. Init => Handed
  BY DEF Init, Collector!Init, Handed
<1> QED BY <1>1, HandedStep, PTL DEF Spec

-----------------------------------------------------------------------------
(* The result describes the program.                                       *)

\* A list of members has one for each accessible member of t.
DescribesMembers(members, t) ==
  \E f \in [DOMAIN members -> Members(t)] :
    /\ \A i \in Members(t) : \E k \in DOMAIN members : f[k] = i
    /\ \A k, l \in DOMAIN members : f[k] = f[l] => k = l
    /\ \A k \in DOMAIN members :
         /\ members[k].type = asm.fullName[Member(t, f[k]).type]
         /\ members[k].attributes = Member(t, f[k]).attributes
Describes(info, t) ==
  /\ info.fullName = asm.fullName[t]
  /\ info.attributes = asm.attributes[t]
  /\ DescribesMembers(info.members, t)

\* A list of infos has one for each type of a kind.
OfKind(kind) == {t \in Program : asm.kind[t] = kind}
DescribesKind(infos, kind) ==
  \E o \in [DOMAIN infos -> OfKind(kind)] :
    /\ \A t \in OfKind(kind) : \E i \in DOMAIN infos : o[i] = t
    /\ \A i, j \in DOMAIN infos : o[i] = o[j] => i = j
    /\ \A i \in DOMAIN infos : Describes(infos[i], o[i])

ResultOfProgram ==
  /\ asm \in CollectorProofs!Assembly
  /\ result \in HandedResults
  /\ DescribesKind(result.CollectedObjectInfo, "object")
  /\ DescribesKind(result.CollectedClosedTypeGenericInfo, "generic")
  /\ \A i, j \in DOMAIN result.CollectedObjectInfo : i < j =>
       result.CollectedObjectInfo[i].fullName <= result.CollectedObjectInfo[j].fullName

(* What the analysis reads of a description the collector has made.        *)
LEMMA ReadDescription ==
  ASSUME CollectorProofs!TypeOK, NEW kind \in {"object", "generic"},
         NEW info \in CollectorProofs!DescriptionsOf(asm, kind)
  PROVE  Describes(Read(info), info.type) /\ Read(info) \in Analyzer!ObjectSerializationInfo
<1>1. /\ asm \in CollectorProofs!Assembly
      /\ info.type \in Types /\ asm.kind[info.type] = kind
      /\ info.fullName = asm.fullName[info.type] /\ info.fullName \in Nat
      /\ info.attributes = asm.attributes[info.type] /\ info.attributes \in Seq(Attributes)
      /\ info.members \in Seq(CollectorProofs!Members)
      /\ CollectorProofs!Lists(asm, info.members, info.type,
                               Len(CollectorProofs!Uses(asm, info.type)) + 1)
  BY DEF CollectorProofs!TypeOK, CollectorProofs!DescriptionsOf, CollectorProofs!ObjectInfos
<1>2. PICK t \in Types, members \in Seq(CollectorProofs!Members), n \in Nat :
        /\ t = info.type /\ members = info.members
        /\ n = Len(CollectorProofs!Uses(asm, t))
        /\ DOMAIN CollectorProofs!Uses(asm, t) = 1..n
        /\ \A i \in 1..n : CollectorProofs!Uses(asm, t)[i] \in CollectorProofs!UseRecords
  BY <1>1, CollectorAssumptions, CollectorProofs!UsesType, LenProperties, ElementOfSeq
<1>3. CollectorProofs!ListedUses(asm, t, n + 1) = Members(t)
  <2>1. \A i \in 1..n : i < n + 1
    OBVIOUS
  <2>2. asm.kind[t] # "enum"
    BY <1>1, <1>2
  <2> QED BY <1>2, <2>1, <2>2, SameUses DEF CollectorProofs!ListedUses, Members
<1>4. PICK f \in [DOMAIN members -> Members(t)] :
        /\ \A i \in Members(t) : \E k \in DOMAIN members : f[k] = i
        /\ \A k, l \in DOMAIN members : f[k] = f[l] => k = l
        /\ \A k \in DOMAIN members :
             members[k] = CollectorProofs!MemberSerializationInfo(asm, Member(t, f[k]))
  BY <1>1, <1>2, <1>3, SameUses DEF CollectorProofs!Lists, Member
<1>5. Describes(Read(info), t)
  <2>1. \A k \in DOMAIN members :
          /\ members[k].type = asm.fullName[Member(t, f[k]).type]
          /\ members[k].attributes = Member(t, f[k]).attributes
    BY <1>4 DEF CollectorProofs!MemberSerializationInfo
  <2>2. DescribesMembers(members, t)
    BY <1>4, <2>1 DEF DescribesMembers
  <2> QED BY <1>1, <1>2, <2>2 DEF Describes, Read
<1>6. ASSUME NEW k \in DOMAIN members PROVE members[k] \in Analyzer!MemberSerializationInfo
  <2>1. members[k] \in CollectorProofs!Members
    BY ElementOfSeq, LenProperties
  <2>2. PICK u : /\ u = Member(t, f[k]) /\ u.name \in Names
                 /\ members[k] = CollectorProofs!MemberSerializationInfo(asm, u)
    <3>1. f[k] \in DOMAIN CollectorProofs!Uses(asm, t)
      BY SameUses DEF Members
    <3>2. Member(t, f[k]).via # "argument" /\ Member(t, f[k]) = CollectorProofs!Uses(asm, t)[f[k]]
      BY SameUses DEF Members, Member
    <3>3. Member(t, f[k]).name \in Names
      BY <1>1, <3>1, <3>2, CollectorAssumptions, CollectorProofs!MembersHaveNames
    <3> QED BY <1>4, <3>3
  <2>3. members[k].name \in STRING
    <3>1. members[k].name = u.name
      BY <2>2 DEF CollectorProofs!MemberSerializationInfo
    <3> QED BY <2>2, <3>1, NamesAssumption
  <2>4. members[k].attributes \in Seq(Analyzer!NeutralAttributeData) \cup {Unset}
    BY <2>1, NamesAssumption, SeqMonotonic DEF CollectorProofs!Members
  <2> QED BY <2>1, <2>3, <2>4 DEF CollectorProofs!Members, Analyzer!MemberSerializationInfo
<1>7. Read(info) \in Analyzer!ObjectSerializationInfo
  <2>1. members \in Seq(Analyzer!MemberSerializationInfo)
    <3>1. Len(members) \in Nat /\ DOMAIN members = 1..Len(members)
          /\ members = [k \in 1..Len(members) |-> members[k]]
      BY LenProperties
    <3> HIDE DEF Analyzer!MemberSerializationInfo
    <3> QED BY <1>6, <3>1
  <2>2. info.attributes \in Seq(Analyzer!NeutralAttributeData)
    BY <1>1, NamesAssumption, SeqMonotonic
  <2> QED BY <1>1, <1>2, <2>1, <2>2 DEF Read, Analyzer!ObjectSerializationInfo
<1> QED BY <1>2, <1>5, <1>7

(* A list of what is reported of a kind describes the types of that kind.  *)
LEMMA ReadReports ==
  ASSUME CollectorProofs!TypeOK, alreadyCollected = Program, NEW kind \in {"object", "generic"},
         NEW infos, CollectorProofs!Reports(asm, alreadyCollected, kind, infos)
  PROVE  /\ DescribesKind(ReadAll(infos), kind)
         /\ ReadAll(infos) \in Seq(Analyzer!ObjectSerializationInfo)
         /\ Len(ReadAll(infos)) = Len(infos)
         /\ \A i, j \in DOMAIN ReadAll(infos) : i < j =>
              ReadAll(infos)[i].fullName <= ReadAll(infos)[j].fullName
<1> DEFINE D == CollectorProofs!DescriptionsOf(asm, kind)
           o == [i \in DOMAIN infos |-> infos[i].type]
           read == ReadAll(infos)
<1>1. /\ infos \in Seq(D)
      /\ \A t \in Program : asm.kind[t] = kind => \E i \in DOMAIN infos : infos[i].type = t
      /\ \A i \in DOMAIN infos : infos[i].type \in Program
      /\ \A i, j \in DOMAIN infos : infos[i].type = infos[j].type => i = j
      /\ \A i, j \in DOMAIN infos : i < j => infos[i].fullName <= infos[j].fullName
  BY DEF CollectorProofs!Reports
<1>2. /\ Len(infos) \in Nat /\ DOMAIN infos = 1..Len(infos)
      /\ \A i \in DOMAIN infos : infos[i] \in D
  <2> HIDE DEF D
  <2> QED BY <1>1, LenProperties, ElementOfSeq
<1>3. DOMAIN read = DOMAIN infos /\ \A i \in DOMAIN infos : read[i] = Read(infos[i])
  BY DEF ReadAll
<1>4. \A i \in DOMAIN infos : /\ Describes(Read(infos[i]), infos[i].type)
                              /\ Read(infos[i]) \in Analyzer!ObjectSerializationInfo
                              /\ Read(infos[i]).fullName = infos[i].fullName
  <2>1. \A i \in DOMAIN infos : /\ Describes(Read(infos[i]), infos[i].type)
                                /\ Read(infos[i]) \in Analyzer!ObjectSerializationInfo
    <3> HIDE DEF Analyzer!ObjectSerializationInfo
    <3> QED BY <1>2, ReadDescription
  <2> QED BY <2>1 DEF Read
<1>5. DescribesKind(read, kind)
  <2>1. \A i \in DOMAIN infos : infos[i].type \in OfKind(kind)
    BY <1>1, <1>2 DEF OfKind, CollectorProofs!DescriptionsOf
  <2>2. o \in [DOMAIN read -> OfKind(kind)]
    BY <1>3, <2>1
  <2>3. /\ \A t \in OfKind(kind) : \E i \in DOMAIN read : o[i] = t
        /\ \A i, j \in DOMAIN read : o[i] = o[j] => i = j
    BY <1>1, <1>3 DEF OfKind
  <2>4. \A i \in DOMAIN read : Describes(read[i], o[i])
    BY <1>3, <1>4
  <2> HIDE DEF o, read
  <2> QED BY <2>2, <2>3, <2>4 DEF DescribesKind
<1>6. read \in Seq(Analyzer!ObjectSerializationInfo) /\ Len(read) = Len(infos)
  <2>1. read = [i \in 1..Len(infos) |-> read[i]]
    BY <1>2 DEF ReadAll
  <2>2. \A i \in 1..Len(infos) : read[i] \in Analyzer!ObjectSerializationInfo
    BY <1>2, <1>3, <1>4
  <2> HIDE DEF read, Analyzer!ObjectSerializationInfo
  <2> QED BY <1>2, <2>1, <2>2
<1>7. \A i, j \in DOMAIN read : i < j => read[i].fullName <= read[j].fullName
  BY <1>1, <1>3, <1>4
<1> QED BY <1>5, <1>6, <1>7

(* There are as many descriptions as types, for which the stack is enough. *)
LEMMA ResultDescribes ==
  ASSUME CollectorInv, Handed, status # "collecting", phase = "returned"
  PROVE  ResultOfProgram
<1> DEFINE r == results[1]
<1>1. /\ CollectorProofs!TypeOK /\ phase = "returned" /\ Len(results) = 1
      /\ result = ReadResult(r)
  BY DEF CollectorInv, Handed
<1>2. alreadyCollected = Program
  BY <1>1, SameReachable DEF CollectorInv, CollectorProofs!CollectedIsReachable,
        CollectorProofs!Closure!ReturnsReachable
<1>3. /\ CollectorProofs!Reports(asm, alreadyCollected, "object", r.CollectedObjectInfo)
      /\ CollectorProofs!Reports(asm, alreadyCollected, "generic", r.CollectedClosedTypeGenericInfo)
      /\ Len(r.CollectedObjectInfo) + Len(r.CollectedClosedTypeGenericInfo)
           <= Cardinality(alreadyCollected)
  BY <1>1 DEF CollectorInv, CollectorProofs!ReportInv, CollectorProofs!Cardinality, Cardinality
<1>4. /\ result.CollectedObjectInfo = ReadAll(r.CollectedObjectInfo)
      /\ result.CollectedClosedTypeGenericInfo = ReadAll(r.CollectedClosedTypeGenericInfo)
      /\ result = [CollectedObjectInfo |-> ReadAll(r.CollectedObjectInfo),
                   CollectedClosedTypeGenericInfo |-> ReadAll(r.CollectedClosedTypeGenericInfo)]
  BY <1>1 DEF ReadResult
<1> HIDE DEF r
<1>5. /\ DescribesKind(result.CollectedObjectInfo, "object")
      /\ DescribesKind(result.CollectedClosedTypeGenericInfo, "generic")
      /\ result.CollectedObjectInfo \in Seq(Analyzer!ObjectSerializationInfo)
      /\ result.CollectedClosedTypeGenericInfo \in Seq(Analyzer!ObjectSerializationInfo)
      /\ Len(result.CollectedObjectInfo) = Len(r.CollectedObjectInfo)
      /\ Len(result.CollectedClosedTypeGenericInfo) = Len(r.CollectedClosedTypeGenericInfo)
      /\ \A i, j \in DOMAIN result.CollectedObjectInfo : i < j =>
           result.CollectedObjectInfo[i].fullName <= result.CollectedObjectInfo[j].fullName
  BY <1>1, <1>2, <1>3, <1>4, ReadReports
<1>6. Cardinality(alreadyCollected) <= MaxDepth
  <2>1. alreadyCollected \subseteq Types
    BY <1>1 DEF CollectorProofs!TypeOK
  <2>2. /\ Cardinality(alreadyCollected) <= Cardinality(Types)
        /\ Cardinality(alreadyCollected) \in Nat /\ Cardinality(Types) \in Nat
    BY <2>1, DepthAssumption, FS_Subset, FS_CardinalityType
  <2> QED BY <2>2, DepthAssumption
<1>7. Len(result.CollectedObjectInfo) + Len(result.CollectedClosedTypeGenericInfo) <= MaxDepth
  <2>1. /\ Len(result.CollectedObjectInfo) \in Nat
        /\ Len(result.CollectedClosedTypeGenericInfo) \in Nat
    BY <1>5, LenProperties
  <2>2. Cardinality(alreadyCollected) \in Nat
    BY <1>1, DepthAssumption, FS_Subset, FS_CardinalityType DEF CollectorProofs!TypeOK
  <2>3. \A a, b, c, m \in Nat : a + b <= c /\ c <= m => a + b <= m
    OBVIOUS
  <2>4. Len(result.CollectedObjectInfo) + Len(result.CollectedClosedTypeGenericInfo)
          <= Cardinality(alreadyCollected)
    BY <1>3, <1>5
  <2> QED BY <1>6, <2>1, <2>2, <2>3, <2>4, DepthAssumption
<1>8. result \in HandedResults
  BY <1>4, <1>5, <1>7 DEF HandedResults, Analyzer!TypeCollectorResult
<1> QED BY <1>1, <1>5, <1>8 DEF ResultOfProgram, CollectorProofs!TypeOK

-----------------------------------------------------------------------------
(* What the proofs of the analysis give, from the moment it begins.        *)

AnalyzerInv ==
  /\ AnalyzerProofs!AnalysisInv /\ AnalyzerProofs!FilingInv
  /\ AnalyzerProofs!FailuresHaveACause /\ AnalyzerProofs!RecursionEndsUnlessRecursive
  /\ AnalyzerProofs!DescribedMembersLinked

(* The steps of the analysis under either name.                            *)
LEMMA SameInstanceSteps == Analyzer!Next => AnalyzerProofs!Next
<1>1. /\ Analyzer!Infos = AnalyzerProofs!Infos /\ (Analyzer!AtInfo <=> AnalyzerProofs!AtInfo)
      /\ (Analyzer!AtMember <=> AnalyzerProofs!AtMember)
      /\ (Analyzer!InDataSet <=> AnalyzerProofs!InDataSet)
      /\ (Analyzer!InModel <=> AnalyzerProofs!InModel)
      /\ Analyzer!MemberType = AnalyzerProofs!MemberType /\ Analyzer!Top = AnalyzerProofs!Top
      /\ Analyzer!Callers = AnalyzerProofs!Callers
      /\ Analyzer!EachMember = AnalyzerProofs!EachMember
      /\ (Analyzer!AtEachMember <=> AnalyzerProofs!AtEachMember)
  BY DEF Analyzer!Infos, Analyzer!AtInfo, Analyzer!AtMember, Analyzer!InDataSet,
         Analyzer!InModel, Analyzer!MemberType, Analyzer!Top, Analyzer!Callers,
         Analyzer!EachMember, Analyzer!AtEachMember, Analyzer!Running, AnalyzerProofs!Infos,
         AnalyzerProofs!AtInfo, AnalyzerProofs!AtMember, AnalyzerProofs!InDataSet,
         AnalyzerProofs!InModel, AnalyzerProofs!MemberType, AnalyzerProofs!Top,
         AnalyzerProofs!Callers, AnalyzerProofs!EachMember, AnalyzerProofs!AtEachMember,
         AnalyzerProofs!Running
<1>2. /\ \A r, type : Analyzer!IsDescribed(r, type) <=> AnalyzerProofs!IsDescribed(r, type)
      /\ \A r, type : Analyzer!GetObjectInfo(r, type) = AnalyzerProofs!GetObjectInfo(r, type)
      /\ \A info, callers :
           Analyzer!MakeStadModel(info, callers) <=> AnalyzerProofs!MakeStadModel(info, callers)
      /\ \A models, type : Analyzer!HasModel(models, type) <=> AnalyzerProofs!HasModel(models, type)
      /\ \A models, type : Analyzer!ModelOf(models, type) = AnalyzerProofs!ModelOf(models, type)
      /\ \A a : Analyzer!AnnotationInfo(a) = AnalyzerProofs!AnnotationInfo(a)
      /\ Analyzer!Throw <=> AnalyzerProofs!Throw
  BY DEF Analyzer!IsDescribed, Analyzer!IsDescribedIn, Analyzer!GetObjectInfo, Analyzer!InfoIn,
         Analyzer!First, Analyzer!MakeStadModel, Analyzer!HasModel, Analyzer!ModelOf,
         Analyzer!AnnotationInfo, Analyzer!IsAnnotation, Analyzer!SwitchLabels,
         Analyzer!NoModel, Analyzer!Throw, Analyzer!loops,
         AnalyzerProofs!IsDescribed, AnalyzerProofs!IsDescribedIn, AnalyzerProofs!GetObjectInfo,
         AnalyzerProofs!InfoIn, AnalyzerProofs!First, AnalyzerProofs!MakeStadModel,
         AnalyzerProofs!HasModel, AnalyzerProofs!ModelOf, AnalyzerProofs!AnnotationInfo,
         AnalyzerProofs!IsAnnotation, AnalyzerProofs!SwitchLabels, AnalyzerProofs!NoModel,
         AnalyzerProofs!Throw, AnalyzerProofs!loops
<1>3. Analyzer!SkipInfo \/ Analyzer!EnterDataSet => AnalyzerProofs!SkipInfo \/ AnalyzerProofs!EnterDataSet
  BY <1>1, SameTests DEF Analyzer!SkipInfo, Analyzer!EnterDataSet, AnalyzerProofs!SkipInfo,
         AnalyzerProofs!EnterDataSet
<1>4. Analyzer!MemberNotFound => AnalyzerProofs!MemberNotFound
  BY <1>1, <1>2 DEF Analyzer!MemberNotFound, AnalyzerProofs!MemberNotFound
<1>5. Analyzer!IgnoreMember => AnalyzerProofs!IgnoreMember
  BY <1>1, <1>2, SameTests DEF Analyzer!IgnoreMember, AnalyzerProofs!IgnoreMember
<1>6. Analyzer!MakeMemberModel => AnalyzerProofs!MakeMemberModel
  BY <1>1, <1>2, SameTests DEF Analyzer!MakeMemberModel, AnalyzerProofs!MakeMemberModel
<1>7. Analyzer!DefineMember => AnalyzerProofs!DefineMember
  <2>1. \A m : Analyzer!MemberDefinition(m) = AnalyzerProofs!MemberDefinition(m)
    BY <1>2, SameTests DEF Analyzer!MemberDefinition, AnalyzerProofs!MemberDefinition
  <2> QED
    BY <1>1, <1>2, <2>1, SameTests DEF Analyzer!DefineMember, AnalyzerProofs!DefineMember
<1>8. /\ Analyzer!MemberNotHandled => AnalyzerProofs!MemberNotHandled
      /\ Analyzer!TypeNotHandled => AnalyzerProofs!TypeNotHandled
  BY <1>1, <1>2, SameTests DEF Analyzer!MemberNotHandled, AnalyzerProofs!MemberNotHandled,
         Analyzer!TypeNotHandled, AnalyzerProofs!TypeNotHandled
<1>9. Analyzer!FinishModel => AnalyzerProofs!FinishModel
  BY <1>1, <1>2, SameTests DEF Analyzer!FinishModel, AnalyzerProofs!FinishModel
<1>10. Analyzer!LinkDataSet => AnalyzerProofs!LinkDataSet
  <2>1. \A models, m : Analyzer!Linked(models, m) = AnalyzerProofs!Linked(models, m)
    BY <1>2 DEF Analyzer!Linked, AnalyzerProofs!Linked
  <2> QED BY <1>1, <2>1 DEF Analyzer!LinkDataSet, AnalyzerProofs!LinkDataSet
<1>11. Analyzer!ReturnRegistry => AnalyzerProofs!ReturnRegistry
  BY DEF Analyzer!ReturnRegistry, AnalyzerProofs!ReturnRegistry, Analyzer!Running,
         AnalyzerProofs!Running, Analyzer!Infos, AnalyzerProofs!Infos, Analyzer!loops,
         AnalyzerProofs!loops
<1> QED
  BY <1>3, <1>4, <1>5, <1>6, <1>7, <1>8, <1>9, <1>10, <1>11
     DEF Analyzer!Next, AnalyzerProofs!Next

(* The analysis begins with what Collect has returned.                     *)
LEMMA BeginsInInv == AnalyzerProofs!Init => AnalyzerInv
<1>1. AnalyzerProofs!Init => AnalyzerProofs!AnalysisInv
  BY AnalyzerAssumptions, AnalyzerProofs!AnalysisInit
<1>2. AnalyzerProofs!Init => AnalyzerProofs!FilingInv
  BY AnalyzerAssumptions, AnalyzerProofs!FilingInit
<1>3. AnalyzerProofs!Init => /\ AnalyzerProofs!FailuresHaveACause
                             /\ AnalyzerProofs!RecursionEndsUnlessRecursive
                             /\ AnalyzerProofs!DescribedMembersLinked
  BY DEF AnalyzerProofs!Init, AnalyzerProofs!FailuresHaveACause,
         AnalyzerProofs!RecursionEndsUnlessRecursive, AnalyzerProofs!DescribedMembersLinked
<1> QED BY <1>1, <1>2, <1>3 DEF AnalyzerInv

LEMMA BeginsInInvNext == AnalyzerProofs!Init' => AnalyzerInv'
BY BeginsInInv, PTL

LEMMA AnalysisBegins ==
  ASSUME Handed, result' \in HandedResults, Collected
  PROVE  AnalyzerInv'
<1>1. status = "collecting"
  BY DEF Collected, Collector!ReturnResult, Handed
<1>2. AnalyzerProofs!Init'
  BY <1>1 DEF Collected, Handed, modelVars, AnalyzerProofs!Init
<1> QED BY <1>2, BeginsInInvNext

LEMMA AnalysisGoesOn ==
  ASSUME AnalyzerInv, [AnalyzerProofs!Next]_(AnalyzerProofs!vars)
  PROVE  AnalyzerInv'
<1>1. AnalyzerProofs!AnalysisInv'
  BY AnalyzerAssumptions, AnalyzerProofs!AnalysisNext DEF AnalyzerInv
<1>2. AnalyzerProofs!FilingInv'
  BY AnalyzerAssumptions, AnalyzerProofs!FilingStep DEF AnalyzerInv
<1>3. AnalyzerProofs!FailuresHaveACause'
  BY AnalyzerAssumptions, AnalyzerProofs!CausesStep DEF AnalyzerInv
<1>4. AnalyzerProofs!RecursionEndsUnlessRecursive'
  BY AnalyzerAssumptions, AnalyzerProofs!RecursionStep DEF AnalyzerInv
<1>5. AnalyzerProofs!DescribedMembersLinked'
  BY AnalyzerAssumptions, AnalyzerProofs!LinkedStep DEF AnalyzerInv
<1> QED BY <1>1, <1>2, <1>3, <1>4, <1>5 DEF AnalyzerInv

\* Collect has returned and its result is being analyzed, or was.
Begun == status # "collecting" /\ phase = "returned"
Analyzed == Begun => AnalyzerInv

LEMMA AnalyzedStep ==
  Handed /\ Analyzed /\ (Begun' => result' \in HandedResults) /\ [Next]_vars => Analyzed'
<1> SUFFICES ASSUME Handed, Analyzed, Begun' => result' \in HandedResults, [Next]_vars, Begun'
             PROVE  AnalyzerInv'
  BY DEF Analyzed
<1>1. CASE Collected
  BY <1>1, AnalysisBegins
<1>2. CASE Analyzing
  <2>1. status = "running"
    BY <1>2, AnalyzerSteps DEF Analyzing
  <2>2. Begun
    BY <2>1 DEF Handed, Begun
  <2> QED BY <1>2, <2>2, SameInstanceSteps, AnalysisGoesOn DEF Analyzing, Analyzed
<1>3. CASE UNCHANGED vars
  <2>1. UNCHANGED AnalyzerProofs!vars
    BY <1>3 DEF vars, modelVars, AnalyzerProofs!vars, AnalyzerProofs!loops
  <2>2. Begun
    BY <1>3 DEF Begun, vars, collectorVars
  <2> QED BY <2>1, <2>2, AnalysisGoesOn DEF Analyzed
<1>4. ~Collecting
  BY DEF Collecting, Begun
<1>5. ~CollectThrows
  BY DEF CollectThrows, Collector!Throw, Collector!EnumThrows, Collector!MemberThrows,
         Collector!InfoThrows, Collector!Unwind, Begun
<1> QED BY <1>1, <1>2, <1>3, <1>4, <1>5 DEF Next

RegistryInvariant ==
  /\ status # "collecting" => Begun \/ (phase = "threw" /\ status = "threw")
  /\ phase = "threw" => \E t \in Program : ~Collector!IsDescribable(asm, t)
  /\ Begun => /\ \A t \in Program : Collector!IsDescribable(asm, t)
              /\ ResultOfProgram /\ AnalyzerInv

LEMMA RegistryHolds == Spec => []RegistryInvariant
<1>1. Init => Analyzed
  BY DEF Init, Analyzed, Begun
<1>2. CollectorInv /\ Handed => (Begun => ResultOfProgram)
  BY ResultDescribes DEF Begun
<1>3. (Begun => ResultOfProgram)' => (Begun' => result' \in HandedResults)
  BY DEF ResultOfProgram
<1>4. CollectorInv /\ Handed /\ (Begun => ResultOfProgram) /\ Analyzed => RegistryInvariant
  BY SameReachable, SameUses
     DEF CollectorInv, CollectorProofs!ThrowsHaveCause, Handed, Begun, Analyzed, RegistryInvariant
<1> QED
  BY <1>1, <1>2, <1>3, <1>4, AnalyzedStep, CollectorHolds, HandedHolds, PTL DEF Spec

-----------------------------------------------------------------------------
(* Where the names of the types that are looked at are distinct, what the  *)
(* analysis reads in a result is told of the program.                      *)

Described == {t \in Program : ~IsEnum(t)}
NamesOf(S) == {asm.fullName[t] : t \in S}

LEMMA ProgramFacts ==
  ASSUME ResultOfProgram
  PROVE  /\ Program \subseteq Types
         /\ \A t \in Types : asm.fullName[t] \in Nat
         /\ Described = OfKind("object") \cup OfKind("generic")
         /\ DataSets \subseteq OfKind("object")
         /\ \A t \in Program : TypesOfMembers(t) \subseteq Program
         /\ \A t \in Program : LeadsTo(t) \subseteq Described
<1>1. asm \in CollectorProofs!Assembly /\ Program \subseteq Types
  BY DEF ResultOfProgram, Program, Collector!Closure!Reachable
<1>2. Described = OfKind("object") \cup OfKind("generic")
  BY <1>1 DEF Described, OfKind, IsEnum, CollectorProofs!Assembly
<1>3. ASSUME NEW t \in Program PROVE TypesOfMembers(t) \subseteq Program
  <2>1. TypesOfMembers(t) \subseteq Collector!UsedTypes(asm, t)
    <3>1. asm.kind[t] # "enum" => TypesOfMembers(t) \subseteq Collector!UsedTypes(asm, t)
      BY DEF TypesOfMembers, Members, Member, Collector!UsedTypes
    <3> QED BY <3>1 DEF TypesOfMembers, Members
  <2>2. Collector!UsedTypes(asm, t) \subseteq Types
    BY <1>1, CollectorAssumptions, CollectorProofs!UsedTypesType, SameUses
  <2>3. ASSUME NEW u \in Collector!UsedTypes(asm, t), NEW S \in SUBSET Types,
               Collector!Closure!IsClosed(S)
        PROVE  u \in S
    <3>1. t \in S
      BY <2>3 DEF Program, Collector!Closure!Reachable
    <3> QED BY <3>1, <2>3, <1>1 DEF Collector!Closure!IsClosed
  <2> QED BY <2>1, <2>2, <2>3 DEF Program, Collector!Closure!Reachable
<1>4. \A t \in Program : LeadsTo(t) \subseteq Described
  BY <1>3 DEF LeadsTo, Described
<1> QED BY <1>1, <1>2, <1>3, <1>4 DEF CollectorProofs!Assembly, DataSets, OfKind

(* The types a data set leads to are described, and looked at.             *)
LEMMA ReachedFacts ==
  ASSUME ResultOfProgram
  PROVE  /\ Modelled \subseteq ModelledOrReached /\ ModelledOrReached \subseteq Described
         /\ \A t \in ModelledOrReached : LeadsTo(t) \subseteq ModelledOrReached
         /\ ModelledOrReached \subseteq LookedAt /\ DataSets \subseteq LookedAt
         /\ \A t \in DataSets \cup ModelledOrReached : TypesOfMembers(t) \subseteq LookedAt
         /\ LookedAt \subseteq Program
<1>1. /\ Described \subseteq Types /\ DataSets \subseteq Program
      /\ \A t \in Program : TypesOfMembers(t) \subseteq Program
      /\ \A t \in Described : LeadsTo(t) \subseteq Described
  BY ProgramFacts DEF Described, DataSets
<1>2. Modelled \subseteq Described /\ Modelled \subseteq UNION {TypesOfMembers(t) : t \in DataSets}
  BY <1>1 DEF Modelled, LeadsTo, Described
<1>3. Modelled \subseteq ModelledOrReached /\ ModelledOrReached \subseteq Described
  BY <1>1, <1>2 DEF ModelledOrReached
<1>4. ASSUME NEW t \in ModelledOrReached, NEW u \in LeadsTo(t) PROVE u \in ModelledOrReached
  <2>1. u \in Types
    BY <1>1, <1>3, <1>4
  <2>2. ASSUME NEW S \in SUBSET Types, Modelled \subseteq S, \A v \in S : LeadsTo(v) \subseteq S
        PROVE  u \in S
    <3>1. t \in S
      BY <2>2 DEF ModelledOrReached
    <3> QED BY <2>2, <3>1, <1>4
  <2> QED BY <2>1, <2>2 DEF ModelledOrReached
<1>5. ModelledOrReached \subseteq LookedAt
  <2> DEFINE S == {u \in ModelledOrReached : u \in LookedAt}
  <2>1. \A u \in S : LeadsTo(u) \subseteq S
    BY <1>4 DEF LookedAt, LeadsTo
  <2>2. Modelled \subseteq S /\ S \in SUBSET Types
    BY <1>1, <1>2, <1>3 DEF LookedAt
  <2> HIDE DEF S
  <2>3. \A t \in ModelledOrReached : t \in S
    BY <2>1, <2>2 DEF ModelledOrReached
  <2> QED BY <2>3 DEF S
<1>6. LookedAt \subseteq Program
  BY <1>1, <1>3 DEF LookedAt, Described
<1> QED BY <1>3, <1>4, <1>5, <1>6 DEF LookedAt

(* A type is described exactly if it is no enum, by its own description.   *)
LEMMA NamedFacts ==
  ASSUME ResultOfProgram, NamesDistinct, NEW t \in LookedAt
  PROVE  /\ AnalyzerProofs!IsDescribed(result, asm.fullName[t]) <=> ~IsEnum(t)
         /\ ~IsEnum(t) => Describes(AnalyzerProofs!GetObjectInfo(result, asm.fullName[t]), t)
<1> DEFINE objects == result.CollectedObjectInfo
           generics == result.CollectedClosedTypeGenericInfo
           name == asm.fullName[t]
<1>0. t \in Program
  BY ReachedFacts
<1>1. PICK o \in [DOMAIN objects -> OfKind("object")] :
        /\ \A u \in OfKind("object") : \E i \in DOMAIN objects : o[i] = u
        /\ \A i \in DOMAIN objects : Describes(objects[i], o[i])
  BY DEF ResultOfProgram, DescribesKind
<1>2. PICK g \in [DOMAIN generics -> OfKind("generic")] :
        /\ \A u \in OfKind("generic") : \E i \in DOMAIN generics : g[i] = u
        /\ \A i \in DOMAIN generics : Describes(generics[i], g[i])
  BY DEF ResultOfProgram, DescribesKind
<1>3. /\ \A i \in DOMAIN objects : objects[i].fullName = name <=> o[i] = t
      /\ \A i \in DOMAIN generics : generics[i].fullName = name <=> g[i] = t
  BY <1>1, <1>2 DEF Describes, NamesDistinct, OfKind
<1>4. AnalyzerProofs!IsDescribed(result, name) <=> ~IsEnum(t)
  <2>1. AnalyzerProofs!IsDescribed(result, name) <=>
          \/ \E i \in DOMAIN objects : o[i] = t
          \/ \E i \in DOMAIN generics : g[i] = t
    BY <1>3 DEF AnalyzerProofs!IsDescribed, AnalyzerProofs!IsDescribedIn
  <2>2. ~IsEnum(t) <=> t \in OfKind("object") \/ t \in OfKind("generic")
    BY <1>0, ProgramFacts DEF Described
  <2> QED BY <1>1, <1>2, <2>1, <2>2
<1>5. ASSUME AnalyzerProofs!IsDescribed(result, name)
      PROVE  Describes(AnalyzerProofs!GetObjectInfo(result, name), t)
  <2>1. /\ AnalyzerProofs!GetObjectInfo(result, name).fullName = name
        /\ \/ \E i \in DOMAIN objects : AnalyzerProofs!GetObjectInfo(result, name) = objects[i]
           \/ \E i \in DOMAIN generics : AnalyzerProofs!GetObjectInfo(result, name) = generics[i]
    BY <1>5, AnalyzerAssumptions, AnalyzerProofs!GetObjectInfoFacts DEF ResultOfProgram
  <2> QED BY <1>1, <1>2, <1>3, <2>1
<1> QED BY <1>4, <1>5

(* What a list of members mentions, and whether it carries an attribute    *)
(* that is not handled.                                                    *)
LEMMA MembersFacts ==
  ASSUME NEW t, NEW members, DescribesMembers(members, t)
  PROVE  /\ {members[k].type : k \in DOMAIN members} = NamesOf(TypesOfMembers(t))
         /\ (\E k \in DOMAIN members : AnalyzerProofs!IsNotHandled(members[k].attributes))
              <=> (\E i \in Members(t) : Analyzer!IsNotHandled(Member(t, i).attributes))
<1>1. PICK f \in [DOMAIN members -> Members(t)] :
        /\ \A i \in Members(t) : \E k \in DOMAIN members : f[k] = i
        /\ \A k \in DOMAIN members :
             /\ members[k].type = asm.fullName[Member(t, f[k]).type]
             /\ members[k].attributes = Member(t, f[k]).attributes
  BY DEF DescribesMembers
<1>2. {members[k].type : k \in DOMAIN members} = NamesOf(TypesOfMembers(t))
  <2>1. ASSUME NEW k \in DOMAIN members PROVE members[k].type \in NamesOf(TypesOfMembers(t))
    BY <1>1 DEF NamesOf, TypesOfMembers
  <2>2. ASSUME NEW u \in TypesOfMembers(t)
        PROVE  \E k \in DOMAIN members : members[k].type = asm.fullName[u]
    BY <1>1 DEF TypesOfMembers
  <2> QED BY <2>1, <2>2 DEF NamesOf
<1> QED BY <1>1, <1>2, SameTests

LEMMA DescribedNames ==
  ASSUME ResultOfProgram
  PROVE  AnalyzerProofs!Described(result) = NamesOf(Described)
<1> DEFINE objects == result.CollectedObjectInfo
           generics == result.CollectedClosedTypeGenericInfo
<1>1. PICK o \in [DOMAIN objects -> OfKind("object")] :
        /\ \A u \in OfKind("object") : \E i \in DOMAIN objects : o[i] = u
        /\ \A i \in DOMAIN objects : objects[i].fullName = asm.fullName[o[i]]
  BY DEF ResultOfProgram, DescribesKind, Describes
<1>2. PICK g \in [DOMAIN generics -> OfKind("generic")] :
        /\ \A u \in OfKind("generic") : \E i \in DOMAIN generics : g[i] = u
        /\ \A i \in DOMAIN generics : generics[i].fullName = asm.fullName[g[i]]
  BY DEF ResultOfProgram, DescribesKind, Describes
<1>3. Described = OfKind("object") \cup OfKind("generic")
  BY ProgramFacts
<1>4. ASSUME NEW t \in Described PROVE asm.fullName[t] \in AnalyzerProofs!Described(result)
  BY <1>1, <1>2, <1>3 DEF AnalyzerProofs!Described
<1>5. ASSUME NEW type \in AnalyzerProofs!Described(result) PROVE type \in NamesOf(Described)
  BY <1>1, <1>2, <1>3 DEF AnalyzerProofs!Described, NamesOf
<1> QED BY <1>4, <1>5 DEF NamesOf

(* What the analysis reads of a type that a data set leads to.             *)
LEMMA MentionsNames ==
  ASSUME ResultOfProgram, NamesDistinct, NEW t \in ModelledOrReached
  PROVE  /\ AnalyzerProofs!Mentions(result, asm.fullName[t]) = NamesOf(LeadsTo(t))
         /\ AnalyzerProofs!HasUnhandled(AnalyzerProofs!GetObjectInfo(result, asm.fullName[t]))
              <=> IsUnhandled(t)
<1> DEFINE info == AnalyzerProofs!GetObjectInfo(result, asm.fullName[t])
<1>1. t \in LookedAt /\ t \in Described /\ Describes(info, t)
  BY ReachedFacts, NamedFacts DEF Described
<1> HIDE DEF info
<1>2. {info.members[k].type : k \in DOMAIN info.members} = NamesOf(TypesOfMembers(t))
  BY <1>1, MembersFacts DEF Describes
<1>3. \A u \in TypesOfMembers(t) : asm.fullName[u] \in NamesOf(Described) <=> ~IsEnum(u)
  <2>1. \A u \in TypesOfMembers(t) : u \in LookedAt /\ u \in Program
    BY ReachedFacts
  <2> QED BY <2>1 DEF NamesOf, Described, NamesDistinct
<1>4. NamesOf(TypesOfMembers(t)) \cap NamesOf(Described) = NamesOf(LeadsTo(t))
  BY <1>3 DEF NamesOf, LeadsTo
<1>5. AnalyzerProofs!Mentions(result, asm.fullName[t]) = NamesOf(LeadsTo(t))
  BY <1>2, <1>4, DescribedNames DEF AnalyzerProofs!Mentions, info
<1>6. AnalyzerProofs!HasUnhandled(info) <=> IsUnhandled(t)
  <2>1. (\E k \in DOMAIN info.members : AnalyzerProofs!IsNotHandled(info.members[k].attributes))
          <=> (\E i \in Members(t) : Analyzer!IsNotHandled(Member(t, i).attributes))
    BY <1>1, MembersFacts DEF Describes
  <2> QED BY <1>1, <2>1, SameTests DEF AnalyzerProofs!HasUnhandled, IsUnhandled, Describes
<1> QED BY <1>5, <1>6 DEF info

LEMMA IgnoredFacts ==
  ASSUME ResultOfProgram, NamesDistinct, NEW t \in LookedAt
  PROVE  AnalyzerProofs!IsIgnored(result, asm.fullName[t]) <=> IsIgnored(t)
BY NamedFacts, SameTests DEF AnalyzerProofs!IsIgnored, IsIgnored, Describes

(* The infos that define a data set are those of the data sets.            *)
LEMMA DataSetFacts ==
  ASSUME ResultOfProgram
  PROVE  \E o \in [DOMAIN result.CollectedObjectInfo -> OfKind("object")] :
           /\ \A t \in DataSets : \E d \in AnalyzerProofs!DataSetInfos(result) : o[d] = t
           /\ \A d \in AnalyzerProofs!DataSetInfos(result) : o[d] \in DataSets
           /\ \A i, j \in DOMAIN result.CollectedObjectInfo : o[i] = o[j] => i = j
           /\ \A i \in DOMAIN result.CollectedObjectInfo :
                Describes(result.CollectedObjectInfo[i], o[i])
<1> DEFINE infos == result.CollectedObjectInfo
<1>1. PICK o \in [DOMAIN infos -> OfKind("object")] :
        /\ \A u \in OfKind("object") : \E i \in DOMAIN infos : o[i] = u
        /\ \A i, j \in DOMAIN infos : o[i] = o[j] => i = j
        /\ \A i \in DOMAIN infos : Describes(infos[i], o[i])
  BY DEF ResultOfProgram, DescribesKind
<1>2. \A i \in DOMAIN infos : i \in AnalyzerProofs!DataSetInfos(result) <=> o[i] \in DataSets
  BY <1>1, SameTests DEF AnalyzerProofs!DataSetInfos, DataSets, OfKind, Describes
<1>3. \A t \in DataSets : \E d \in AnalyzerProofs!DataSetInfos(result) : o[d] = t
  BY <1>1, <1>2, ProgramFacts
<1>4. \A d \in AnalyzerProofs!DataSetInfos(result) : o[d] \in DataSets
  BY <1>2 DEF AnalyzerProofs!DataSetInfos
<1> QED BY <1>1, <1>3, <1>4

LEMMA MemberTypesNames ==
  ASSUME ResultOfProgram, NamesDistinct
  PROVE  /\ AnalyzerProofs!MemberTypes(result) = NamesOf(UNION {TypesOfMembers(d) : d \in DataSets})
         /\ AnalyzerProofs!ModelledTypes(result) = NamesOf(Modelled)
<1> DEFINE infos == result.CollectedObjectInfo
           T == UNION {TypesOfMembers(d) : d \in DataSets}
<1>1. PICK o \in [DOMAIN infos -> OfKind("object")] :
        /\ \A t \in DataSets : \E d \in AnalyzerProofs!DataSetInfos(result) : o[d] = t
        /\ \A d \in AnalyzerProofs!DataSetInfos(result) : o[d] \in DataSets
        /\ \A i \in DOMAIN infos : Describes(infos[i], o[i])
  BY DataSetFacts
<1>2. ASSUME NEW d \in AnalyzerProofs!DataSetInfos(result)
      PROVE  {infos[d].members[k].type : k \in DOMAIN infos[d].members}
               = NamesOf(TypesOfMembers(o[d]))
  <2>1. DescribesMembers(infos[d].members, o[d])
    BY <1>1 DEF Describes, AnalyzerProofs!DataSetInfos
  <2> QED BY <2>1, MembersFacts
<1>3. AnalyzerProofs!MemberTypes(result) = NamesOf(T)
  <2>1. ASSUME NEW n \in AnalyzerProofs!MemberTypes(result) PROVE n \in NamesOf(T)
    <3>1. PICK d \in AnalyzerProofs!DataSetInfos(result) :
            n \in {infos[d].members[k].type : k \in DOMAIN infos[d].members}
      BY DEF AnalyzerProofs!MemberTypes, AnalyzerProofs!MembersIn
    <3>2. n \in NamesOf(TypesOfMembers(o[d])) /\ o[d] \in DataSets
      BY <1>1, <1>2, <3>1
    <3> QED BY <3>2 DEF NamesOf
  <2>2. ASSUME NEW n \in NamesOf(T) PROVE n \in AnalyzerProofs!MemberTypes(result)
    <3>1. PICK t \in DataSets : n \in NamesOf(TypesOfMembers(t))
      BY DEF NamesOf
    <3>2. PICK d \in AnalyzerProofs!DataSetInfos(result) : o[d] = t
      BY <1>1
    <3>3. n \in {infos[d].members[k].type : k \in DOMAIN infos[d].members}
      BY <1>2, <3>1, <3>2
    <3> QED BY <3>3 DEF AnalyzerProofs!MemberTypes, AnalyzerProofs!MembersIn
  <2> QED BY <2>1, <2>2
<1>4. T \subseteq LookedAt
  BY ReachedFacts
<1>5. Modelled = {u \in T : ~IsEnum(u) /\ ~IsIgnored(u)}
  BY DEF Modelled, LeadsTo
<1>6. \A u \in T :
        AnalyzerProofs!IsDescribed(result, asm.fullName[u])
          /\ ~AnalyzerProofs!IsIgnored(result, asm.fullName[u])
        <=> ~IsEnum(u) /\ ~IsIgnored(u)
  BY <1>4, NamedFacts, IgnoredFacts
<1> HIDE DEF T
<1>7. AnalyzerProofs!ModelledTypes(result) = NamesOf(Modelled)
  BY <1>3, <1>5, <1>6 DEF AnalyzerProofs!ModelledTypes, NamesOf
<1> QED BY <1>3, <1>7 DEF T

LEMMA ReachedNames ==
  ASSUME ResultOfProgram, NamesDistinct
  PROVE  AnalyzerProofs!ReachedTypes(result) = NamesOf(ModelledOrReached)
<1>1. /\ Modelled \subseteq ModelledOrReached /\ ModelledOrReached \subseteq Described
      /\ ModelledOrReached \subseteq Types
      /\ \A t \in ModelledOrReached : LeadsTo(t) \subseteq ModelledOrReached
  BY ReachedFacts DEF ModelledOrReached
<1>2. AnalyzerProofs!ModelledTypes(result) = NamesOf(Modelled)
  BY MemberTypesNames
<1>3. ASSUME NEW t \in ModelledOrReached
      PROVE  asm.fullName[t] \in AnalyzerProofs!ReachedTypes(result)
  <2>1. SUFFICES ASSUME NEW S \in SUBSET AnalyzerProofs!Described(result),
                        AnalyzerProofs!ModelledTypes(result) \subseteq S,
                        \A u \in S : AnalyzerProofs!Mentions(result, u) \subseteq S
                 PROVE  asm.fullName[t] \in S
    BY <1>1, DescribedNames DEF AnalyzerProofs!ReachedTypes, NamesOf
  <2> DEFINE R == {u \in ModelledOrReached : asm.fullName[u] \in S}
  <2>2. Modelled \subseteq R
    BY <2>1, <1>1, <1>2 DEF NamesOf
  <2>3. ASSUME NEW u \in R PROVE LeadsTo(u) \subseteq R
    <3>1. NamesOf(LeadsTo(u)) \subseteq S
      BY <2>1, MentionsNames
    <3> QED BY <3>1, <1>1 DEF NamesOf
  <2>4. R \in SUBSET Types
    BY <1>1
  <2> HIDE DEF R
  <2>5. t \in R
    BY <2>2, <2>3, <2>4 DEF ModelledOrReached
  <2> QED BY <2>5 DEF R
<1>4. ASSUME NEW n \in AnalyzerProofs!ReachedTypes(result)
      PROVE  n \in NamesOf(ModelledOrReached)
  <2> DEFINE R == NamesOf(ModelledOrReached)
  <2>1. R \in SUBSET AnalyzerProofs!Described(result)
    BY <1>1, DescribedNames DEF NamesOf
  <2>2. AnalyzerProofs!ModelledTypes(result) \subseteq R
    BY <1>1, <1>2 DEF NamesOf
  <2>3. ASSUME NEW m \in R PROVE AnalyzerProofs!Mentions(result, m) \subseteq R
    <3>1. PICK u \in ModelledOrReached : m = asm.fullName[u]
      BY DEF NamesOf
    <3>2. LeadsTo(u) \subseteq ModelledOrReached
      BY <1>1
    <3> QED BY <3>1, <3>2, MentionsNames DEF NamesOf
  <2> HIDE DEF R
  <2>4. n \in R
    BY <2>1, <2>2, <2>3 DEF AnalyzerProofs!ReachedTypes
  <2> QED BY <2>4 DEF R
<1> QED BY <1>3, <1>4 DEF NamesOf

LEMMA RecursiveFacts ==
  ASSUME ResultOfProgram, NamesDistinct, NEW t \in ModelledOrReached
  PROVE  AnalyzerProofs!IsRecursive(result, asm.fullName[t]) <=> IsRecursive(t)
<1>1. /\ ModelledOrReached \subseteq Described /\ ModelledOrReached \subseteq Types
      /\ \A u \in ModelledOrReached : LeadsTo(u) \subseteq ModelledOrReached
  BY ReachedFacts DEF ModelledOrReached
<1>2. ASSUME NEW S \in SUBSET Types, t \in S, \A u \in S : LeadsTo(u) \cap S # {}
      PROVE  AnalyzerProofs!IsRecursive(result, asm.fullName[t])
  <2> DEFINE R == NamesOf(S \cap ModelledOrReached)
  <2>1. R \in SUBSET AnalyzerProofs!Described(result) /\ asm.fullName[t] \in R
    BY <1>1, <1>2, DescribedNames DEF NamesOf
  <2>2. ASSUME NEW m \in R PROVE AnalyzerProofs!Mentions(result, m) \cap R # {}
    <3>1. PICK u \in S \cap ModelledOrReached : m = asm.fullName[u]
      BY DEF NamesOf
    <3>2. PICK v \in LeadsTo(u) : v \in S \cap ModelledOrReached
      BY <1>1, <1>2
    <3>3. asm.fullName[v] \in NamesOf(LeadsTo(u)) /\ asm.fullName[v] \in R
      BY <3>2 DEF NamesOf
    <3> QED BY <3>1, <3>3, MentionsNames
  <2> HIDE DEF R
  <2> QED BY <2>1, <2>2 DEF AnalyzerProofs!IsRecursive
<1>3. ASSUME NEW S \in SUBSET AnalyzerProofs!Described(result), asm.fullName[t] \in S,
             \A m \in S : AnalyzerProofs!Mentions(result, m) \cap S # {}
      PROVE  IsRecursive(t)
  <2> DEFINE R == {u \in ModelledOrReached : asm.fullName[u] \in S}
  <2>1. R \in SUBSET Types /\ t \in R
    BY <1>1, <1>3
  <2>2. ASSUME NEW u \in R PROVE LeadsTo(u) \cap R # {}
    <3>1. PICK m \in NamesOf(LeadsTo(u)) : m \in S
      BY <1>3, MentionsNames
    <3> QED BY <3>1, <1>1 DEF NamesOf
  <2> HIDE DEF R
  <2> QED BY <2>1, <2>2 DEF IsRecursive
<1> QED BY <1>2, <1>3 DEF IsRecursive, AnalyzerProofs!IsRecursive

(* The causes that the analysis has in the result, in the program.         *)
LEMMA CausesOfOutcomes == RegistryInvariant => OutcomesHaveCauses
<1> SUFFICES ASSUME RegistryInvariant PROVE OutcomesHaveCauses
  OBVIOUS
<1> DEFINE undescribable == \E t \in Program : ~Collector!IsDescribable(asm, t)
           unanalyzable == \/ \E d \in DataSets : \E u \in TypesOfMembers(d) : IsEnum(u)
                           \/ \E t \in ModelledOrReached : IsUnhandled(t)
           endless == \E t \in Modelled : IsRecursive(t)
<1>1. /\ status \in {"returned", "overflowed"} => ~undescribable
      /\ status = "threw" => undescribable \/ Begun
      /\ status \in {"returned", "overflowed"} => Begun
  BY DEF RegistryInvariant
<1>2. ASSUME NamesDistinct, Begun
      PROVE  /\ status = "threw" => unanalyzable
             /\ status = "overflowed" => endless
             /\ status = "returned" => ~unanalyzable /\ ~endless
  <2>1. ResultOfProgram /\ AnalyzerInv
    BY <1>2 DEF RegistryInvariant
  <2>2. (\E n \in AnalyzerProofs!MemberTypes(result) : ~AnalyzerProofs!IsDescribed(result, n))
          <=> \E d \in DataSets : \E u \in TypesOfMembers(d) : IsEnum(u)
    <3>1. \A d \in DataSets : \A u \in TypesOfMembers(d) :
            ~AnalyzerProofs!IsDescribed(result, asm.fullName[u]) <=> IsEnum(u)
      BY <1>2, <2>1, ReachedFacts, NamedFacts
    <3>2. \A n : n \in AnalyzerProofs!MemberTypes(result) <=>
                   \E d \in DataSets : \E u \in TypesOfMembers(d) : n = asm.fullName[u]
      BY <1>2, <2>1, MemberTypesNames DEF NamesOf
    <3> QED BY <3>1, <3>2
  <2>3. (\E n \in AnalyzerProofs!ReachedTypes(result) :
           AnalyzerProofs!HasUnhandled(AnalyzerProofs!GetObjectInfo(result, n)))
          <=> \E t \in ModelledOrReached : IsUnhandled(t)
    BY <1>2, <2>1, ReachedNames, MentionsNames DEF NamesOf
  <2>4. (\E n \in AnalyzerProofs!ModelledTypes(result) : AnalyzerProofs!IsRecursive(result, n))
          <=> endless
    BY <1>2, <2>1, ReachedFacts, MemberTypesNames, RecursiveFacts DEF NamesOf
  <2>5. /\ status = "threw" => unanalyzable
        /\ status = "returned" => ~unanalyzable
    BY <2>1, <2>2, <2>3 DEF AnalyzerInv, AnalyzerProofs!FailuresHaveACause
  <2>6. /\ status = "overflowed" => endless
        /\ status = "returned" => ~endless
    BY <2>1, <2>4 DEF AnalyzerInv, AnalyzerProofs!RecursionEndsUnlessRecursive
  <2> QED BY <2>5, <2>6
<1> HIDE DEF undescribable, unanalyzable, endless
<1>3. /\ status \in {"returned", "overflowed"} => ~undescribable
      /\ status \notin {"collecting", "running"} /\ NamesDistinct =>
           /\ status = "threw" => undescribable \/ unanalyzable
           /\ status = "overflowed" => endless
           /\ status = "returned" => ~unanalyzable /\ ~endless
  BY <1>1, <1>2
<1> QED BY <1>3 DEF OutcomesHaveCauses, undescribable, unanalyzable, endless

(* For every program, whatever its names: a registry means that every type *)
(* it leads to can be described.  For those where no other type has the    *)
(* name of a type that is looked at: MakeRegistry throws or recurses       *)
(* without end only over a type that cannot be described or, in what a     *)
(* data set leads to, an enum, an attribute nobody handles or a recursive  *)
(* type, and returns a registry only if there is none.                     *)
THEOREM Outcomes == Spec => []OutcomesHaveCauses
BY RegistryHolds, CausesOfOutcomes, PTL

-----------------------------------------------------------------------------
(* A registry that is returned.                                            *)

LEMMA SameCount ==
  ASSUME NEW S, IsFiniteSet(S), NEW T, NEW f \in [S -> T],
         \A y \in T : \E x \in S : f[x] = y, \A x, y \in S : f[x] = f[y] => x = y
  PROVE  Cardinality(T) = Cardinality(S)
<1>1. f \in Injection(S, T) /\ f \in Surjection(S, T)
  BY DEF Injection, Surjection, IsInjective
<1> QED BY <1>1, FS_Bijection DEF ExistsBijection, Bijection

LEMMA CountOfSeq ==
  ASSUME NEW n \in Nat, NEW T, NEW f \in [1..n -> T],
         \A y \in T : \E x \in 1..n : f[x] = y, \A x, y \in 1..n : f[x] = f[y] => x = y
  PROVE  Cardinality(T) = n
<1>1. f \in Injection(1..n, T) /\ f \in Surjection(1..n, T)
  BY DEF Injection, Surjection, IsInjective
<1> QED BY <1>1, FS_CountingElements DEF ExistsBijection, Bijection

LEMMA NamedType ==
  ASSUME ResultOfProgram, NamesDistinct, NEW t \in LookedAt
  PROVE  TypeNamed(asm.fullName[t]) = t
<1> DEFINE u == TypeNamed(asm.fullName[t])
<1>1. u \in Program /\ asm.fullName[u] = asm.fullName[t]
  <2>1. t \in Program
    BY ReachedFacts
  <2> HIDE DEF Program
  <2> QED BY <2>1 DEF TypeNamed
<1> QED BY <1>1 DEF NamesDistinct

(* A member of a model, by what the model was made from.                   *)
LEMMA LinksOfModel ==
  ASSUME ResultOfProgram, AnalyzerInv, status = "returned", NEW m \in ElementsOf(AllModels)
  PROVE  /\ \E t \in Program :
              /\ asm.fullName[t] = m.type
              /\ Len(m.members) = Cardinality(Members(t))
              /\ {d.type : d \in ElementsOf(m.members)} = {asm.fullName[u] : u \in TypesOfMembers(t)}
         /\ \A d \in ElementsOf(m.members) :
              IF \E u \in Program : ~IsEnum(u) /\ asm.fullName[u] = d.type
                THEN d.model \in DOMAIN AllModels /\ AllModels[d.model].type = d.type
                ELSE d.model = Analyzer!NoModel
<1>1. PICK i \in DOMAIN AllModels : m = AllModels[i]
  BY DEF ElementsOf
<1>2. /\ AnalyzerProofs!IsDescribed(result, m.type)
      /\ AnalyzerProofs!DefinesMembers(result, m)
      /\ m \in AnalyzerProofs!StadModels
  <2>1. AllModels \in Seq(AnalyzerProofs!StadModels)
    BY DEF AnalyzerInv, AnalyzerProofs!AnalysisInv, AnalyzerProofs!ITypes, AnalyzerProofs!TypeOK
  <2>2. m \in AnalyzerProofs!StadModels
    BY <1>1, <2>1, ElementOfSeq, LenProperties
  <2> QED
    BY <1>1, <2>2 DEF AnalyzerInv, AnalyzerProofs!AnalysisInv, AnalyzerProofs!ModelInv,
       AnalyzerProofs!IsModel
<1> DEFINE info == AnalyzerProofs!GetObjectInfo(result, m.type)
<1>3. PICK t \in Program : m.type = asm.fullName[t] /\ DescribesMembers(info.members, t)
  <2>1. PICK t \in Program : Describes(info, t)
    <3>1. \/ \E k \in DOMAIN result.CollectedObjectInfo : info = result.CollectedObjectInfo[k]
          \/ \E k \in DOMAIN result.CollectedClosedTypeGenericInfo :
                 info = result.CollectedClosedTypeGenericInfo[k]
      BY <1>2, AnalyzerAssumptions, AnalyzerProofs!GetObjectInfoFacts DEF ResultOfProgram
    <3> HIDE DEF info
    <3> QED BY <3>1 DEF ResultOfProgram, DescribesKind, OfKind
  <2>2. info.fullName = m.type
    BY <1>2, AnalyzerAssumptions, AnalyzerProofs!GetObjectInfoFacts DEF ResultOfProgram
  <2> HIDE DEF info
  <2> QED BY <2>1, <2>2 DEF Describes
<1>4. /\ DOMAIN m.members = DOMAIN info.members
      /\ \A k \in DOMAIN info.members : m.members[k].type = info.members[k].type
  BY <1>2 DEF AnalyzerProofs!DefinesMembers
<1>5. Len(m.members) \in Nat /\ DOMAIN m.members = 1..Len(m.members)
  BY <1>2, LenProperties DEF AnalyzerProofs!StadModels
<1> HIDE DEF info
<1>6. Len(m.members) = Cardinality(Members(t))
  <2>1. PICK f \in [1..Len(m.members) -> Members(t)] :
          /\ \A j \in Members(t) : \E k \in 1..Len(m.members) : f[k] = j
          /\ \A k, l \in 1..Len(m.members) : f[k] = f[l] => k = l
    BY <1>3, <1>4, <1>5 DEF DescribesMembers
  <2> QED BY <1>5, <2>1, CountOfSeq
<1>7. {d.type : d \in ElementsOf(m.members)} = NamesOf(TypesOfMembers(t))
  <2>1. {info.members[k].type : k \in DOMAIN info.members} = NamesOf(TypesOfMembers(t))
    BY <1>3, MembersFacts
  <2>2. {d.type : d \in ElementsOf(m.members)} = {m.members[k].type : k \in DOMAIN m.members}
    BY DEF ElementsOf
  <2> QED BY <1>4, <2>1, <2>2
<1>8. ASSUME NEW d \in ElementsOf(m.members)
      PROVE  IF \E u \in Program : ~IsEnum(u) /\ asm.fullName[u] = d.type
               THEN d.model \in DOMAIN AllModels /\ AllModels[d.model].type = d.type
               ELSE d.model = Analyzer!NoModel
  <2>1. AnalyzerProofs!IsDescribed(result, d.type)
          <=> \E u \in Program : ~IsEnum(u) /\ asm.fullName[u] = d.type
    <3>1. AnalyzerProofs!IsDescribed(result, d.type) <=> d.type \in NamesOf(Described)
      BY AnalyzerProofs!DescribedFacts, AnalyzerAssumptions, DescribedNames
    <3> QED BY <3>1 DEF NamesOf, Described
  <2>2. IF AnalyzerProofs!IsDescribed(result, d.type)
          THEN d.model \in DOMAIN AllModels /\ AllModels[d.model].type = d.type
          ELSE d.model = AnalyzerProofs!NoModel
    <3>1. member = 0 /\ AnalyzerProofs!DescribedMembersLinked
      BY DEF AnalyzerInv, AnalyzerProofs!FilingInv
    <3>2. PICK j \in DOMAIN m.members : d = AllModels[i].members[j]
      BY <1>1 DEF ElementsOf
    <3> QED BY <3>1, <3>2, <1>1 DEF AnalyzerProofs!DescribedMembersLinked
  <2> QED BY <2>1, <2>2, SameTests
<1> QED BY <1>3, <1>6, <1>7, <1>8 DEF NamesOf

(* A model of a returned registry is one of these.                         *)
LEMMA ModelsAreLinked == RegistryInvariant => ModelsLinked
<1> SUFFICES ASSUME RegistryInvariant, status = "returned" PROVE ModelsLinked
  BY DEF ModelsLinked
<1>1. ResultOfProgram /\ AnalyzerInv
  BY DEF RegistryInvariant, Begun
<1> QED BY <1>1, LinksOfModel DEF ModelsLinked

(* For every program, whatever its names: in a registry that MakeRegistry  *)
(* returns each model has the accessible members of a type of its name,    *)
(* linked to models of the names of their types unless only enums have     *)
(* these.                                                                  *)
THEOREM Links == Spec => []ModelsLinked
BY RegistryHolds, ModelsAreLinked, PTL

(* As many models are filed as there are members of a type to file.        *)
LEMMA FiledCount ==
  ASSUME NEW r, NEW d, NEW filed \in Seq(Nat), NEW made,
         AnalyzerProofs!Files(r, AllModels, filed, d, made), NEW name
  PROVE  CountOf(filed, name)
           = Cardinality({i \in made : AnalyzerProofs!MembersIn(r, d)[i].type = name})
<1> DEFINE S == {x \in DOMAIN filed : AllModels[filed[x]].type = name}
           T == {i \in made : AnalyzerProofs!MembersIn(r, d)[i].type = name}
<1>1. PICK h \in [DOMAIN filed -> made] :
        /\ \A i \in made : \E x \in DOMAIN filed : h[x] = i
        /\ \A x, y \in DOMAIN filed : h[x] = h[y] => x = y
        /\ \A x \in DOMAIN filed :
             AllModels[filed[x]].type = AnalyzerProofs!MembersIn(r, d)[h[x]].type
  BY DEF AnalyzerProofs!Files
<1> DEFINE f == [x \in S |-> h[x]]
<1>2. f \in [S -> T] /\ \A y \in T : \E x \in S : f[x] = y
  <2>1. \A x \in DOMAIN filed : x \in S <=> h[x] \in T
    BY <1>1
  <2>2. S \subseteq DOMAIN filed /\ T \subseteq made
    OBVIOUS
  <2> HIDE DEF S, T
  <2> QED BY <1>1, <2>1, <2>2
<1>3. \A x, y \in S : f[x] = f[y] => x = y
  BY <1>1
<1>4. IsFiniteSet(S)
  <2>1. IsFiniteSet(DOMAIN filed)
    BY LenProperties, FS_Interval
  <2> QED BY <2>1, FS_Subset
<1> HIDE DEF f, S, T
<1>5. Cardinality(T) = Cardinality(S)
  BY <1>2, <1>3, <1>4, SameCount
<1> QED BY <1>5 DEF CountOf, S, T

(* The members a data set files, by name.                                  *)
LEMMA MembersOfName ==
  ASSUME ResultOfProgram, NamesDistinct, NEW t \in DataSets,
         NEW members, members \in Seq(AnalyzerProofs!MemberSerializationInfo),
         DescribesMembers(members, t), NEW name
  PROVE  Cardinality({k \in DOMAIN members : /\ ~AnalyzerProofs!IsIgnored(result, members[k].type)
                                             /\ members[k].type = name})
           = Cardinality(MembersNamed(t, name))
<1> DEFINE S == {k \in DOMAIN members : /\ ~AnalyzerProofs!IsIgnored(result, members[k].type)
                                        /\ members[k].type = name}
           T == MembersNamed(t, name)
<1>1. PICK f \in [DOMAIN members -> Members(t)] :
        /\ \A i \in Members(t) : \E k \in DOMAIN members : f[k] = i
        /\ \A k, l \in DOMAIN members : f[k] = f[l] => k = l
        /\ \A k \in DOMAIN members : members[k].type = asm.fullName[Member(t, f[k]).type]
  BY DEF DescribesMembers
<1>2. \A k \in DOMAIN members : k \in S <=> f[k] \in T
  <2> SUFFICES ASSUME NEW k \in DOMAIN members PROVE k \in S <=> f[k] \in T
    OBVIOUS
  <2>1. Member(t, f[k]).type \in LookedAt
    BY <1>1, ReachedFacts DEF TypesOfMembers
  <2>2. AnalyzerProofs!IsIgnored(result, members[k].type) <=> IsIgnored(Member(t, f[k]).type)
    BY <1>1, <2>1, IgnoredFacts
  <2> QED BY <1>1, <2>2 DEF MembersNamed
<1>3. S \subseteq DOMAIN members /\ T \subseteq Members(t)
  BY DEF MembersNamed
<1>4. IsFiniteSet(S)
  <2>1. IsFiniteSet(DOMAIN members)
    BY LenProperties, FS_Interval
  <2> QED BY <1>3, <2>1, FS_Subset
<1> DEFINE g == [k \in S |-> f[k]]
<1> HIDE DEF S, T
<1>5. g \in [S -> T] /\ \A y \in T : \E x \in S : g[x] = y
  BY <1>1, <1>2, <1>3
<1>6. \A x, y \in S : g[x] = g[y] => x = y
  BY <1>1, <1>3
<1> HIDE DEF g
<1>7. Cardinality(T) = Cardinality(S)
  BY <1>4, <1>5, <1>6, SameCount
<1> QED BY <1>7 DEF S, T

(* The data sets of a registry that is returned.                           *)
LEMMA ReturnedSets ==
  ASSUME ResultOfProgram, AnalyzerInv, status = "returned"
  PROVE  /\ Len(dataSetModels) \in Nat /\ DOMAIN dataSetModels = 1..Len(dataSetModels)
         /\ \A x \in DOMAIN dataSetModels : dataSetModels[x] \in AnalyzerProofs!DataSetModels
         /\ \E g \in [DOMAIN dataSetModels -> AnalyzerProofs!DataSetInfos(result)] :
              /\ \A d \in AnalyzerProofs!DataSetInfos(result) :
                   \E x \in DOMAIN dataSetModels : g[x] = d
              /\ \A x, y \in DOMAIN dataSetModels : x < y => g[x] < g[y]
              /\ \A x \in DOMAIN dataSetModels :
                   /\ dataSetModels[x].name = result.CollectedObjectInfo[g[x]].fullName
                   /\ AnalyzerProofs!FilesBoth(result, AllModels, dataSetModels[x].listModels,
                        dataSetModels[x].singleModels, g[x],
                        Len(AnalyzerProofs!MembersIn(result, g[x])) + 1)
<1> DEFINE D == AnalyzerProofs!DataSetInfos(result)
<1>1. /\ at > Len(result.CollectedObjectInfo) /\ at \in Nat
      /\ AnalyzerProofs!RegistryInv(result, AllModels, dataSetModels, at)
  BY DEF AnalyzerInv, AnalyzerProofs!FilingInv, AnalyzerProofs!Infos, AnalyzerProofs!AnalysisInv,
     AnalyzerProofs!ITypes, AnalyzerProofs!TypeOK
<1>2. /\ Len(result.CollectedObjectInfo) \in Nat
      /\ DOMAIN result.CollectedObjectInfo = 1..Len(result.CollectedObjectInfo)
  <2>1. result.CollectedObjectInfo \in Seq(Analyzer!ObjectSerializationInfo)
    BY DEF ResultOfProgram, HandedResults, Analyzer!TypeCollectorResult
  <2> QED BY <2>1, LenProperties
<1>3. \A d \in D : d < at
  BY <1>1, <1>2 DEF AnalyzerProofs!DataSetInfos
<1>4. {d \in D : d < at} = D
  BY <1>3
<1> HIDE DEF D
<1>5. dataSetModels \in Seq(AnalyzerProofs!DataSetModels)
  BY <1>1 DEF AnalyzerProofs!RegistryInv
<1>6. /\ Len(dataSetModels) \in Nat /\ DOMAIN dataSetModels = 1..Len(dataSetModels)
      /\ \A x \in DOMAIN dataSetModels : dataSetModels[x] \in AnalyzerProofs!DataSetModels
  BY <1>5, LenProperties, ElementOfSeq
<1>7. PICK g \in [DOMAIN dataSetModels -> {d \in D : d < at}] :
        /\ \A d \in D : d < at => \E x \in DOMAIN dataSetModels : g[x] = d
        /\ \A x, y \in DOMAIN dataSetModels : x < y => g[x] < g[y]
        /\ \A x \in DOMAIN dataSetModels :
             /\ dataSetModels[x].name = result.CollectedObjectInfo[g[x]].fullName
             /\ AnalyzerProofs!FilesBoth(result, AllModels, dataSetModels[x].listModels,
                  dataSetModels[x].singleModels, g[x],
                  Len(AnalyzerProofs!MembersIn(result, g[x])) + 1)
  BY <1>1 DEF AnalyzerProofs!RegistryInv, D
<1> QED BY <1>3, <1>4, <1>6, <1>7 DEF D

(* What a data set files of a name.                                        *)
LEMMA CountsOfName ==
  ASSUME ResultOfProgram, NamesDistinct, NEW set \in AnalyzerProofs!DataSetModels,
         NEW d \in AnalyzerProofs!DataSetInfos(result), NEW t \in DataSets,
         DescribesMembers(result.CollectedObjectInfo[d].members, t),
         AnalyzerProofs!FilesBoth(result, AllModels, set.listModels, set.singleModels, d,
                                  Len(AnalyzerProofs!MembersIn(result, d)) + 1),
         NEW name
  PROVE  LET count == Cardinality(MembersNamed(t, name))
             filed == name \in KeyValueCollections
         IN  /\ CountOf(set.listModels, name) = IF filed THEN count ELSE 0
             /\ CountOf(set.singleModels, name) = IF filed THEN 0 ELSE count
<1> DEFINE members == AnalyzerProofs!MembersIn(result, d)
           made == AnalyzerProofs!MadeMembers(result, d, Len(members) + 1)
           lists == AnalyzerProofs!Collections(result, d, Len(members) + 1)
           S == {k \in DOMAIN members : /\ ~AnalyzerProofs!IsIgnored(result, members[k].type)
                                        /\ members[k].type = name}
           OfName(places) == {k \in places : members[k].type = name}
<1>1. /\ members = result.CollectedObjectInfo[d].members
      /\ members \in Seq(AnalyzerProofs!MemberSerializationInfo)
      /\ Len(members) \in Nat /\ DOMAIN members = 1..Len(members)
  <2>1. result \in AnalyzerProofs!TypeCollectorResult
    BY AnalyzerAssumptions DEF ResultOfProgram
  <2>2. /\ d \in DOMAIN result.CollectedObjectInfo
        /\ result.CollectedObjectInfo \in Seq(AnalyzerProofs!ObjectSerializationInfo)
    BY <2>1 DEF AnalyzerProofs!DataSetInfos, AnalyzerProofs!TypeCollectorResult
  <2>3. result.CollectedObjectInfo[d] \in AnalyzerProofs!ObjectSerializationInfo
    BY <2>2, ElementOfSeq, LenProperties
  <2>4. members \in Seq(AnalyzerProofs!MemberSerializationInfo)
    BY <2>3 DEF AnalyzerProofs!ObjectSerializationInfo, AnalyzerProofs!MembersIn
  <2> QED BY <2>4, LenProperties DEF AnalyzerProofs!MembersIn
<1>2. made = {k \in DOMAIN members : ~AnalyzerProofs!IsIgnored(result, members[k].type)}
  <2>1. \A k \in DOMAIN members : k < Len(members) + 1
    BY <1>1
  <2> QED BY <2>1 DEF AnalyzerProofs!MadeMembers
<1>3. lists = {k \in made : members[k].type \in KeyValueCollections}
  BY DEF AnalyzerProofs!Collections
<1>4. Cardinality(S) = Cardinality(MembersNamed(t, name))
  BY <1>1, MembersOfName
<1>5. /\ CountOf(set.listModels, name) = Cardinality(OfName(lists))
      /\ CountOf(set.singleModels, name) = Cardinality(OfName(made \ lists))
  <2>1. set.listModels \in Seq(Nat) /\ set.singleModels \in Seq(Nat)
    BY DEF AnalyzerProofs!DataSetModels
  <2>2. /\ AnalyzerProofs!Files(result, AllModels, set.listModels, d, lists)
        /\ AnalyzerProofs!Files(result, AllModels, set.singleModels, d, made \ lists)
    BY DEF AnalyzerProofs!FilesBoth
  <2> HIDE DEF lists, made
  <2> QED BY <2>1, <2>2, FiledCount
<1> HIDE DEF members, made, lists
<1>6. CASE name \in KeyValueCollections
  <2>1. OfName(lists) = S /\ OfName(made \ lists) = {}
    BY <1>2, <1>3, <1>6
  <2> HIDE DEF OfName, S
  <2> QED BY <1>4, <1>5, <1>6, <2>1, FS_EmptySet
<1>7. CASE name \notin KeyValueCollections
  <2>1. OfName(lists) = {} /\ OfName(made \ lists) = S
    BY <1>2, <1>3, <1>7
  <2> HIDE DEF OfName, S
  <2> QED BY <1>4, <1>5, <1>7, <2>1, FS_EmptySet
<1> QED BY <1>6, <1>7

(* The data sets of the registry, one by one, are those of the program.    *)
LEMMA RegistryIsOfProgram == RegistryInvariant => RegistryOfProgram
<1> SUFFICES ASSUME RegistryInvariant, status = "returned" PROVE RegistryOfProgram
  BY DEF RegistryOfProgram
<1>1. ResultOfProgram /\ AnalyzerInv
  BY DEF RegistryInvariant, Begun
<1> DEFINE infos == result.CollectedObjectInfo
           D == AnalyzerProofs!DataSetInfos(result)
           sets == dataSetModels
<1>2. PICK o \in [DOMAIN infos -> OfKind("object")] :
        /\ \A t \in DataSets : \E d \in D : o[d] = t
        /\ \A d \in D : o[d] \in DataSets
        /\ \A i, j \in DOMAIN infos : o[i] = o[j] => i = j
        /\ \A i \in DOMAIN infos : Describes(infos[i], o[i])
  BY <1>1, DataSetFacts
<1>3. /\ Len(sets) \in Nat /\ DOMAIN sets = 1..Len(sets)
      /\ \A x \in DOMAIN sets : sets[x] \in AnalyzerProofs!DataSetModels
  BY <1>1, ReturnedSets
<1>4. PICK g \in [DOMAIN sets -> D] :
        /\ \A d \in D : \E x \in DOMAIN sets : g[x] = d
        /\ \A x, y \in DOMAIN sets : x < y => g[x] < g[y]
        /\ \A x \in DOMAIN sets :
             /\ sets[x].name = infos[g[x]].fullName
             /\ AnalyzerProofs!FilesBoth(result, AllModels, sets[x].listModels,
                  sets[x].singleModels, g[x], Len(AnalyzerProofs!MembersIn(result, g[x])) + 1)
  BY <1>1, ReturnedSets
<1>5. D \subseteq DOMAIN infos /\ D \subseteq Nat
  <2>1. infos \in Seq(Analyzer!ObjectSerializationInfo)
    BY <1>1 DEF ResultOfProgram, HandedResults, Analyzer!TypeCollectorResult
  <2>2. DOMAIN infos \subseteq Nat
    BY <2>1, LenProperties
  <2> QED BY <2>2 DEF AnalyzerProofs!DataSetInfos
<1> HIDE DEF D
<1>6. \A x, y \in DOMAIN sets : o[g[x]] = o[g[y]] => x = y
  <2>1. \A x, y \in DOMAIN sets : g[x] = g[y] => x = y
    <3>1. \A x, y \in DOMAIN sets : x = y \/ x < y \/ y < x
      BY <1>3
    <3>2. \A x \in DOMAIN sets : g[x] \in Nat
      BY <1>5
    <3>3. \A m \in Nat : ~(m < m)
      OBVIOUS
    <3> QED BY <1>4, <3>1, <3>2, <3>3
  <2> QED BY <1>2, <1>5, <2>1
<1>7. \A x \in DOMAIN sets : /\ o[g[x]] \in DataSets /\ o[g[x]] \in Program
                             /\ sets[x].name = asm.fullName[o[g[x]]]
                             /\ DescribesMembers(infos[g[x]].members, o[g[x]])
  BY <1>2, <1>4, <1>5 DEF Describes, OfKind
<1>8. Len(sets) = Cardinality(DataSets)
  <2> DEFINE f == [x \in 1..Len(sets) |-> o[g[x]]]
  <2>1. f \in [1..Len(sets) -> DataSets]
    BY <1>3, <1>7
  <2>2. \A x \in 1..Len(sets) : f[x] = o[g[x]]
    OBVIOUS
  <2>3. \A t \in DataSets : \E x \in DOMAIN sets : o[g[x]] = t
    BY <1>2, <1>4
  <2> HIDE DEF f, sets
  <2>4. \A t \in DataSets : \E x \in 1..Len(sets) : f[x] = t
    BY <1>3, <2>2, <2>3
  <2>5. \A x, y \in 1..Len(sets) : f[x] = f[y] => x = y
    BY <1>3, <1>6, <2>2
  <2> QED BY <1>3, <2>1, <2>4, <2>5, CountOfSeq
<1>9. {d.name : d \in ElementsOf(sets)} = {asm.fullName[t] : t \in DataSets}
  <2>1. \A t \in DataSets : \E x \in DOMAIN sets : sets[x].name = asm.fullName[t]
    BY <1>2, <1>4, <1>7
  <2> QED BY <2>1, <1>7 DEF ElementsOf
<1>10. ASSUME NEW i \in DOMAIN sets, NEW j \in DOMAIN sets, i < j
       PROVE  sets[i].name <= sets[j].name
  <2>1. \A k, l \in DOMAIN infos : k < l => infos[k].fullName <= infos[l].fullName
    BY <1>1 DEF ResultOfProgram
  <2>2. g[i] \in DOMAIN infos /\ g[j] \in DOMAIN infos /\ g[i] < g[j]
    BY <1>4, <1>5, <1>10
  <2> QED BY <2>1, <2>2, <1>4
<1>11. ASSUME NamesDistinct, NEW d \in ElementsOf(sets), NEW name
       PROVE  LET count == Cardinality(MembersNamed(TypeNamed(d.name), name))
                  filed == name \in KeyValueCollections
              IN  /\ CountOf(d.listModels, name) = IF filed THEN count ELSE 0
                  /\ CountOf(d.singleModels, name) = IF filed THEN 0 ELSE count
  <2>1. PICK x \in DOMAIN sets : d = sets[x]
    BY DEF ElementsOf
  <2>2. TypeNamed(d.name) = o[g[x]]
    BY <1>1, <1>7, <1>11, <2>1, ReachedFacts, NamedType
  <2>3. /\ d \in AnalyzerProofs!DataSetModels /\ g[x] \in AnalyzerProofs!DataSetInfos(result)
        /\ o[g[x]] \in DataSets
        /\ DescribesMembers(result.CollectedObjectInfo[g[x]].members, o[g[x]])
        /\ AnalyzerProofs!FilesBoth(result, AllModels, d.listModels, d.singleModels, g[x],
                                    Len(AnalyzerProofs!MembersIn(result, g[x])) + 1)
    BY <1>3, <1>4, <1>7, <2>1 DEF D
  <2> QED BY <1>1, <1>11, <2>2, <2>3, CountsOfName
<1> HIDE DEF infos, sets
<1>12. RegistryOfProgram
  BY <1>8, <1>9, <1>10, <1>11 DEF RegistryOfProgram, sets
<1> QED BY <1>12

(* For every program, whatever its names: the registry that MakeRegistry   *)
(* returns has the data sets of the program, in the order of names.  For   *)
(* those where no other type has the name of a type that is looked at:     *)
(* each has a model for each member that is not ignored.                   *)
THEOREM Registries == Spec => []RegistryOfProgram
BY RegistryHolds, RegistryIsOfProgram, PTL
=============================================================================
