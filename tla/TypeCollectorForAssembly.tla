---------------------- MODULE TypeCollectorForAssembly ----------------------
(***************************************************************************)
(* Stad.Analysis/TypeCollectorForAssembly.cs: a depth first walk over the  *)
(* types of the loaded assemblies, through System.Reflection, that         *)
(* describes every type it reaches once.                                   *)
(*                                                                         *)
(* The recursion CollectCore -> CollectGeneric / CollectObject ->          *)
(* GetObjectInfo -> CollectCore is a stack of frames, one per activation   *)
(* of GetObjectInfo (with the loop over the type arguments of              *)
(* CollectGeneric in front of it).  One action is one turn of a loop.      *)
(*                                                                         *)
(* A name is its rank in the order of full names; NoFullName (null, what   *)
(* reflection answers for a generic parameter) sorts before every name.    *)
(*                                                                         *)
(* An exception leaves Collect as it leaves every activation below it:     *)
(* nothing in the class catches.  Its causes are the code of attributes,   *)
(* which NeutralAttributeData runs, and types that cannot be loaded.       *)
(***************************************************************************)
EXTENDS OrderBy

CONSTANTS
  Types,         \* the System.Type objects reflection can hand out
  Names,         \* names of members
  Attributes,    \* custom attributes
  Throwing,      \* those that throw when they are made or a property is read
  Unset,         \* a property of an info the code never assigns
  Assemblies,    \* the reflected programs to choose from, each an Assembly
  MaxCollects    \* bound: calls of Collect on one collector

NoFullName == 0

PropertyInfo ==
  [name : Names, type : Types, publicGet : BOOLEAN, publicSet : BOOLEAN,
   attributes : Seq(Attributes)]

\* GetFields() answers public fields only.
FieldInfo == [name : Names, type : Types, static : BOOLEAN, initOnly : BOOLEAN]

\* What reflection tells about the loaded assemblies and the types they use.
Assembly ==
  [allTypes   : Seq(Types),                       \* SelectMany(GetTypes())
   kind       : [Types -> {"enum", "generic", "object"}],
   arguments  : [Types -> Seq(Types)],            \* GenericTypeArguments
   properties : [Types -> Seq(PropertyInfo)],
   fields     : [Types -> Seq(FieldInfo)],
   fullName   : [Types -> Nat],
   attributes : [Types -> Seq(Attributes)],
   missing    : SUBSET Types]                      \* their assembly is not found

ASSUME AssembliesAssumption == Assemblies \subseteq Assembly
ASSUME MaxCollectsAssumption == MaxCollects \in Nat

VARIABLES
  asm,                  \* the assemblies of the constructor
  phase,                \* "idle", "walking" (in Collect), "returned" or "threw"
  target,               \* index in targetTypes of the loop in Collect
  stack,                \* frames of GetObjectInfo, the innermost last
  alreadyCollected,
  collectedObjectInfo,
  collectedEnumInfo,
  collectedClosedTypeGenericInfo,
  results               \* what the calls of Collect have returned

workspace == <<alreadyCollected, collectedObjectInfo, collectedEnumInfo,
               collectedClosedTypeGenericInfo>>
vars == <<asm, phase, target, stack, workspace, results>>

-----------------------------------------------------------------------------
(* What GetObjectInfo meets while it describes a type.                     *)

ArgumentUse(t) == [via |-> "argument", type |-> t, readable |-> TRUE,
                   writable |-> TRUE, name |-> Unset, attributes |-> Unset]

PropertyUse(p) == [via |-> "property", type |-> p.type, readable |-> p.publicGet,
                   writable |-> p.publicSet, name |-> p.name,
                   attributes |-> p.attributes]

\* The initialiser for a field never assigns Attributes.
FieldUse(f) == [via |-> "field", type |-> f.type, readable |-> ~f.static,
                writable |-> ~f.initOnly /\ ~f.static, name |-> f.name,
                attributes |-> Unset]

\* Everything describing t goes through, in the order of the loops: the type
\* arguments of a generic type, then its properties, then its fields.
Uses(a, t) ==
  (IF a.kind[t] = "generic"
     THEN [i \in 1..Len(a.arguments[t]) |-> ArgumentUse(a.arguments[t][i])]
     ELSE << >>)
  \o [i \in 1..Len(a.properties[t]) |-> PropertyUse(a.properties[t][i])]
  \o [i \in 1..Len(a.fields[t]) |-> FieldUse(a.fields[t][i])]

IsIncluded(u) == u.readable \/ u.writable

\* FromCustomAttributeArray: every attribute is converted, or an exception leaves.
Converts(attributes) == \A i \in DOMAIN attributes : attributes[i] \notin Throwing

\* The initialiser of a member reads its type and converts its attributes,
\* whether or not the member is listed then.
IsReadable(a, u) ==
  \/ u.via = "argument"
  \/ /\ u.type \notin a.missing
     /\ u.via = "property" => Converts(u.attributes)

\* Mutant: the type itself for its full name.
MutantMemberKeepsType(a, u) ==
  [name |-> u.name, type |-> u.type, isProperty |-> TRUE, isField |-> FALSE,
   attributes |-> u.attributes]

\* MemberSerializationInfo.  IsProperty and IsField are the constants the code
\* writes for properties and for fields alike.
MemberSerializationInfo(a, u) ==
  [name |-> u.name, type |-> a.fullName[u.type], isProperty |-> TRUE,
   isField |-> FALSE, attributes |-> u.attributes]

\* ObjectSerializationInfo; type stands for the fields computed from the type.
ObjectSerializationInfo(a, t, members) ==
  [type |-> t, fullName |-> a.fullName[t], members |-> members,
   attributes |-> a.attributes[t]]

EnumSerializationInfo(a, t) ==
  [type |-> t, fullName |-> a.fullName[t], attributes |-> a.attributes[t]]

-----------------------------------------------------------------------------
Init ==
  /\ asm \in Assemblies
  /\ phase = "idle"
  /\ target = 1
  /\ stack = << >>
  /\ alreadyCollected = {}
  /\ collectedObjectInfo = << >>
  /\ collectedEnumInfo = << >>
  /\ collectedClosedTypeGenericInfo = << >>
  /\ results = << >>

\* Mutant: the set of visited types survives into the next call.
MutantKeepCollected ==
  /\ UNCHANGED alreadyCollected
  /\ collectedObjectInfo' = << >>
  /\ collectedEnumInfo' = << >>
  /\ collectedClosedTypeGenericInfo' = << >>

ResetWorkspace ==
  /\ alreadyCollected' = {}
  /\ collectedObjectInfo' = << >>
  /\ collectedEnumInfo' = << >>
  /\ collectedClosedTypeGenericInfo' = << >>

\* Collect() is called.
Collect ==
  /\ phase # "walking"
  /\ Len(results) < MaxCollects
  /\ phase' = "walking"
  /\ target' = 1
  /\ ResetWorkspace
  /\ UNCHANGED <<asm, stack, results>>

\* Mutant: an enum is marked as collected and not described.
MutantForgetEnum(t, callers) ==
  /\ alreadyCollected' = alreadyCollected \cup {t}
  /\ stack' = IF t \in alreadyCollected \/ asm.kind[t] = "enum" THEN callers
              ELSE Append(callers, [type |-> t, next |-> 1, members |-> << >>])
  /\ UNCHANGED collectedEnumInfo

\* Mutant: the gate only guards enums.
MutantNoGate(t, callers) ==
  /\ alreadyCollected' = alreadyCollected \cup {t}
  /\ IF asm.kind[t] = "enum" /\ t \notin alreadyCollected
       THEN collectedEnumInfo' = Append(collectedEnumInfo, EnumSerializationInfo(asm, t))
       ELSE UNCHANGED collectedEnumInfo
  /\ stack' = IF asm.kind[t] = "enum" THEN callers
              ELSE Append(callers, [type |-> t, next |-> 1, members |-> << >>])

\* CollectCore(t) called with the frames `callers' below it: nothing for a type
\* already collected; an enum is described on the spot; any other type opens a
\* frame.
CollectCore(t, callers) ==
  \/ /\ t \in alreadyCollected
     /\ stack' = callers
     /\ UNCHANGED <<alreadyCollected, collectedEnumInfo>>
  \/ /\ t \notin alreadyCollected
     /\ alreadyCollected' = alreadyCollected \cup {t}
     /\ asm.kind[t] = "enum"
     /\ Converts(asm.attributes[t])
     /\ collectedEnumInfo' = Append(collectedEnumInfo, EnumSerializationInfo(asm, t))
     /\ stack' = callers
  \/ /\ t \notin alreadyCollected
     /\ alreadyCollected' = alreadyCollected \cup {t}
     /\ asm.kind[t] # "enum"
     /\ stack' = Append(callers, [type |-> t, next |-> 1, members |-> << >>])
     /\ UNCHANGED collectedEnumInfo

\* One turn of the loop over targetTypes.
CollectTarget ==
  /\ phase = "walking"
  /\ stack = << >>
  /\ target <= Len(asm.allTypes)
  /\ target' = target + 1
  /\ CollectCore(asm.allTypes[target], << >>)
  /\ UNCHANGED <<asm, phase, collectedObjectInfo, collectedClosedTypeGenericInfo, results>>

Top == stack[Len(stack)]
Callers == SubSeq(stack, 1, Len(stack) - 1)
TopUse == Uses(asm, Top.type)[Top.next]
InUse == phase = "walking" /\ stack # << >> /\ Top.next <= Len(Uses(asm, Top.type))

\* The frame of the innermost activation, one turn of its loop later.
Advanced(members) ==
  Append(Callers, [type |-> Top.type, next |-> Top.next + 1, members |-> members])

\* CollectGeneric: a type argument.
CollectArgument ==
  /\ InUse
  /\ TopUse.via = "argument"
  /\ CollectCore(TopUse.type, Advanced(Top.members))
  /\ UNCHANGED <<asm, phase, target, collectedObjectInfo, collectedClosedTypeGenericInfo, results>>

\* Mutant: the `continue' skips the step to the next member.
MutantSkipForever ==
  /\ InUse
  /\ TopUse.via # "argument"
  /\ ~IsIncluded(TopUse)
  /\ UNCHANGED vars

\* Mutant: the `continue' stands in front of the initialiser.
MutantSkipUnread ==
  /\ InUse
  /\ TopUse.via # "argument"
  /\ ~IsIncluded(TopUse)
  /\ stack' = Advanced(Top.members)
  /\ UNCHANGED <<asm, phase, target, workspace, results>>

\* GetObjectInfo: a member neither readable nor writable (`continue').
SkipMember ==
  /\ InUse
  /\ TopUse.via # "argument"
  /\ IsReadable(asm, TopUse)
  /\ ~IsIncluded(TopUse)
  /\ stack' = Advanced(Top.members)
  /\ UNCHANGED <<asm, phase, target, workspace, results>>

\* Mutant: a member is listed and its type not collected.
MutantMemberNotCollected ==
  /\ InUse
  /\ TopUse.via # "argument"
  /\ IsIncluded(TopUse)
  /\ stack' = Advanced(Append(Top.members, MemberSerializationInfo(asm, TopUse)))
  /\ UNCHANGED <<asm, phase, target, workspace, results>>

\* GetObjectInfo: any other member is listed, then its type is collected.
CollectMember ==
  /\ InUse
  /\ TopUse.via # "argument"
  /\ IsReadable(asm, TopUse)
  /\ IsIncluded(TopUse)
  /\ CollectCore(TopUse.type,
                 Advanced(Append(Top.members, MemberSerializationInfo(asm, TopUse))))
  /\ UNCHANGED <<asm, phase, target, collectedObjectInfo, collectedClosedTypeGenericInfo, results>>

\* GetObjectInfo returns to CollectObject or CollectGeneric, which adds the info.
AddInfo ==
  LET info == ObjectSerializationInfo(asm, Top.type, Top.members)
  IN  \/ /\ asm.kind[Top.type] = "object"
         /\ collectedObjectInfo' = Append(collectedObjectInfo, info)
         /\ UNCHANGED collectedClosedTypeGenericInfo
      \/ /\ asm.kind[Top.type] = "generic"
         /\ collectedClosedTypeGenericInfo' = Append(collectedClosedTypeGenericInfo, info)
         /\ UNCHANGED collectedObjectInfo

FinishType ==
  /\ phase = "walking"
  /\ stack # << >>
  /\ Top.next > Len(Uses(asm, Top.type))
  /\ Converts(asm.attributes[Top.type])
  /\ AddInfo
  /\ stack' = Callers
  /\ UNCHANGED <<asm, phase, target, alreadyCollected, collectedEnumInfo, results>>

\* Mutant: the last target is left out.
MutantReturnEarly ==
  /\ phase = "walking"
  /\ stack = << >>
  /\ target >= Len(asm.allTypes)
  /\ phase' = "returned"
  /\ UNCHANGED <<asm, target, stack, workspace, results>>

\* Collect() returns.
ReturnResult ==
  /\ phase = "walking"
  /\ stack = << >>
  /\ target > Len(asm.allTypes)
  /\ phase' = "returned"
  /\ results' = Append(results,
       [CollectedObjectInfo            |-> OrderByFullName(collectedObjectInfo),
        collectedEnumInfo              |-> OrderByFullName(collectedEnumInfo),
        CollectedClosedTypeGenericInfo |-> OrderByFullName(collectedClosedTypeGenericInfo)])
  /\ UNCHANGED <<asm, target, stack, workspace>>

\* An exception leaves every open activation and Collect itself.
Unwind ==
  /\ phase' = "threw"
  /\ stack' = << >>
  /\ UNCHANGED <<asm, target, collectedObjectInfo, collectedEnumInfo,
                 collectedClosedTypeGenericInfo, results>>

\* What CollectCore is called with next: a target, a type argument, or the type
\* of a listed member.
Calls(t) ==
  \/ stack = << >> /\ target <= Len(asm.allTypes) /\ t = asm.allTypes[target]
  \/ InUse /\ IsIncluded(TopUse) /\ IsReadable(asm, TopUse) /\ t = TopUse.type

\* CollectEnum: the enum is marked as collected before its attributes are
\* converted.
EnumThrows ==
  /\ phase = "walking"
  /\ \E t \in Types :
       /\ Calls(t)
       /\ t \notin alreadyCollected
       /\ asm.kind[t] = "enum"
       /\ ~Converts(asm.attributes[t])
       /\ alreadyCollected' = alreadyCollected \cup {t}
  /\ Unwind

\* GetObjectInfo: in the initialiser of a member, before the `continue'.
MemberThrows ==
  /\ InUse
  /\ ~IsReadable(asm, TopUse)
  /\ Unwind
  /\ UNCHANGED alreadyCollected

\* GetObjectInfo: in the initialiser of the info, behind the loops.
InfoThrows ==
  /\ phase = "walking"
  /\ stack # << >>
  /\ Top.next > Len(Uses(asm, Top.type))
  /\ ~Converts(asm.attributes[Top.type])
  /\ Unwind
  /\ UNCHANGED alreadyCollected

\* The caller may never call Collect (again); inside Collect the thread runs on.
Walk == CollectTarget \/ CollectArgument \/ SkipMember \/ CollectMember \/ FinishType
Throw == EnumThrows \/ MemberThrows \/ InfoThrows
Next == Collect \/ Walk \/ Throw \/ ReturnResult

Spec == Init /\ [][Next]_vars
FairSpec == Spec /\ WF_vars(Walk \/ Throw \/ ReturnResult)

-----------------------------------------------------------------------------
(* Properties.                                                             *)

Members == [name : Names \cup {Unset}, type : Nat, isProperty : BOOLEAN, isField : BOOLEAN,
            attributes : Seq(Attributes) \cup {Unset}]
Frames == [type : Types, next : Nat \ {0}, members : Seq(Members)]
ObjectInfos == [type : Types, fullName : Nat, members : Seq(Members),
                attributes : Seq(Attributes)]
EnumInfos == [type : Types, fullName : Nat, attributes : Seq(Attributes)]

\* The workspace, the recursion and the loop variables have their types.
TypeOK ==
  /\ asm \in Assembly
  /\ phase \in {"idle", "walking", "returned", "threw"}
  /\ target \in Nat \ {0}
  /\ stack \in Seq(Frames)
  /\ alreadyCollected \subseteq Types
  /\ collectedObjectInfo \in Seq(ObjectInfos)
  /\ collectedEnumInfo \in Seq(EnumInfos)
  /\ collectedClosedTypeGenericInfo \in Seq(ObjectInfos)

TypesOf(s) == [i \in DOMAIN s |-> s[i].type]
ElementsOf(s) == {s[i] : i \in DOMAIN s}

\* The gate of CollectCore: until an exception leaves Collect, each type already
\* collected is described exactly once or has exactly one activation of
\* GetObjectInfo open for it, so cyclic programs are described without
\* duplicates and the recursion is never deeper than the number of types.
CollectedOnce ==
  phase # "threw" =>
    LET all == TypesOf(collectedObjectInfo) \o TypesOf(collectedEnumInfo)
                 \o TypesOf(collectedClosedTypeGenericInfo) \o TypesOf(stack)
    IN  /\ ElementsOf(all) = alreadyCollected
        /\ Len(all) = Cardinality(alreadyCollected)

\* The types the description of t mentions.
UsedTypes(a, t) ==
  IF a.kind[t] = "enum" THEN {}
  ELSE {Uses(a, t)[i].type : i \in {j \in DOMAIN Uses(a, t) : IsIncluded(Uses(a, t)[j])}}

Closure == INSTANCE TypeClosure WITH
  roots <- ElementsOf(asm.allTypes),
  uses  <- [t \in Types |-> UsedTypes(asm, t)],
  known <- alreadyCollected,
  phase <- phase

\* When Collect returns, the types collected are those reachable from the
\* types of the assemblies through type arguments and accessible members.
CollectedIsReachable == Closure!ReturnsReachable

\* t can be described: its attributes, and those of every property whether it
\* is listed or not, convert, and the types of its members are found.
IsDescribable(a, t) ==
  /\ Converts(a.attributes[t])
  /\ a.kind[t] # "enum" => \A i \in DOMAIN Uses(a, t) : IsReadable(a, Uses(a, t)[i])

\* Collect throws only over a type the program leads to that cannot be
\* described, and answers nothing when there is one: one attribute with a
\* throwing getter, anywhere in what is reachable, costs the whole result.
ThrowsHaveCause ==
  /\ phase = "threw" => \E t \in Closure!Reachable : ~IsDescribable(asm, t)
  /\ phase = "returned" => \A t \in Closure!Reachable : IsDescribable(asm, t)

(* The strengthening of both that the walk preserves.                      *)

\* A frame belongs to a collected type; what its loop has passed could be read
\* and is known.
HasMet(f, known) ==
  /\ f.type \in known
  /\ asm.kind[f.type] # "enum"
  /\ \A j \in DOMAIN Uses(asm, f.type) :
       j < f.next => /\ IsReadable(asm, Uses(asm, f.type)[j])
                     /\ IsIncluded(Uses(asm, f.type)[j]) => Uses(asm, f.type)[j].type \in known

\* The description of t is finished.
IsFinished(t) == UsedTypes(asm, t) \subseteq alreadyCollected /\ IsDescribable(asm, t)

OnlyReachable ==
  \A S \in SUBSET Types : Closure!IsClosed(S) => alreadyCollected \subseteq S
FramesHaveMet == \A i \in DOMAIN stack : HasMet(stack[i], alreadyCollected)
FinishedOrOpen ==
  phase # "threw" =>
    \A t \in alreadyCollected : IsFinished(t) \/ \E i \in DOMAIN stack : stack[i].type = t
ThrownOverCollected ==
  phase = "threw" => \E t \in alreadyCollected : ~IsDescribable(asm, t)
TargetsMet ==
  \A k \in DOMAIN asm.allTypes : k < target => asm.allTypes[k] \in alreadyCollected
WalkOver ==
  /\ phase # "walking" => stack = << >>
  /\ phase = "returned" => target > Len(asm.allTypes)

WalkInv ==
  /\ OnlyReachable /\ FramesHaveMet /\ FinishedOrOpen /\ ThrownOverCollected
  /\ TargetsMet /\ WalkOver

\* Every step of the walk discovers one more reachable type or none, and
\* Collect returns only when nothing reachable is left: the walk implements
\* the abstract collection.
ImplementsTypeClosure == Closure!Spec

\* StadAnalyzer looks the types of members up by name in the result: no member
\* of a returned description names a type the same result does not describe.
NoDanglingMember ==
  \A r \in ElementsOf(results) :
    LET infos == ElementsOf(r.CollectedObjectInfo)
                   \cup ElementsOf(r.CollectedClosedTypeGenericInfo)
        names == {i.fullName : i \in infos \cup ElementsOf(r.collectedEnumInfo)}
    IN  \A i \in infos : \A m \in ElementsOf(i.members) : m.type \in names

\* ResetWorkspace: nothing of one call of Collect shows in the next.
RepeatedCollectAgrees ==
  \A i, j \in DOMAIN results : results[i] = results[j]

\* The returned lists are the collected ones by ascending name, and types of
\* one name (two assemblies may declare it) stay in the order of their
\* collection: a lookup by name finds the one described first.
IsStablySorted(sorted, s) ==
  /\ Len(sorted) = Len(s)
  /\ \A i \in DOMAIN s : \E k \in DOMAIN sorted : sorted[k] = s[i]
  /\ \A k, l \in DOMAIN sorted : k < l =>
       \E i, j \in DOMAIN s : /\ sorted[k] = s[i] /\ sorted[l] = s[j]
                              /\ Precedes(s, i, j)

ResultsStablySorted ==
  phase = "returned" =>
    LET r == results[Len(results)] IN
    /\ IsStablySorted(r.CollectedObjectInfo, collectedObjectInfo)
    /\ IsStablySorted(r.collectedEnumInfo, collectedEnumInfo)
    /\ IsStablySorted(r.CollectedClosedTypeGenericInfo, collectedClosedTypeGenericInfo)

\* Every call of Collect comes to an end, a result or an exception, whatever
\* cycles the program has.
CollectEnds == phase = "walking" ~> phase \in {"returned", "threw"}
=============================================================================
