--------------------- MODULE TypeCollectorForCompilation ---------------------
(***************************************************************************)
(* Stad.Analysis/TypeCollectorForCompilation.cs: the walk of               *)
(* TypeCollectorForAssembly over the symbols of a Roslyn compilation.  It  *)
(* marks every type it meets but describes only some: a type that is not   *)
(* public all the way out, that has no name (array, type parameter), or    *)
(* that a library declares, unless it is generic or an enum, is dropped.   *)
(*                                                                         *)
(* The recursion is a stack of frames of GetObjectInfo, with the loop of   *)
(* CollectGeneric in front.  disallowInternal is TRUE, what the program    *)
(* passes.  A full name is its rank.  No exception is caught on the way.   *)
(***************************************************************************)
EXTENDS OrderBy

CONSTANTS
  Types,         \* the symbols of types, up to Equals
  Names,         \* names of members
  None,          \* no base type or container; attributes never assigned
  Compilations   \* the compilations to choose from, each a Compilation

\* An array, pointer or type parameter is unnamed, a type no reference declares
\* is an error: Roslyn answers NotApplicable for the accessibility of both.
Shapes == {"enum", "generic", "segment", "source", "metadata", "unnamed", "error"}

PropertySymbol ==
  [name : Names, type : Types, indexer : BOOLEAN, static : BOOLEAN,
   publicGet : BOOLEAN, publicSet : BOOLEAN]
FieldSymbol ==
  [name : Names, type : Types, implicit : BOOLEAN, static : BOOLEAN,
   public : BOOLEAN, readOnly : BOOLEAN]

Compilation ==
  [declared   : Seq(Types),            \* GetNamedTypeSymbols: a partial type repeats
   shape      : [Types -> Shapes],
   public     : [Types -> BOOLEAN],    \* DeclaredAccessibility is Public
   container  : [Types -> Types \cup {None}],
   base       : [Types -> Types \cup {None}],
   arguments  : [Types -> Seq(Types)],
   properties : [Types -> Seq(PropertySymbol)],
   fields     : [Types -> Seq(FieldSymbol)],
   fullName   : [Types -> Nat],
   attributes : [Types -> Nat],
   arrays     : SUBSET Types]           \* an argument of their attributes is an array

\* The language forbids types that contain, or derive from, themselves.
Acyclic(above) ==
  \E rank \in [Types -> 1..Cardinality(Types)] :
    \A t \in Types : above[t] # None => rank[above[t]] < rank[t]

ASSUME TypesAssumption == IsFiniteSet(Types) /\ None \notin Types
ASSUME CompilationsAssumption ==
  /\ Compilations \subseteq Compilation
  /\ \A c \in Compilations :
       /\ Acyclic(c.container) /\ Acyclic(c.base)
       /\ \A t \in Types : c.shape[t] \in {"unnamed", "error"} => ~c.public[t]
       /\ \A t \in c.arrays : c.shape[t] # "error"

VARIABLES
  comp,                 \* the compilation of the constructor
  phase,                \* "idle", "walking" (in Collect), "returned" or "threw"
  target,               \* index in targetTypes of the loop in Collect
  stack,                \* frames of GetObjectInfo, the innermost last
  alreadyCollected,
  collectedObjectInfo,
  collectedEnumInfo,
  collectedClosedTypeGenericInfo,
  result                \* what the last call of Collect has returned

workspace == <<alreadyCollected, collectedObjectInfo, collectedEnumInfo,
               collectedClosedTypeGenericInfo>>
vars == <<comp, phase, target, stack, workspace, result>>

-----------------------------------------------------------------------------
(* What the collector asks of a symbol.                                    *)

\* The constructor: public types, whatever contains them.
TargetTypes(c) ==
  LET public[n \in 0..Len(c.declared)] ==
        IF n = 0 THEN << >>
        ELSE public[n - 1] \o (IF c.public[c.declared[n]] THEN <<c.declared[n]>> ELSE << >>)
  IN  public[Len(c.declared)]

\* The type and everything that contains it are public.
IsAllowAccessibility(c) ==
  LET allowed[t \in Types] ==
        c.public[t] /\ (c.container[t] # None => allowed[c.container[t]])
  IN  allowed

\* GetAllMembers: the members of t, then those of its base types.
GetAllMembers(c, members) ==
  LET all[t \in Types] ==
        members[t] \o (IF c.base[t] = None THEN << >> ELSE all[c.base[t]])
  IN  all

ArgumentUse(t) == [via |-> "argument", type |-> t, readable |-> TRUE,
                   writable |-> TRUE, name |-> None, attributes |-> None]

\* The attributes listed for a property are those of its type; an indexer is
\* passed over before they are asked for.
PropertyUse(c, p) ==
  [via |-> "property", type |-> p.type, name |-> p.name,
   attributes |-> IF p.indexer THEN None ELSE c.attributes[p.type],
   readable |-> p.publicGet /\ ~p.static /\ ~p.indexer,
   writable |-> p.publicSet /\ ~p.static /\ ~p.indexer]

FieldUse(f) ==
  [via |-> "field", type |-> f.type, name |-> f.name, attributes |-> None,
   readable |-> f.public /\ ~f.static /\ ~f.implicit,
   writable |-> f.public /\ ~f.readOnly /\ ~f.static /\ ~f.implicit]

\* Everything describing t goes through, in the order of the loops.
Uses(c, t) ==
  LET properties == GetAllMembers(c, c.properties)[t]
      fields == GetAllMembers(c, c.fields)[t]
  IN  (IF c.shape[t] = "generic"
         THEN [i \in 1..Len(c.arguments[t]) |-> ArgumentUse(c.arguments[t][i])]
         ELSE << >>)
      \o [i \in 1..Len(properties) |-> PropertyUse(c, properties[i])]
      \o [i \in 1..Len(fields) |-> FieldUse(fields[i])]

IsIncluded(u) == u.readable \/ u.writable

\* FromAttributeDataArray: the Value of an argument that is an array throws.
Converts(c, t) == t \notin c.arrays

\* The initialiser of a member converts its attributes, listed or not.
IsReadable(c, u) == u.attributes # None => Converts(c, u.type)

\* CollectCore and CollectGeneric go on to describe t: ArraySegment<byte> is
\* generic and left out, a library's class is described only if it is generic.
IsDescribed(c, t) ==
  IsAllowAccessibility(c)[t] /\ c.shape[t] \in {"enum", "generic", "source"}

\* Mutant: the symbol itself for its display string.
MutantMemberKeepsSymbol(c, u) ==
  [name |-> u.name, type |-> u.type, isProperty |-> TRUE, isField |-> FALSE,
   attributes |-> u.attributes]

MemberSerializationInfo(c, u) ==
  [name |-> u.name, type |-> c.fullName[u.type], isProperty |-> TRUE,
   isField |-> FALSE, attributes |-> u.attributes]

\* ObjectSerializationInfo; type stands for the fields computed from the symbol.
ObjectSerializationInfo(c, t, members) ==
  [type |-> t, fullName |-> c.fullName[t], members |-> members,
   attributes |-> c.attributes[t]]

EnumSerializationInfo(c, t) ==
  [type |-> t, fullName |-> c.fullName[t], attributes |-> c.attributes[t]]

-----------------------------------------------------------------------------
Init ==
  /\ comp \in Compilations
  /\ phase = "idle"
  /\ target = 1
  /\ stack = << >>
  /\ alreadyCollected = {}
  /\ collectedObjectInfo = << >>
  /\ collectedEnumInfo = << >>
  /\ collectedClosedTypeGenericInfo = << >>
  /\ result = None

\* Collect() is called, and resets the workspace.
Collect ==
  /\ phase # "walking"
  /\ phase' = "walking"
  /\ target' = 1
  /\ alreadyCollected' = {}
  /\ collectedObjectInfo' = << >>
  /\ collectedEnumInfo' = << >>
  /\ collectedClosedTypeGenericInfo' = << >>
  /\ UNCHANGED <<comp, stack, result>>

\* Mutant: the gate is passed only by types that are described.
MutantMarkDescribed(t, callers) ==
  /\ alreadyCollected' = alreadyCollected \cup {u \in {t} : IsDescribed(comp, u)}
  /\ IF IsDescribed(comp, t) /\ comp.shape[t] = "enum" /\ t \notin alreadyCollected
       THEN collectedEnumInfo' = Append(collectedEnumInfo, EnumSerializationInfo(comp, t))
       ELSE UNCHANGED collectedEnumInfo
  /\ stack' = IF IsDescribed(comp, t) /\ comp.shape[t] # "enum" /\ t \notin alreadyCollected
                THEN Append(callers, [type |-> t, next |-> 1, members |-> << >>])
                ELSE callers

\* Mutant: nothing stops a type from being described again.
MutantNoGate(t, callers) ==
  /\ alreadyCollected' = alreadyCollected \cup {t}
  /\ IF IsDescribed(comp, t) /\ comp.shape[t] = "enum"
       THEN collectedEnumInfo' = Append(collectedEnumInfo, EnumSerializationInfo(comp, t))
       ELSE UNCHANGED collectedEnumInfo
  /\ stack' = IF IsDescribed(comp, t) /\ comp.shape[t] # "enum" /\ Len(callers) < 4
                THEN Append(callers, [type |-> t, next |-> 1, members |-> << >>])
                ELSE callers

\* Mutant: an enum of a library is dropped like its classes.
MutantDropEnum(t, callers) ==
  /\ alreadyCollected' = alreadyCollected \cup {t}
  /\ UNCHANGED collectedEnumInfo
  /\ stack' = IF t \notin alreadyCollected /\ IsDescribed(comp, t) /\ comp.shape[t] # "enum"
                THEN Append(callers, [type |-> t, next |-> 1, members |-> << >>])
                ELSE callers

\* CollectCore(t) called with the frames `callers' below it: t is marked, and an
\* enum is described on the spot, another type that is not dropped opens a frame.
CollectCore(t, callers) ==
  /\ alreadyCollected' = alreadyCollected \cup {t}
  /\ \/ /\ t \in alreadyCollected \/ ~IsDescribed(comp, t)
        /\ stack' = callers
        /\ UNCHANGED collectedEnumInfo
     \/ /\ t \notin alreadyCollected /\ IsDescribed(comp, t)
        /\ comp.shape[t] = "enum"
        /\ Converts(comp, t)
        /\ collectedEnumInfo' = Append(collectedEnumInfo, EnumSerializationInfo(comp, t))
        /\ stack' = callers
     \/ /\ t \notin alreadyCollected /\ IsDescribed(comp, t)
        /\ comp.shape[t] # "enum"
        /\ stack' = Append(callers, [type |-> t, next |-> 1, members |-> << >>])
        /\ UNCHANGED collectedEnumInfo

\* One turn of the loop over targetTypes.
CollectTarget ==
  /\ phase = "walking"
  /\ stack = << >>
  /\ target <= Len(TargetTypes(comp))
  /\ target' = target + 1
  /\ CollectCore(TargetTypes(comp)[target], << >>)
  /\ UNCHANGED <<comp, phase, collectedObjectInfo, collectedClosedTypeGenericInfo, result>>

Top == stack[Len(stack)]
Callers == SubSeq(stack, 1, Len(stack) - 1)
TopUse == Uses(comp, Top.type)[Top.next]
InUse == phase = "walking" /\ stack # << >> /\ Top.next <= Len(Uses(comp, Top.type))

\* The frame of the innermost activation, one turn of its loop later.
Advanced(members) ==
  Append(Callers, [type |-> Top.type, next |-> Top.next + 1, members |-> members])

\* CollectGeneric: a type argument.
CollectArgument ==
  /\ InUse
  /\ TopUse.via = "argument"
  /\ CollectCore(TopUse.type, Advanced(Top.members))
  /\ UNCHANGED <<comp, phase, target, collectedObjectInfo, collectedClosedTypeGenericInfo, result>>

\* Mutant: the `continue' stands in front of the initialiser.
MutantSkipUnread ==
  /\ InUse
  /\ ~IsIncluded(TopUse)
  /\ stack' = Advanced(Top.members)
  /\ UNCHANGED <<comp, phase, target, workspace, result>>

\* GetObjectInfo: an indexer, a field the compiler adds, or a member that is
\* neither readable nor writable (`continue').
SkipMember ==
  /\ InUse
  /\ ~IsIncluded(TopUse)
  /\ IsReadable(comp, TopUse)
  /\ stack' = Advanced(Top.members)
  /\ UNCHANGED <<comp, phase, target, workspace, result>>

\* GetObjectInfo: any other member is listed, then its type is collected.
CollectMember ==
  /\ InUse
  /\ TopUse.via # "argument"
  /\ IsIncluded(TopUse)
  /\ IsReadable(comp, TopUse)
  /\ CollectCore(TopUse.type,
                 Advanced(Append(Top.members, MemberSerializationInfo(comp, TopUse))))
  /\ UNCHANGED <<comp, phase, target, collectedObjectInfo, collectedClosedTypeGenericInfo, result>>

\* GetObjectInfo returns to CollectObject or CollectGeneric, which adds the info.
FinishType ==
  /\ phase = "walking"
  /\ stack # << >>
  /\ Top.next > Len(Uses(comp, Top.type))
  /\ Converts(comp, Top.type)
  /\ LET info == ObjectSerializationInfo(comp, Top.type, Top.members)
     IN  \/ /\ comp.shape[Top.type] = "source"
            /\ collectedObjectInfo' = Append(collectedObjectInfo, info)
            /\ UNCHANGED collectedClosedTypeGenericInfo
         \/ /\ comp.shape[Top.type] = "generic"
            /\ collectedClosedTypeGenericInfo' = Append(collectedClosedTypeGenericInfo, info)
            /\ UNCHANGED collectedObjectInfo
  /\ stack' = Callers
  /\ UNCHANGED <<comp, phase, target, alreadyCollected, collectedEnumInfo, result>>

\* Collect() returns.
ReturnResult ==
  /\ phase = "walking"
  /\ stack = << >>
  /\ target > Len(TargetTypes(comp))
  /\ phase' = "returned"
  /\ result' = [CollectedObjectInfo            |-> OrderByFullName(collectedObjectInfo),
                collectedEnumInfo              |-> OrderByFullName(collectedEnumInfo),
                CollectedClosedTypeGenericInfo |-> OrderByFullName(collectedClosedTypeGenericInfo)]
  /\ UNCHANGED <<comp, target, stack, workspace>>

\* An exception leaves every open activation and Collect itself.
Unwind ==
  /\ phase' = "threw"
  /\ stack' = << >>
  /\ UNCHANGED <<comp, target, collectedObjectInfo, collectedEnumInfo,
                 collectedClosedTypeGenericInfo, result>>

\* What CollectCore is called with next.
Calls(t) ==
  \/ /\ stack = << >> /\ target <= Len(TargetTypes(comp))
     /\ t = TargetTypes(comp)[target]
  \/ InUse /\ IsIncluded(TopUse) /\ IsReadable(comp, TopUse) /\ t = TopUse.type

\* CollectEnum: behind the gate.
EnumThrows ==
  /\ phase = "walking"
  /\ \E t \in Types :
       /\ Calls(t)
       /\ t \notin alreadyCollected /\ IsDescribed(comp, t)
       /\ comp.shape[t] = "enum"
       /\ ~Converts(comp, t)
       /\ alreadyCollected' = alreadyCollected \cup {t}
  /\ Unwind

\* GetObjectInfo: in the initialiser of a member, before the `continue'.
MemberThrows ==
  /\ InUse
  /\ ~IsReadable(comp, TopUse)
  /\ Unwind
  /\ UNCHANGED alreadyCollected

\* GetObjectInfo: in the initialiser of the info, behind the loops.
InfoThrows ==
  /\ phase = "walking"
  /\ stack # << >>
  /\ Top.next > Len(Uses(comp, Top.type))
  /\ ~Converts(comp, Top.type)
  /\ Unwind
  /\ UNCHANGED alreadyCollected

\* The caller may never call Collect (again); inside Collect the thread runs on.
Walk == CollectTarget \/ CollectArgument \/ SkipMember \/ CollectMember \/ FinishType
Throw == EnumThrows \/ MemberThrows \/ InfoThrows
Next == Collect \/ Walk \/ Throw \/ ReturnResult

Spec == Init /\ [][Next]_vars

-----------------------------------------------------------------------------
(* Properties.                                                             *)

Members == [name : Names, type : Nat, isProperty : BOOLEAN, isField : BOOLEAN,
            attributes : Nat \cup {None}]
Frames == [type : Types, next : Nat \ {0}, members : Seq(Members)]
ObjectInfos == [type : Types, fullName : Nat, members : Seq(Members), attributes : Nat]
EnumInfos == [type : Types, fullName : Nat, attributes : Nat]
Results == [CollectedObjectInfo : Seq(ObjectInfos), collectedEnumInfo : Seq(EnumInfos),
            CollectedClosedTypeGenericInfo : Seq(ObjectInfos)]

\* The workspace, the recursion and the loop variables have their types.
TypeOK ==
  /\ comp \in Compilation
  /\ phase \in {"idle", "walking", "returned", "threw"}
  /\ target \in Nat \ {0}
  /\ stack \in Seq(Frames)
  /\ alreadyCollected \subseteq Types
  /\ collectedObjectInfo \in Seq(ObjectInfos)
  /\ collectedEnumInfo \in Seq(EnumInfos)
  /\ collectedClosedTypeGenericInfo \in Seq(ObjectInfos)
  /\ result \in Results \cup {None}

TypesOf(s) == [i \in DOMAIN s |-> s[i].type]
ElementsOf(s) == {s[i] : i \in DOMAIN s}

\* The gate of CollectCore comes before every test that drops a type: until an
\* exception leaves Collect, a type the walk has marked is dropped for good, or is
\* described exactly once, or has exactly one activation of GetObjectInfo open, although
\* partial types are targets several times and programs are cyclic.
DescribedOnce ==
  phase # "threw" =>
    LET all == TypesOf(collectedObjectInfo) \o TypesOf(collectedEnumInfo)
                 \o TypesOf(collectedClosedTypeGenericInfo) \o TypesOf(stack)
    IN  /\ ElementsOf(all) = {t \in alreadyCollected : IsDescribed(comp, t)}
        /\ Len(all) = Cardinality(ElementsOf(all))

\* The types a visit to t leads to; none if t is dropped.
UsedTypes(c, t) ==
  IF IsDescribed(c, t) /\ c.shape[t] # "enum"
    THEN {Uses(c, t)[i].type : i \in {j \in DOMAIN Uses(c, t) : IsIncluded(Uses(c, t)[j])}}
    ELSE {}

Closure == INSTANCE TypeClosure WITH
  roots <- ElementsOf(TargetTypes(comp)),
  uses  <- [t \in Types |-> UsedTypes(comp, t)],
  known <- alreadyCollected,
  phase <- phase

\* Every step of the walk discovers one more type that a target leads to, not
\* through a dropped one, or none, and Collect returns only when no such type is
\* left: the walk implements the abstract collection.
ImplementsTypeClosure == Closure!Spec

\* Describing t converts its attributes and those of the type of every property,
\* listed or not, but an indexer.
IsDescribable(c, t) ==
  /\ Converts(c, t)
  /\ c.shape[t] # "enum" => \A i \in DOMAIN Uses(c, t) : IsReadable(c, Uses(c, t)[i])

\* One attribute with an array argument on a reachable type that is described, or
\* on the type of one of its properties even if that is dropped, costs the whole
\* result; an attribute that no description reads costs nothing.
ThrowsHaveCause ==
  LET described == {t \in Closure!Reachable : IsDescribed(comp, t)}
  IN  /\ phase = "threw" => \E t \in described : ~IsDescribable(comp, t)
      /\ phase = "returned" => \A t \in described : IsDescribable(comp, t)

\* StadAnalyzer looks the types of members up by name, and throws or links
\* nothing if it finds none.  In a result that can only happen for the name of a
\* type that is dropped, never because the walk has not come to it.
MissingOnlyIfDropped ==
  result # None =>
    LET objects == ElementsOf(result.CollectedObjectInfo)
                     \cup ElementsOf(result.CollectedClosedTypeGenericInfo)
        names == {i.fullName : i \in objects \cup ElementsOf(result.collectedEnumInfo)}
    IN  \A i \in objects : \A m \in ElementsOf(i.members) :
          \/ m.type \in names
          \/ \E t \in Types : comp.fullName[t] = m.type /\ ~IsDescribed(comp, t)
=============================================================================
