------------------------ MODULE TypeCollectorProofs ------------------------
(***************************************************************************)
(* Proofs about TypeCollectorForAssembly, for every set of types and every *)
(* program: the type invariant; that a Collect which returns has collected *)
(* exactly the reachable types, each once; that the walk implements        *)
(* TypeClosure; and that what Collect answers is sorted, names nothing it  *)
(* does not describe, and is the same every time.                          *)
(***************************************************************************)
EXTENDS TypeCollectorForAssembly, FiniteSetTheorems, SequenceTheorems, TLAPS

UseRecords ==
  [via : {"argument", "property", "field"}, type : Types, readable : BOOLEAN,
   writable : BOOLEAN, name : Names \cup {Unset},
   attributes : Seq(Attributes) \cup {Unset}]

(* The uses of a type are in a set when what it is made of is.             *)
LEMMA UsesIn ==
  ASSUME NEW a \in Assembly, NEW t \in Types, NEW S,
         \A u \in Types : ArgumentUse(u) \in S,
         \A p \in PropertyInfo : PropertyUse(p) \in S,
         \A f \in FieldInfo : FieldUse(f) \in S
  PROVE  Uses(a, t) \in Seq(S)
<1> DEFINE
  A1 == IF a.kind[t] = "generic"
          THEN [i \in 1..Len(a.arguments[t]) |-> ArgumentUse(a.arguments[t][i])]
          ELSE << >>
  P1 == [i \in 1..Len(a.properties[t]) |-> PropertyUse(a.properties[t][i])]
  F1 == [i \in 1..Len(a.fields[t]) |-> FieldUse(a.fields[t][i])]
<1>1. /\ a.arguments[t] \in Seq(Types)
      /\ a.properties[t] \in Seq(PropertyInfo)
      /\ a.fields[t] \in Seq(FieldInfo)
  BY DEF Assembly
<1>2. /\ \A i \in 1..Len(a.arguments[t]) : a.arguments[t][i] \in Types
      /\ \A i \in 1..Len(a.properties[t]) : a.properties[t][i] \in PropertyInfo
      /\ \A i \in 1..Len(a.fields[t]) : a.fields[t][i] \in FieldInfo
  BY <1>1, ElementOfSeq
<1>3. /\ Len(a.arguments[t]) \in Nat
      /\ Len(a.properties[t]) \in Nat
      /\ Len(a.fields[t]) \in Nat
  BY <1>1, LenProperties
<1>4. A1 \in Seq(S)
  BY <1>2, <1>3
<1>5. P1 \in Seq(S)
  BY <1>2, <1>3
<1>6. F1 \in Seq(S)
  BY <1>2, <1>3
<1>7. Uses(a, t) = A1 \o P1 \o F1
  BY DEF Uses
<1> HIDE DEF A1, P1, F1
<1> QED BY <1>4, <1>5, <1>6, <1>7, ConcatProperties

(* The uses of a type are well-formed records.                             *)
LEMMA UsesType ==
  ASSUME NEW a \in Assembly, NEW t \in Types
  PROVE  Uses(a, t) \in Seq(UseRecords)
<1>1. /\ \A u \in Types : ArgumentUse(u) \in UseRecords
      /\ \A p \in PropertyInfo : PropertyUse(p) \in UseRecords
      /\ \A f \in FieldInfo : FieldUse(f) \in UseRecords
  BY DEF ArgumentUse, PropertyUse, FieldUse, PropertyInfo, FieldInfo, UseRecords
<1> QED BY <1>1, UsesIn

(* A type argument is always collected: the test of members is not for it. *)
LEMMA ArgumentsIncluded ==
  ASSUME NEW a \in Assembly, NEW t \in Types
  PROVE  \A i \in DOMAIN Uses(a, t) :
           Uses(a, t)[i].via = "argument" => IsIncluded(Uses(a, t)[i])
<1> DEFINE Good == {u \in UseRecords : u.via = "argument" => IsIncluded(u)}
<1>1. /\ \A u \in Types : ArgumentUse(u) \in Good
      /\ \A p \in PropertyInfo : PropertyUse(p) \in Good
      /\ \A f \in FieldInfo : FieldUse(f) \in Good
  BY DEF ArgumentUse, PropertyUse, FieldUse, PropertyInfo, FieldInfo, UseRecords, IsIncluded
<1>2. Uses(a, t) \in Seq(Good)
  <2> HIDE DEF Good
  <2> QED BY <1>1, UsesIn
<1>3. \A i \in DOMAIN Uses(a, t) : Uses(a, t)[i] \in Good
  <2> HIDE DEF Good
  <2> QED BY <1>2, ElementOfSeq, LenProperties
<1> QED BY <1>3

(* The stack is the frames of the callers and the innermost frame.         *)
LEMMA TopType ==
  ASSUME TypeOK, stack # << >>
  PROVE  /\ Top \in Frames
         /\ Callers \in Seq(Frames)
         /\ Len(Callers) = Len(stack) - 1
         /\ \A i \in 1..Len(Callers) : Callers[i] = stack[i]
         /\ Len(stack) \in 1..Len(stack)
<1>1. stack \in Seq(Frames) /\ Len(stack) \in Nat /\ Len(stack) # 0
  BY EmptySeq, LenProperties DEF TypeOK
<1>2. Len(stack) \in 1..Len(stack)
  BY <1>1
<1>3. Top \in Frames
  BY <1>1, <1>2, ElementOfSeq DEF Top
<1>4. /\ Callers \in Seq(Frames)
      /\ Len(Callers) = Len(stack) - 1
      /\ \A i \in 1..Len(Callers) : Callers[i] = stack[i]
  <2> DEFINE n == Len(stack) - 1
  <2>1. n \in Nat /\ n \in Int /\ 1 \in Int
    BY <1>1
  <2>2. \A i \in 1..n : stack[i] \in Frames
    BY <1>1, <2>1, ElementOfSeq
  <2>3. /\ SubSeq(stack, 1, n) \in Seq(Frames)
        /\ Len(SubSeq(stack, 1, n)) = IF 1 <= n THEN n - 1 + 1 ELSE 0
        /\ \A i \in 1..n - 1 + 1 : SubSeq(stack, 1, n)[i] = stack[1 + i - 1]
    <3> HIDE DEF n
    <3> QED BY <2>1, <2>2, SubSeqProperties
  <2>4. /\ n - 1 + 1 = n
        /\ (IF 1 <= n THEN n - 1 + 1 ELSE 0) = n
        /\ \A i \in 1..n : 1 + i - 1 = i
    <3> HIDE DEF n
    <3> QED BY <2>1
  <2> QED BY <2>3, <2>4 DEF Callers
<1> QED BY <1>2, <1>3, <1>4

(* What the innermost frame meets next, and that frame one turn later.     *)
LEMMA TopUseType ==
  ASSUME TypeOK, InUse, NEW members \in Seq(Members)
  PROVE  /\ TopUse \in UseRecords
         /\ Advanced(members) \in Seq(Frames)
         /\ Top.next \in DOMAIN Uses(asm, Top.type)
<1>1. Top \in Frames /\ Callers \in Seq(Frames)
  BY TopType DEF InUse
<1>2. Uses(asm, Top.type) \in Seq(UseRecords)
  BY <1>1, UsesType DEF TypeOK, Frames
<1>3. Top.next \in 1..Len(Uses(asm, Top.type))
  BY <1>1, <1>2 DEF InUse, Frames
<1>4. [type |-> Top.type, next |-> Top.next + 1, members |-> members] \in Frames
  BY <1>1 DEF Frames
<1>5. Advanced(members) \in Seq(Frames)
  BY <1>1, <1>4, AppendProperties DEF Advanced
<1> QED BY <1>2, <1>3, <1>5, ElementOfSeq DEF TopUse

LEMMA MemberType ==
  ASSUME NEW a \in Assembly, NEW u \in UseRecords
  PROVE  MemberSerializationInfo(a, u) \in Members
<1>1. u.type \in Types /\ u.name \in Names \cup {Unset}
      /\ u.attributes \in Seq(Attributes) \cup {Unset}
  BY DEF UseRecords
<1>2. a.fullName[u.type] \in Nat
  BY <1>1 DEF Assembly
<1> QED BY <1>1, <1>2 DEF MemberSerializationInfo, Members

(* CollectCore leaves the workspace well formed.                           *)
LEMMA CollectCoreType ==
  ASSUME TypeOK, NEW t \in Types, NEW callers \in Seq(Frames), CollectCore(t, callers)
  PROVE  /\ stack' \in Seq(Frames)
         /\ alreadyCollected' \subseteq Types
         /\ collectedEnumInfo' \in Seq(EnumInfos)
<1>1. [type |-> t, next |-> 1, members |-> << >>] \in Frames
  BY DEF Frames
<1>2. EnumSerializationInfo(asm, t) \in EnumInfos
  BY DEF EnumSerializationInfo, EnumInfos, TypeOK, Assembly
<1>3. /\ Append(callers, [type |-> t, next |-> 1, members |-> << >>]) \in Seq(Frames)
      /\ Append(collectedEnumInfo, EnumSerializationInfo(asm, t)) \in Seq(EnumInfos)
  BY <1>1, <1>2, AppendProperties DEF TypeOK
<1>4. CASE t \in alreadyCollected
  BY <1>4 DEF CollectCore, TypeOK
<1>5. CASE t \notin alreadyCollected
  BY <1>3, <1>5 DEF CollectCore, TypeOK
<1> QED BY <1>4, <1>5

(* A throw ends the walk: nothing is open then, and at most the type        *)
(* CollectCore was called with has been added.                             *)
LEMMA ThrowEffect ==
  ASSUME Throw
  PROVE  /\ phase = "walking" /\ phase' = "threw" /\ stack' = << >>
         /\ UNCHANGED <<asm, target, collectedObjectInfo, collectedEnumInfo,
                        collectedClosedTypeGenericInfo, results>>
         /\ \/ alreadyCollected' = alreadyCollected
            \/ \E t \in Types : Calls(t) /\ alreadyCollected' = alreadyCollected \cup {t}
BY DEF Throw, EnumThrows, MemberThrows, InfoThrows, Unwind, InUse

(* The workspace, the recursion and the loop of Collect keep their types,  *)
(* in every program and after any number of steps.                         *)
THEOREM TypeCorrect == Spec => []TypeOK
<1>1. Init => TypeOK
  BY AssembliesAssumption DEF Init, TypeOK
<1>2. TypeOK /\ [Next]_vars => TypeOK'
  <2> SUFFICES ASSUME TypeOK, [Next]_vars PROVE TypeOK'
    OBVIOUS
  <2>1. CASE Collect
    BY <2>1 DEF TypeOK, Collect, ResetWorkspace
  <2>2. CASE CollectTarget
    <3>1. asm.allTypes[target] \in Types
      <4>1. asm.allTypes \in Seq(Types)
        BY DEF TypeOK, Assembly
      <4> QED BY <2>2, <4>1, ElementOfSeq DEF CollectTarget, TypeOK
    <3>2. << >> \in Seq(Frames)
      OBVIOUS
    <3>3. /\ stack' \in Seq(Frames)
          /\ alreadyCollected' \subseteq Types
          /\ collectedEnumInfo' \in Seq(EnumInfos)
      BY <2>2, <3>1, <3>2, CollectCoreType DEF CollectTarget
    <3> QED BY <2>2, <3>3 DEF CollectTarget, TypeOK
  <2>3. CASE CollectArgument
    <3>1. TopUse \in UseRecords /\ Advanced(Top.members) \in Seq(Frames)
      BY <2>3, TopType, TopUseType DEF CollectArgument, InUse, Frames
    <3>2. /\ stack' \in Seq(Frames)
          /\ alreadyCollected' \subseteq Types
          /\ collectedEnumInfo' \in Seq(EnumInfos)
      BY <2>3, <3>1, CollectCoreType DEF CollectArgument, UseRecords
    <3> QED BY <2>3, <3>2 DEF CollectArgument, TypeOK
  <2>4. CASE SkipMember
    <3>1. Advanced(Top.members) \in Seq(Frames)
      BY <2>4, TopType, TopUseType DEF SkipMember, InUse, Frames
    <3> QED BY <2>4, <3>1 DEF SkipMember, TypeOK, workspace
  <2>5. CASE CollectMember
    <3>1. Top.members \in Seq(Members)
      BY <2>5, TopType DEF CollectMember, InUse, Frames
    <3>2. TopUse \in UseRecords
      BY <2>5, <3>1, TopUseType DEF CollectMember
    <3>3. Append(Top.members, MemberSerializationInfo(asm, TopUse)) \in Seq(Members)
      BY <3>1, <3>2, MemberType, AppendProperties DEF TypeOK
    <3>4. Advanced(Append(Top.members, MemberSerializationInfo(asm, TopUse))) \in Seq(Frames)
      BY <2>5, <3>3, TopUseType DEF CollectMember
    <3>5. /\ stack' \in Seq(Frames)
          /\ alreadyCollected' \subseteq Types
          /\ collectedEnumInfo' \in Seq(EnumInfos)
      BY <2>5, <3>2, <3>4, CollectCoreType DEF CollectMember, UseRecords
    <3> QED BY <2>5, <3>5 DEF CollectMember, TypeOK
  <2>6. CASE FinishType
    <3>1. Top \in Frames /\ Callers \in Seq(Frames)
      BY <2>6, TopType DEF FinishType
    <3>2. ObjectSerializationInfo(asm, Top.type, Top.members) \in ObjectInfos
      BY <3>1 DEF ObjectSerializationInfo, ObjectInfos, Frames, TypeOK, Assembly
    <3>3. /\ collectedObjectInfo' \in Seq(ObjectInfos)
          /\ collectedClosedTypeGenericInfo' \in Seq(ObjectInfos)
      <4>1. /\ Append(collectedObjectInfo,
                     ObjectSerializationInfo(asm, Top.type, Top.members)) \in Seq(ObjectInfos)
            /\ Append(collectedClosedTypeGenericInfo,
                     ObjectSerializationInfo(asm, Top.type, Top.members)) \in Seq(ObjectInfos)
        BY <3>2, AppendProperties DEF TypeOK
      <4> QED BY <2>6, <4>1 DEF FinishType, AddInfo, TypeOK
    <3> QED BY <2>6, <3>1, <3>3 DEF FinishType, TypeOK
  <2>7. CASE ReturnResult
    BY <2>7 DEF TypeOK, ReturnResult, workspace
  <2>8. CASE Throw
    BY <2>8, ThrowEffect DEF TypeOK
  <2>9. CASE UNCHANGED vars
    BY <2>9 DEF TypeOK, vars, workspace
  <2> QED BY <2>1, <2>2, <2>3, <2>4, <2>5, <2>6, <2>7, <2>8, <2>9 DEF Next, Walk
<1> QED BY <1>1, <1>2, PTL DEF Spec

-----------------------------------------------------------------------------
(* Collected types are the reachable types.                                *)

(* What a call of CollectCore does to the set of types and to the stack.   *)
LEMMA CollectCoreEffect ==
  ASSUME NEW t, NEW callers, CollectCore(t, callers)
  PROVE  /\ alreadyCollected' = alreadyCollected \cup {t}
         /\ \/ /\ stack' = callers
               /\ \/ t \in alreadyCollected
                  \/ asm.kind[t] = "enum" /\ Converts(asm.attributes[t])
            \/ /\ stack' = Append(callers, [type |-> t, next |-> 1, members |-> << >>])
               /\ asm.kind[t] # "enum"
<1>1. CASE t \in alreadyCollected
  BY <1>1 DEF CollectCore
<1>2. CASE t \notin alreadyCollected
  BY <1>2 DEF CollectCore
<1> QED BY <1>1, <1>2

(* A call of CollectCore preserves the invariant when the type called with *)
(* is reachable and the frames of the callers are in order.                *)
LEMMA CollectCoreKeepsInv ==
  ASSUME TypeOK, OnlyReachable, FinishedOrOpen, asm' = asm, phase = "walking",
         NEW t \in Types, NEW callers \in Seq(Frames), CollectCore(t, callers),
         \A S \in SUBSET Types : Closure!IsClosed(S) => t \in S,
         \A i \in DOMAIN callers : HasMet(callers[i], alreadyCollected \cup {t}),
         \A i \in DOMAIN stack : \E k \in DOMAIN callers : callers[k].type = stack[i].type
  PROVE  OnlyReachable' /\ FramesHaveMet' /\ FinishedOrOpen'
<1> DEFINE frame == [type |-> t, next |-> 1, members |-> << >>]
<1>1. /\ alreadyCollected' = alreadyCollected \cup {t}
      /\ \/ /\ stack' = callers
            /\ \/ t \in alreadyCollected
               \/ asm.kind[t] = "enum" /\ Converts(asm.attributes[t])
         \/ stack' = Append(callers, frame) /\ asm.kind[t] # "enum"
  BY CollectCoreEffect
<1>2. frame \in Frames
  BY DEF Frames
<1>3. /\ Append(callers, frame) \in Seq(Frames)
      /\ Len(Append(callers, frame)) = Len(callers) + 1
      /\ \A i \in 1..Len(callers) : Append(callers, frame)[i] = callers[i]
      /\ Append(callers, frame)[Len(callers) + 1] = frame
      /\ DOMAIN Append(callers, frame) = 1..Len(callers) + 1
      /\ DOMAIN callers = 1..Len(callers)
      /\ Len(callers) \in Nat
  BY <1>2, AppendProperties, LenProperties
<1>4. \A i \in DOMAIN callers :
        \E k \in DOMAIN stack' : stack'[k] = callers[i]
  <2> SUFFICES ASSUME NEW i \in DOMAIN callers
               PROVE  \E k \in DOMAIN stack' : stack'[k] = callers[i]
    OBVIOUS
  <2> HIDE DEF frame
  <2>1. CASE stack' = callers
    BY <2>1
  <2>2. CASE stack' = Append(callers, frame)
    <3>1. i \in DOMAIN stack' /\ stack'[i] = callers[i]
      BY <1>3, <2>2
    <3> QED BY <3>1
  <2> QED BY <1>1, <2>1, <2>2
<1>5. OnlyReachable'
  <2>1. \A S : Closure!IsClosed(S)' <=> Closure!IsClosed(S)
    BY DEF Closure!IsClosed, ElementsOf, UsedTypes
  <2> QED BY <1>1, <2>1 DEF OnlyReachable
<1>6. FramesHaveMet'
  <2>1. \A f : HasMet(f, alreadyCollected)' <=> HasMet(f, alreadyCollected \cup {t})
    BY <1>1 DEF HasMet
  <2>2. HasMet(frame, alreadyCollected \cup {t}) \/ asm.kind[t] = "enum"
    <3>1. \A j \in DOMAIN Uses(asm, t) : ~(j < 1)
      BY UsesType, LenProperties DEF TypeOK
    <3>2. frame.type = t /\ frame.next = 1
      OBVIOUS
    <3> HIDE DEF frame
    <3> QED BY <3>1, <3>2 DEF HasMet
  <2>3. CASE stack' = callers
    BY <2>1, <2>3 DEF FramesHaveMet
  <2>4. CASE stack' = Append(callers, frame) /\ asm.kind[t] # "enum"
    <3> SUFFICES ASSUME NEW i \in DOMAIN stack' PROVE HasMet(stack'[i], alreadyCollected \cup {t})
      BY <2>1 DEF FramesHaveMet
    <3>1. i \in DOMAIN callers \/ i = Len(callers) + 1
      <4> HIDE DEF frame
      <4> QED BY <1>3, <2>4
    <3>2. CASE i \in DOMAIN callers
      <4>1. stack'[i] = callers[i]
        BY <1>3, <2>4, <3>2
      <4> QED BY <3>2, <4>1
    <3>3. CASE i = Len(callers) + 1
      <4>1. stack'[i] = frame
        BY <1>3, <2>4, <3>3
      <4> QED BY <2>2, <2>4, <4>1
    <3> QED BY <3>1, <3>2, <3>3
  <2> QED BY <1>1, <2>3, <2>4
<1>7. FinishedOrOpen'
  <2>0. \A u : IsFinished(u)' <=> UsedTypes(asm, u) \subseteq alreadyCollected'
                                    /\ IsDescribable(asm, u)
    BY DEF IsFinished, UsedTypes, IsDescribable
  <2> SUFFICES ASSUME NEW u \in alreadyCollected'
               PROVE  \/ UsedTypes(asm, u) \subseteq alreadyCollected' /\ IsDescribable(asm, u)
                      \/ \E k \in DOMAIN stack' : stack'[k].type = u
    BY <2>0 DEF FinishedOrOpen
  <2>1. CASE u \in alreadyCollected
    <3>1. CASE IsFinished(u)
      BY <1>1, <3>1 DEF IsFinished
    <3>2. CASE \E i \in DOMAIN stack : stack[i].type = u
      BY <1>4, <3>2
    <3> QED BY <2>1, <3>1, <3>2 DEF FinishedOrOpen
  <2>2. CASE u \notin alreadyCollected
    <3>1. u = t
      BY <1>1, <2>2
    <3>2. CASE asm.kind[t] = "enum"
      BY <1>1, <2>2, <3>1, <3>2 DEF UsedTypes, IsDescribable
    <3>3. CASE asm.kind[t] # "enum"
      <4>1. stack' = Append(callers, frame)
        BY <1>1, <2>2, <3>1, <3>3
      <4>2. Len(callers) + 1 \in DOMAIN stack' /\ stack'[Len(callers) + 1] = frame
        <5> HIDE DEF frame
        <5> QED BY <1>3, <4>1
      <4> QED BY <3>1, <4>2
    <3> QED BY <3>2, <3>3
  <2> QED BY <2>1, <2>2
<1> QED BY <1>5, <1>6, <1>7

(* The use the innermost loop has come to is one of the types its type     *)
(* uses, so every closed set that holds what is collected holds it too.    *)
LEMMA TopUseReachable ==
  ASSUME TypeOK, FramesHaveMet, OnlyReachable, InUse, IsIncluded(TopUse)
  PROVE  /\ Top.type \in alreadyCollected
         /\ TopUse.type \in UsedTypes(asm, Top.type)
         /\ \A S \in SUBSET Types : Closure!IsClosed(S) => TopUse.type \in S
<1>1. HasMet(Top, alreadyCollected)
  <2>1. Len(stack) \in DOMAIN stack
    BY TopType, LenProperties DEF InUse, TypeOK
  <2> QED BY <2>1 DEF FramesHaveMet, Top
<1>2. << >> \in Seq(Members)
  OBVIOUS
<1>3. Top.next \in DOMAIN Uses(asm, Top.type)
  BY <1>2, TopUseType
<1>4. TopUse.type \in UsedTypes(asm, Top.type)
  BY <1>1, <1>3 DEF HasMet, UsedTypes, TopUse
<1>5. Top.type \in Types
  BY <1>1 DEF HasMet, TypeOK
<1>6. ASSUME NEW S \in SUBSET Types, Closure!IsClosed(S)
      PROVE  TopUse.type \in S
  <2>1. Top.type \in S
    BY <1>1, <1>6 DEF OnlyReachable, HasMet
  <2> QED BY <1>4, <1>5, <1>6, <2>1 DEF Closure!IsClosed
<1> QED BY <1>1, <1>4, <1>6 DEF HasMet

(* The stack one turn later is in order once the use it passed is known.   *)
LEMMA AdvancedHasMet ==
  ASSUME TypeOK, FramesHaveMet, InUse, NEW members \in Seq(Members),
         NEW known, alreadyCollected \subseteq known, IsReadable(asm, TopUse),
         IsIncluded(TopUse) => TopUse.type \in known
  PROVE  /\ \A i \in DOMAIN Advanced(members) : HasMet(Advanced(members)[i], known)
         /\ \A i \in DOMAIN stack :
              \E k \in DOMAIN Advanced(members) : Advanced(members)[k].type = stack[i].type
<1> DEFINE top == [type |-> Top.type, next |-> Top.next + 1, members |-> members]
<1>1. /\ Top \in Frames /\ Callers \in Seq(Frames)
      /\ Len(Callers) = Len(stack) - 1
      /\ \A i \in 1..Len(Callers) : Callers[i] = stack[i]
      /\ Len(stack) \in 1..Len(stack)
      /\ DOMAIN stack = 1..Len(stack)
  BY TopType, LenProperties DEF InUse, TypeOK
<1>2. top \in Frames /\ top.type = Top.type /\ top.next = Top.next + 1 /\ Top.next \in Nat
  BY <1>1 DEF Frames
<1>3. Advanced(members) = Append(Callers, top)
  BY DEF Advanced
<1>4. Top = stack[Len(stack)]
  BY DEF Top
<1>5. HasMet(Top, alreadyCollected)
  BY <1>1, <1>4 DEF FramesHaveMet
<1>6. Top.next \in DOMAIN Uses(asm, Top.type) /\ DOMAIN Uses(asm, Top.type) \subseteq Nat
  <2>1. Top.type \in Types /\ asm \in Assembly /\ Top.members \in Seq(Members)
    BY <1>1 DEF Frames, TypeOK
  <2>2. Uses(asm, Top.type) \in Seq(UseRecords)
    BY <2>1, UsesType
  <2>3. DOMAIN Uses(asm, Top.type) = 1..Len(Uses(asm, Top.type))
        /\ Len(Uses(asm, Top.type)) \in Nat
    BY <2>2, LenProperties
  <2>4. Top.next \in DOMAIN Uses(asm, Top.type)
    BY <2>1, TopUseType
  <2> QED BY <2>3, <2>4
<1> HIDE DEF top
<1>7. /\ DOMAIN Advanced(members) = DOMAIN stack
      /\ \A i \in DOMAIN stack : i # Len(stack) => Advanced(members)[i] = stack[i]
      /\ Advanced(members)[Len(stack)] = top
  BY <1>1, <1>2, <1>3, AppendProperties, LenProperties
<1>8. HasMet(top, known)
  <2>1. ASSUME NEW j \in DOMAIN Uses(asm, Top.type), j < Top.next + 1
        PROVE  /\ IsReadable(asm, Uses(asm, Top.type)[j])
               /\ IsIncluded(Uses(asm, Top.type)[j]) => Uses(asm, Top.type)[j].type \in known
    <3>1. j < Top.next \/ j = Top.next
      BY <1>2, <1>6, <2>1
    <3>2. CASE j < Top.next
      BY <1>5, <2>1, <3>2 DEF HasMet
    <3>3. CASE j = Top.next
      BY <2>1, <3>3 DEF TopUse
    <3> QED BY <3>1, <3>2, <3>3
  <2> QED BY <1>2, <1>5, <2>1 DEF HasMet
<1>9. \A i \in DOMAIN stack : HasMet(stack[i], known)
  BY DEF FramesHaveMet, HasMet
<1>10. \A i \in DOMAIN stack : Advanced(members)[i].type = stack[i].type
  BY <1>1, <1>2, <1>4, <1>7
<1>11. ASSUME NEW i \in DOMAIN Advanced(members)
       PROVE  HasMet(Advanced(members)[i], known)
  <2>1. CASE i = Len(stack)
    BY <1>7, <1>8, <2>1
  <2>2. CASE i # Len(stack)
    <3>1. i \in DOMAIN stack /\ Advanced(members)[i] = stack[i]
      BY <1>7, <1>11, <2>2
    <3> QED BY <1>9, <3>1
  <2> QED BY <2>1, <2>2
<1>12. ASSUME NEW i \in DOMAIN stack
       PROVE  \E k \in DOMAIN Advanced(members) : Advanced(members)[k].type = stack[i].type
  BY <1>7, <1>10
<1> QED BY <1>11, <1>12

(* One turn of a loop of CollectGeneric or GetObjectInfo that collects.    *)
LEMMA CollectUseKeepsInv ==
  ASSUME TypeOK, WalkInv, InUse, IsIncluded(TopUse), IsReadable(asm, TopUse),
         NEW members \in Seq(Members),
         CollectCore(TopUse.type, Advanced(members)),
         UNCHANGED <<asm, phase, target>>
  PROVE  WalkInv'
<1>1. TopUse.type \in Types /\ Advanced(members) \in Seq(Frames)
  BY TopUseType DEF UseRecords
<1>2. \A S \in SUBSET Types : Closure!IsClosed(S) => TopUse.type \in S
  BY TopUseReachable DEF WalkInv
<1>3. /\ \A i \in DOMAIN Advanced(members) :
            HasMet(Advanced(members)[i], alreadyCollected \cup {TopUse.type})
      /\ \A i \in DOMAIN stack :
           \E k \in DOMAIN Advanced(members) : Advanced(members)[k].type = stack[i].type
  <2> DEFINE known == alreadyCollected \cup {TopUse.type}
  <2>1. alreadyCollected \subseteq known /\ TopUse.type \in known
    OBVIOUS
  <2>2. FramesHaveMet
    BY DEF WalkInv
  <2> HIDE DEF known
  <2>3. /\ \A i \in DOMAIN Advanced(members) : HasMet(Advanced(members)[i], known)
        /\ \A i \in DOMAIN stack :
             \E k \in DOMAIN Advanced(members) : Advanced(members)[k].type = stack[i].type
    BY <2>1, <2>2, AdvancedHasMet
  <2> QED BY <2>3 DEF known
<1>4. OnlyReachable' /\ FramesHaveMet' /\ FinishedOrOpen'
  BY <1>1, <1>2, <1>3, CollectCoreKeepsInv DEF WalkInv, InUse
<1>5. TargetsMet'
  BY CollectCoreEffect DEF WalkInv, TargetsMet
<1>6. WalkOver' /\ ThrownOverCollected'
  BY DEF InUse, WalkOver, ThrownOverCollected
<1> QED BY <1>4, <1>5, <1>6 DEF WalkInv

(* CollectCore is called with what every closed set holds.                 *)
LEMMA CalledIsReachable ==
  ASSUME TypeOK, WalkInv, NEW t \in Types, Calls(t)
  PROVE  /\ \A S \in SUBSET Types : Closure!IsClosed(S) => t \in S
         /\ \/ t \in ElementsOf(asm.allTypes)
            \/ \E u \in alreadyCollected : u \in Types /\ t \in UsedTypes(asm, u)
<1>1. CASE stack = << >> /\ target <= Len(asm.allTypes) /\ t = asm.allTypes[target]
  <2>1. DOMAIN asm.allTypes = 1..Len(asm.allTypes) /\ Len(asm.allTypes) \in Nat
    BY LenProperties DEF TypeOK, Assembly
  <2>2. target \in DOMAIN asm.allTypes
    BY <1>1, <2>1 DEF TypeOK
  <2> QED BY <1>1, <2>2 DEF ElementsOf, Closure!IsClosed
<1>2. CASE InUse /\ IsIncluded(TopUse) /\ t = TopUse.type
  BY <1>2, TopUseReachable DEF WalkInv, TypeOK
<1> QED BY <1>1, <1>2 DEF Calls

(* A throw is over a type that is marked as collected by then.             *)
LEMMA ThrowsOverCollected ==
  ASSUME TypeOK, WalkInv, Throw
  PROVE  \E t \in alreadyCollected' : ~IsDescribable(asm, t)
<1>1. CASE EnumThrows
  BY <1>1 DEF EnumThrows, IsDescribable
<1>2. ASSUME stack # << >>
      PROVE  Top.type \in alreadyCollected /\ asm.kind[Top.type] # "enum"
  <2>1. Len(stack) \in DOMAIN stack
    BY <1>2, TopType, LenProperties DEF TypeOK
  <2> QED BY <2>1 DEF WalkInv, FramesHaveMet, HasMet, Top
<1>3. CASE MemberThrows
  <2>1. Top.type \in alreadyCollected' /\ asm.kind[Top.type] # "enum"
    BY <1>2, <1>3 DEF MemberThrows, InUse
  <2>2. Top.next \in DOMAIN Uses(asm, Top.type)
    <3>1. << >> \in Seq(Members)
      OBVIOUS
    <3> QED BY <1>3, <3>1, TopUseType DEF MemberThrows
  <2> QED BY <1>3, <2>1, <2>2 DEF MemberThrows, IsDescribable, TopUse
<1>4. CASE InfoThrows
  BY <1>2, <1>4 DEF InfoThrows, IsDescribable
<1> QED BY <1>1, <1>3, <1>4 DEF Throw

(* WalkInv holds initially and every step preserves it.                    *)
LEMMA WalkInvInit == Init => WalkInv
<1> SUFFICES ASSUME Init PROVE WalkInv
  OBVIOUS
<1>1. asm \in Assembly
  BY AssembliesAssumption DEF Init
<1>2. DOMAIN asm.allTypes = 1..Len(asm.allTypes)
  BY <1>1, LenProperties DEF Assembly
<1>3. TargetsMet
  BY <1>2 DEF Init, TargetsMet
<1> QED BY <1>3 DEF Init, WalkInv, OnlyReachable, FramesHaveMet, FinishedOrOpen,
                    ThrownOverCollected, WalkOver

LEMMA WalkInvStep == TypeOK /\ WalkInv /\ [Next]_vars => WalkInv'
<1> SUFFICES ASSUME TypeOK, WalkInv, [Next]_vars PROVE WalkInv'
  OBVIOUS
<1>a. asm \in Assembly /\ DOMAIN asm.allTypes = 1..Len(asm.allTypes)
  BY LenProperties DEF TypeOK, Assembly
<1>1. CASE Collect
  <2>1. stack' = << >> /\ alreadyCollected' = {} /\ asm' = asm /\ target' = 1 /\ phase' = "walking"
    BY <1>1 DEF Collect, ResetWorkspace, WalkInv, WalkOver
  <2>2. TargetsMet'
    BY <1>a, <2>1 DEF TargetsMet
  <2> QED BY <2>1, <2>2 DEF WalkInv, OnlyReachable, FramesHaveMet, FinishedOrOpen,
                            ThrownOverCollected, WalkOver
<1>2. CASE CollectTarget
  <2> DEFINE t == asm.allTypes[target]
  <2>1. target \in DOMAIN asm.allTypes /\ t \in Types
    BY <1>2, <1>a, ElementOfSeq DEF CollectTarget, TypeOK, Assembly
  <2>2. \A S \in SUBSET Types : Closure!IsClosed(S) => t \in S
    BY <2>1 DEF Closure!IsClosed, ElementsOf
  <2>3. << >> \in Seq(Frames) /\ stack = << >> /\ asm' = asm /\ CollectCore(t, << >>)
        /\ phase = "walking"
    BY <1>2 DEF CollectTarget
  <2>4. OnlyReachable' /\ FramesHaveMet' /\ FinishedOrOpen'
    <3> HIDE DEF t
    <3>1. /\ \A i \in DOMAIN << >> : HasMet(<< >>[i], alreadyCollected \cup {t})
          /\ \A i \in DOMAIN stack : \E k \in DOMAIN << >> : << >>[k].type = stack[i].type
      BY <2>3
    <3> QED BY <2>1, <2>2, <2>3, <3>1, CollectCoreKeepsInv DEF WalkInv
  <2>5. TargetsMet'
    <3>1. alreadyCollected' = alreadyCollected \cup {t}
      BY <2>3, CollectCoreEffect
    <3>2. \A k \in DOMAIN asm.allTypes : k < target + 1 => k < target \/ k = target
      BY <1>a, <2>1
    <3> QED BY <1>2, <3>1, <3>2 DEF CollectTarget, TargetsMet, WalkInv
  <2>6. WalkOver' /\ ThrownOverCollected'
    BY <1>2 DEF CollectTarget, WalkOver, ThrownOverCollected
  <2> QED BY <2>4, <2>5, <2>6 DEF WalkInv
<1>3. CASE CollectArgument
  <2>1. InUse /\ IsIncluded(TopUse) /\ IsReadable(asm, TopUse)
        /\ UNCHANGED <<asm, phase, target>>
    <3>1. \A i \in DOMAIN Uses(asm, Top.type) :
            Uses(asm, Top.type)[i].via = "argument" => IsIncluded(Uses(asm, Top.type)[i])
      <4>1. Top.type \in Types /\ Top.members \in Seq(Members)
        BY <1>3, TopType DEF CollectArgument, InUse, Frames
      <4> QED BY <4>1, <1>a, ArgumentsIncluded
    <3>2. Top.next \in DOMAIN Uses(asm, Top.type)
      BY <1>3, TopType, TopUseType DEF CollectArgument, InUse, Frames
    <3> QED BY <1>3, <3>1, <3>2 DEF CollectArgument, TopUse, IsReadable
  <2>2. Top.members \in Seq(Members)
    BY <2>1, TopType DEF InUse, Frames
  <2> QED BY <1>3, <2>1, <2>2, CollectUseKeepsInv DEF CollectArgument
<1>4. CASE SkipMember
  <2>1. InUse /\ ~IsIncluded(TopUse) /\ stack' = Advanced(Top.members)
        /\ IsReadable(asm, TopUse) /\ UNCHANGED <<asm, phase, target, alreadyCollected>>
    BY <1>4 DEF SkipMember, workspace
  <2>2. Top.members \in Seq(Members)
    BY <2>1, TopType DEF InUse, Frames
  <2>3. /\ \A i \in DOMAIN stack' : HasMet(stack'[i], alreadyCollected)
        /\ \A i \in DOMAIN stack : \E k \in DOMAIN stack' : stack'[k].type = stack[i].type
    BY <2>1, <2>2, AdvancedHasMet DEF WalkInv
  <2>4. FramesHaveMet'
    BY <2>1, <2>3 DEF FramesHaveMet, HasMet
  <2>5. FinishedOrOpen'
    <3> SUFFICES ASSUME NEW u \in alreadyCollected
                 PROVE  IsFinished(u) \/ \E k \in DOMAIN stack' : stack'[k].type = u
      BY <2>1 DEF FinishedOrOpen, IsFinished
    <3> QED BY <2>1, <2>3 DEF FinishedOrOpen, WalkInv, InUse
  <2>6. OnlyReachable'
    <3>1. \A S : Closure!IsClosed(S)' <=> Closure!IsClosed(S)
      BY <2>1 DEF Closure!IsClosed
    <3> QED BY <2>1, <3>1 DEF WalkInv, OnlyReachable
  <2>7. TargetsMet' /\ WalkOver' /\ ThrownOverCollected'
    BY <2>1 DEF WalkInv, TargetsMet, WalkOver, ThrownOverCollected, InUse
  <2> QED BY <2>4, <2>5, <2>6, <2>7 DEF WalkInv
<1>5. CASE CollectMember
  <2>1. InUse /\ IsIncluded(TopUse) /\ IsReadable(asm, TopUse)
        /\ UNCHANGED <<asm, phase, target>>
    BY <1>5 DEF CollectMember
  <2>2. Top.members \in Seq(Members)
    BY <2>1, TopType DEF InUse, Frames
  <2>3. Append(Top.members, MemberSerializationInfo(asm, TopUse)) \in Seq(Members)
    BY <1>a, <2>1, <2>2, TopUseType, MemberType, AppendProperties
  <2> QED BY <1>5, <2>1, <2>3, CollectUseKeepsInv DEF CollectMember
<1>6. CASE FinishType
  <2>1. stack # << >> /\ stack' = Callers /\ Top.next > Len(Uses(asm, Top.type))
        /\ phase = "walking" /\ Converts(asm.attributes[Top.type])
        /\ UNCHANGED <<asm, phase, target, alreadyCollected>>
    BY <1>6 DEF FinishType
  <2>2. /\ Top \in Frames /\ Callers \in Seq(Frames)
        /\ DOMAIN Callers = 1..Len(stack) - 1
        /\ \A i \in DOMAIN Callers : Callers[i] = stack[i] /\ i \in DOMAIN stack
        /\ DOMAIN stack = 1..Len(stack)
        /\ Len(stack) \in DOMAIN stack /\ Len(stack) \in Nat
    <3>1. /\ Top \in Frames /\ Callers \in Seq(Frames)
          /\ Len(Callers) = Len(stack) - 1
          /\ \A i \in 1..Len(Callers) : Callers[i] = stack[i]
          /\ Len(stack) \in 1..Len(stack)
      BY <2>1, TopType
    <3>2. DOMAIN stack = 1..Len(stack) /\ Len(stack) \in Nat /\ DOMAIN Callers = 1..Len(Callers)
      BY <3>1, LenProperties DEF TypeOK
    <3> QED BY <3>1, <3>2
  <2>3. IsFinished(Top.type)
    <3>1. Top.type \in Types /\ Uses(asm, Top.type) \in Seq(UseRecords) /\ Top.next \in Nat
      BY <1>a, <2>2, UsesType DEF Frames
    <3>2. \A j \in DOMAIN Uses(asm, Top.type) : j < Top.next
      BY <2>1, <3>1, LenProperties
    <3>3. HasMet(Top, alreadyCollected)
      BY <2>2 DEF WalkInv, FramesHaveMet, Top
    <3> QED BY <2>1, <3>2, <3>3 DEF HasMet, UsedTypes, IsFinished, IsDescribable
  <2>4. FramesHaveMet'
    BY <2>1, <2>2 DEF WalkInv, FramesHaveMet, HasMet
  <2>5. FinishedOrOpen'
    <3> SUFFICES ASSUME NEW u \in alreadyCollected, ~IsFinished(u)
                 PROVE  \E k \in DOMAIN Callers : Callers[k].type = u
      BY <2>1 DEF FinishedOrOpen, IsFinished
    <3>1. PICK i \in DOMAIN stack : stack[i].type = u
      BY <2>1 DEF FinishedOrOpen, WalkInv
    <3>2. i # Len(stack)
      BY <2>3, <3>1 DEF Top
    <3>3. i \in DOMAIN Callers
      BY <2>2, <3>1, <3>2
    <3> QED BY <2>2, <3>1, <3>3
  <2>6. OnlyReachable'
    <3>1. \A S : Closure!IsClosed(S)' <=> Closure!IsClosed(S)
      BY <2>1 DEF Closure!IsClosed
    <3> QED BY <2>1, <3>1 DEF WalkInv, OnlyReachable
  <2>7. TargetsMet' /\ WalkOver' /\ ThrownOverCollected'
    BY <2>1 DEF WalkInv, TargetsMet, WalkOver, ThrownOverCollected
  <2> QED BY <2>4, <2>5, <2>6, <2>7 DEF WalkInv
<1>7. CASE ReturnResult
  <2>1. /\ phase = "walking" /\ phase' = "returned" /\ target > Len(asm.allTypes) /\ stack = << >>
        /\ UNCHANGED <<asm, target, stack, alreadyCollected>>
    BY <1>7 DEF ReturnResult, workspace
  <2>2. OnlyReachable'
    <3>1. \A S : Closure!IsClosed(S)' <=> Closure!IsClosed(S)
      BY <2>1 DEF Closure!IsClosed
    <3> QED BY <2>1, <3>1 DEF WalkInv, OnlyReachable
  <2>3. FinishedOrOpen'
    BY <2>1 DEF WalkInv, FinishedOrOpen, IsFinished
  <2> QED BY <2>1, <2>2, <2>3 DEF WalkInv, FramesHaveMet, ThrownOverCollected, TargetsMet, WalkOver
<1>8. CASE Throw
  <2>1. OnlyReachable'
    <3>1. \A S : Closure!IsClosed(S)' <=> Closure!IsClosed(S)
      BY <1>8, ThrowEffect DEF Closure!IsClosed
    <3>2. ASSUME NEW t \in Types, Calls(t), NEW S \in SUBSET Types, Closure!IsClosed(S)
          PROVE  t \in S
      BY <3>2, CalledIsReachable
    <3> QED BY <1>8, <3>1, <3>2, ThrowEffect DEF WalkInv, OnlyReachable
  <2>2. ThrownOverCollected'
    <3>1. \E t \in alreadyCollected' : ~IsDescribable(asm, t)
      BY <1>8, ThrowsOverCollected
    <3> QED BY <1>8, <3>1, ThrowEffect DEF ThrownOverCollected
  <2> QED BY <1>8, <2>1, <2>2, ThrowEffect DEF WalkInv, FramesHaveMet, FinishedOrOpen, TargetsMet,
                                               WalkOver
<1>9. CASE UNCHANGED vars
  BY <1>9 DEF vars, workspace, WalkInv, OnlyReachable, FramesHaveMet, HasMet, IsFinished,
              FinishedOrOpen, ThrownOverCollected, TargetsMet, WalkOver, Closure!IsClosed
<1> QED BY <1>1, <1>2, <1>3, <1>4, <1>5, <1>6, <1>7, <1>8, <1>9 DEF Next, Walk

(* A finished walk has collected a closed set, the smallest one.           *)
LEMMA ClosedAtReturn ==
  ASSUME TypeOK, WalkInv, stack = << >>, target > Len(asm.allTypes), phase # "threw"
  PROVE  /\ Closure!IsClosed(alreadyCollected) /\ alreadyCollected = Closure!Reachable
         /\ \A t \in alreadyCollected : IsDescribable(asm, t)
<1>1. ElementsOf(asm.allTypes) \subseteq alreadyCollected
  <2>1. asm.allTypes \in Seq(Types)
    BY DEF TypeOK, Assembly
  <2>2. \A k \in DOMAIN asm.allTypes : k < target
    BY <2>1, LenProperties DEF TypeOK
  <2> QED BY <2>2 DEF WalkInv, TargetsMet, ElementsOf
<1>2. \A t \in alreadyCollected : t \in Types /\ IsFinished(t)
  BY DEF TypeOK, WalkInv, FinishedOrOpen
<1>3. Closure!IsClosed(alreadyCollected)
  BY <1>1, <1>2 DEF Closure!IsClosed, IsFinished
<1>4. alreadyCollected \in SUBSET Types
  BY DEF TypeOK
<1>5. alreadyCollected \subseteq Closure!Reachable
  BY <1>4 DEF WalkInv, OnlyReachable, Closure!Reachable
<1>6. Closure!Reachable \subseteq alreadyCollected
  BY <1>3, <1>4 DEF Closure!Reachable
<1> QED BY <1>2, <1>3, <1>5, <1>6 DEF IsFinished

(* Collect returns with the types reachable from the assemblies collected, *)
(* for every program, whatever its cycles.                                 *)
THEOREM CollectsReachable == Spec => []CollectedIsReachable
<1>1. TypeOK /\ WalkInv => CollectedIsReachable
  BY ClosedAtReturn DEF CollectedIsReachable, Closure!ReturnsReachable, WalkInv, WalkOver
<1> QED BY <1>1, TypeCorrect, WalkInvInit, WalkInvStep, PTL DEF Spec

(* Collect throws exactly when a type that cannot be described is          *)
(* reachable, for every program.                                           *)
THEOREM ThrowsCaused == Spec => []ThrowsHaveCause
<1>1. TypeOK /\ WalkInv => ThrowsHaveCause
  <2> SUFFICES ASSUME TypeOK, WalkInv PROVE ThrowsHaveCause
    OBVIOUS
  <2>1. alreadyCollected \subseteq Closure!Reachable
    BY DEF TypeOK, WalkInv, OnlyReachable, Closure!Reachable
  <2>2. phase = "threw" => \E t \in Closure!Reachable : ~IsDescribable(asm, t)
    BY <2>1 DEF WalkInv, ThrownOverCollected
  <2>3. phase = "returned" => \A t \in Closure!Reachable : IsDescribable(asm, t)
    BY ClosedAtReturn DEF WalkInv, WalkOver
  <2> QED BY <2>2, <2>3 DEF ThrowsHaveCause
<1> QED BY <1>1, TypeCorrect, WalkInvInit, WalkInvStep, PTL DEF Spec

-----------------------------------------------------------------------------
(* The walk implements the abstract collection.                            *)

LEMMA UsedTypesType ==
  ASSUME NEW a \in Assembly, NEW t \in Types
  PROVE  UsedTypes(a, t) \subseteq Types
<1>1. Uses(a, t) \in Seq(UseRecords)
  BY UsesType
<1>2. \A i \in DOMAIN Uses(a, t) : Uses(a, t)[i].type \in Types
  <2>1. \A i \in DOMAIN Uses(a, t) : Uses(a, t)[i] \in UseRecords
    BY <1>1, ElementOfSeq, LenProperties
  <2> QED BY <2>1 DEF UseRecords
<1> QED BY <1>2 DEF UsedTypes

(* A call of CollectCore discovers a type of the frontier, or none.        *)
LEMMA CollectCoreDiscovers ==
  ASSUME NEW t, NEW callers, CollectCore(t, callers), phase = "walking",
         UNCHANGED <<asm, phase>>,
         \/ t \in ElementsOf(asm.allTypes)
         \/ \E u \in alreadyCollected : u \in Types /\ t \in UsedTypes(asm, u)
  PROVE  [Closure!Next]_(Closure!vars)
<1>1. alreadyCollected' = alreadyCollected \cup {t}
  BY CollectCoreEffect
<1>2. CASE t \in alreadyCollected
  BY <1>1, <1>2 DEF Closure!vars
<1>3. CASE t \notin alreadyCollected
  <2>1. t \in Closure!Frontier
    BY <1>3 DEF Closure!Frontier
  <2> QED BY <1>1, <2>1 DEF Closure!Next, Closure!Discover
<1> QED BY <1>2, <1>3

(* Every execution of the collector is one of the abstract collection: it  *)
(* discovers reachable types one at a time and returns when all are known. *)
THEOREM WalkImplementsClosure == Spec => ImplementsTypeClosure
<1>1. Init => Closure!Init
  <2> SUFFICES ASSUME Init PROVE Closure!Init
    OBVIOUS
  <2>1. asm \in Assembly
    BY AssembliesAssumption DEF Init
  <2>2. ElementsOf(asm.allTypes) \subseteq Types
    BY <2>1, ElementOfSeq, LenProperties DEF Assembly, ElementsOf
  <2>3. [t \in Types |-> UsedTypes(asm, t)] \in [Types -> SUBSET Types]
    BY <2>1, UsedTypesType
  <2> QED BY <2>2, <2>3 DEF Init, Closure!Init
<1>2. TypeOK /\ WalkInv /\ [Next]_vars => [Closure!Next]_(Closure!vars)
  <2> SUFFICES ASSUME TypeOK, WalkInv, [Next]_vars PROVE [Closure!Next]_(Closure!vars)
    OBVIOUS
  <2>1. CASE Collect
    BY <2>1 DEF Collect, ResetWorkspace, Closure!Next, Closure!Start
  <2>2. CASE CollectTarget
    <3>1. target \in DOMAIN asm.allTypes
      <4>1. asm.allTypes \in Seq(Types)
        BY DEF TypeOK, Assembly
      <4> QED BY <2>2, <4>1, LenProperties DEF CollectTarget, TypeOK
    <3>2. asm.allTypes[target] \in ElementsOf(asm.allTypes)
      BY <3>1 DEF ElementsOf
    <3> QED BY <2>2, <3>2, CollectCoreDiscovers DEF CollectTarget
  <2>3. ASSUME InUse, IsIncluded(TopUse), NEW callers, CollectCore(TopUse.type, callers),
               UNCHANGED <<asm, phase>>
        PROVE  [Closure!Next]_(Closure!vars)
    <3>1. Top.type \in alreadyCollected /\ TopUse.type \in UsedTypes(asm, Top.type)
      BY <2>3, TopUseReachable DEF WalkInv
    <3>2. Top.type \in Types /\ phase = "walking"
      BY <2>3, <3>1 DEF TypeOK, InUse
    <3> QED BY <2>3, <3>1, <3>2, CollectCoreDiscovers
  <2>4. CASE CollectArgument
    <3>1. InUse /\ TopUse.via = "argument"
      BY <2>4 DEF CollectArgument
    <3>2. /\ Top.type \in Types /\ asm \in Assembly
          /\ Top.next \in DOMAIN Uses(asm, Top.type)
      BY <3>1, TopType, TopUseType DEF InUse, Frames, TypeOK
    <3>3. IsIncluded(TopUse)
      BY <3>1, <3>2, ArgumentsIncluded DEF TopUse
    <3> QED BY <2>3, <2>4, <3>3 DEF CollectArgument
  <2>5. CASE SkipMember
    BY <2>5 DEF SkipMember, workspace, Closure!vars
  <2>6. CASE CollectMember
    BY <2>3, <2>6 DEF CollectMember
  <2>7. CASE FinishType
    BY <2>7 DEF FinishType, Closure!vars
  <2>8. CASE ReturnResult
    <3>1. Closure!IsClosed(alreadyCollected)
      BY <2>8, ClosedAtReturn DEF ReturnResult
    <3> QED BY <2>8, <3>1 DEF ReturnResult, workspace, Closure!Next, Closure!Return
  <2>9. CASE Throw
    <3>1. ASSUME NEW t \in Types, Calls(t), alreadyCollected' = alreadyCollected \cup {t}
          PROVE  alreadyCollected' = alreadyCollected \/ t \in Closure!Frontier
      BY <3>1, CalledIsReachable DEF Closure!Frontier
    <3>2. /\ phase = "walking" /\ phase' = "threw" /\ asm' = asm
          /\ \/ alreadyCollected' = alreadyCollected
             \/ \E t \in Closure!Frontier : alreadyCollected' = alreadyCollected \cup {t}
      BY <2>9, <3>1, ThrowEffect
    <3> QED BY <3>2 DEF Closure!Next, Closure!Fail
  <2>10. CASE UNCHANGED vars
    BY <2>10 DEF vars, workspace, Closure!vars
  <2> QED BY <2>1, <2>2, <2>4, <2>5, <2>6, <2>7, <2>8, <2>9, <2>10 DEF Next, Walk
<1> QED
  BY <1>1, <1>2, TypeCorrect, WalkInvInit, WalkInvStep, PTL
  DEF Spec, ImplementsTypeClosure, Closure!Spec

-----------------------------------------------------------------------------
(* Each collected type has one description or one open frame.              *)

TypeSet(s) == {s[i].type : i \in DOMAIN s}

(* CollectedOnce without the concatenation of the four lists.              *)
AllCounted ==
  /\ TypeSet(collectedObjectInfo) \cup TypeSet(collectedEnumInfo)
       \cup TypeSet(collectedClosedTypeGenericInfo) \cup TypeSet(stack) = alreadyCollected
  /\ IsFiniteSet(alreadyCollected)
  /\ Cardinality(alreadyCollected) =
       Len(collectedObjectInfo) + Len(collectedEnumInfo)
         + Len(collectedClosedTypeGenericInfo) + Len(stack)
Counted == phase # "threw" => AllCounted

LEMMA TypeSetAppend ==
  ASSUME NEW S, NEW s \in Seq(S), NEW e \in S
  PROVE  /\ TypeSet(Append(s, e)) = TypeSet(s) \cup {e.type}
         /\ Len(Append(s, e)) = Len(s) + 1
<1>1. /\ DOMAIN s = 1..Len(s) /\ Len(s) \in Nat
      /\ DOMAIN Append(s, e) = 1..Len(s) + 1
      /\ Len(Append(s, e)) = Len(s) + 1
      /\ \A i \in 1..Len(s) : Append(s, e)[i] = s[i]
      /\ Append(s, e)[Len(s) + 1] = e
  BY AppendProperties, LenProperties
<1>2. TypeSet(Append(s, e)) \subseteq TypeSet(s) \cup {e.type}
  BY <1>1 DEF TypeSet
<1>3. TypeSet(s) \subseteq TypeSet(Append(s, e))
  BY <1>1 DEF TypeSet
<1>4. e.type \in TypeSet(Append(s, e))
  BY <1>1 DEF TypeSet
<1> QED BY <1>1, <1>2, <1>3, <1>4

(* The types of the frames, seen from the innermost one.                   *)
LEMMA TypeSetStack ==
  ASSUME TypeOK, stack # << >>
  PROVE  /\ TypeSet(stack) = TypeSet(Callers) \cup {Top.type}
         /\ Len(stack) = Len(Callers) + 1 /\ Len(Callers) \in Nat
<1>1. /\ Top \in Frames /\ Callers \in Seq(Frames)
      /\ Len(Callers) = Len(stack) - 1
      /\ \A i \in 1..Len(Callers) : Callers[i] = stack[i]
      /\ Len(stack) \in 1..Len(stack)
  BY TopType
<1>2. /\ DOMAIN stack = 1..Len(stack) /\ Len(stack) \in Nat
      /\ DOMAIN Callers = 1..Len(Callers) /\ Len(Callers) \in Nat
  BY <1>1, LenProperties DEF TypeOK
<1>3. Len(stack) = Len(Callers) + 1 /\ stack[Len(stack)] = Top
  BY <1>1, <1>2 DEF Top
<1>4. \A i \in DOMAIN stack : i \in DOMAIN Callers \/ i = Len(stack)
  BY <1>2, <1>3
<1>5. TypeSet(stack) \subseteq TypeSet(Callers) \cup {Top.type}
  BY <1>1, <1>2, <1>3, <1>4 DEF TypeSet
<1>6. TypeSet(Callers) \subseteq TypeSet(stack)
  BY <1>1, <1>2 DEF TypeSet
<1>7. Top.type \in TypeSet(stack)
  BY <1>1, <1>2, <1>3 DEF TypeSet
<1> QED BY <1>2, <1>3, <1>5, <1>6, <1>7

LEMMA TypeSetAdvanced ==
  ASSUME TypeOK, InUse, NEW members \in Seq(Members)
  PROVE  TypeSet(Advanced(members)) = TypeSet(stack) /\ Len(Advanced(members)) = Len(stack)
<1> DEFINE top == [type |-> Top.type, next |-> Top.next + 1, members |-> members]
<1>1. Top \in Frames /\ Callers \in Seq(Frames)
  BY TopType DEF InUse
<1>2. top \in Frames /\ top.type = Top.type
  BY <1>1 DEF Frames
<1>3. Advanced(members) = Append(Callers, top)
  BY DEF Advanced
<1> HIDE DEF top
<1>4. /\ TypeSet(Advanced(members)) = TypeSet(Callers) \cup {top.type}
      /\ Len(Advanced(members)) = Len(Callers) + 1
  BY <1>1, <1>2, <1>3, TypeSetAppend
<1> QED BY <1>2, <1>4, TypeSetStack DEF InUse

(* A call of CollectCore adds its type once, to the set and to one list.   *)
LEMMA CollectCoreCounts ==
  ASSUME TypeOK, AllCounted, NEW t \in Types, NEW callers \in Seq(Frames),
         TypeSet(callers) = TypeSet(stack), Len(callers) = Len(stack),
         CollectCore(t, callers),
         UNCHANGED <<collectedObjectInfo, collectedClosedTypeGenericInfo>>
  PROVE  AllCounted'
<1> DEFINE frame == [type |-> t, next |-> 1, members |-> << >>]
           info == EnumSerializationInfo(asm, t)
<1>1. frame \in Frames /\ frame.type = t /\ info.type = t
  BY DEF Frames, EnumSerializationInfo
<1>2. info \in EnumInfos
  BY DEF EnumSerializationInfo, EnumInfos, TypeOK, Assembly
<1>3. /\ Len(collectedObjectInfo) \in Nat /\ Len(collectedEnumInfo) \in Nat
      /\ Len(collectedClosedTypeGenericInfo) \in Nat /\ Len(stack) \in Nat
  BY LenProperties DEF TypeOK
<1>4. CASE t \in alreadyCollected
  BY <1>4 DEF CollectCore, AllCounted, TypeSet
<1>5. CASE t \notin alreadyCollected /\ asm.kind[t] = "enum"
  <2>1. /\ alreadyCollected' = alreadyCollected \cup {t} /\ stack' = callers
        /\ collectedEnumInfo' = Append(collectedEnumInfo, info)
    BY <1>5 DEF CollectCore
  <2> HIDE DEF info, frame
  <2>2. /\ TypeSet(collectedEnumInfo)' = TypeSet(collectedEnumInfo) \cup {t}
        /\ Len(collectedEnumInfo') = Len(collectedEnumInfo) + 1
    <3>1. collectedEnumInfo \in Seq(EnumInfos)
      BY DEF TypeOK
    <3>2. /\ TypeSet(Append(collectedEnumInfo, info)) = TypeSet(collectedEnumInfo) \cup {info.type}
          /\ Len(Append(collectedEnumInfo, info)) = Len(collectedEnumInfo) + 1
      BY <1>2, <3>1, TypeSetAppend
    <3>3. TypeSet(collectedEnumInfo)' = TypeSet(collectedEnumInfo')
      BY DEF TypeSet
    <3> QED BY <1>1, <2>1, <3>2, <3>3
  <2>3. /\ IsFiniteSet(alreadyCollected')
        /\ Cardinality(alreadyCollected') = Cardinality(alreadyCollected) + 1
    BY <1>5, <2>1, FS_AddElement DEF AllCounted
  <2>4. TypeSet(stack)' = TypeSet(stack) /\ Len(stack') = Len(stack)
    BY <2>1 DEF TypeSet
  <2>5. /\ TypeSet(collectedObjectInfo)' = TypeSet(collectedObjectInfo)
        /\ TypeSet(collectedClosedTypeGenericInfo)' = TypeSet(collectedClosedTypeGenericInfo)
    BY DEF TypeSet
  <2> QED BY <1>3, <2>1, <2>2, <2>3, <2>4, <2>5 DEF AllCounted
<1>6. CASE t \notin alreadyCollected /\ asm.kind[t] # "enum"
  <2>1. /\ alreadyCollected' = alreadyCollected \cup {t} /\ stack' = Append(callers, frame)
        /\ collectedEnumInfo' = collectedEnumInfo
    BY <1>6 DEF CollectCore
  <2> HIDE DEF info, frame
  <2>2. TypeSet(stack)' = TypeSet(stack) \cup {t} /\ Len(stack') = Len(stack) + 1
    <3>1. /\ TypeSet(Append(callers, frame)) = TypeSet(callers) \cup {frame.type}
          /\ Len(Append(callers, frame)) = Len(callers) + 1
      BY <1>1, TypeSetAppend
    <3>2. TypeSet(stack)' = TypeSet(stack')
      BY DEF TypeSet
    <3> QED BY <1>1, <2>1, <3>1, <3>2
  <2>3. /\ IsFiniteSet(alreadyCollected')
        /\ Cardinality(alreadyCollected') = Cardinality(alreadyCollected) + 1
    BY <1>6, <2>1, FS_AddElement DEF AllCounted
  <2>5. /\ TypeSet(collectedObjectInfo)' = TypeSet(collectedObjectInfo)
        /\ TypeSet(collectedClosedTypeGenericInfo)' = TypeSet(collectedClosedTypeGenericInfo)
        /\ TypeSet(collectedEnumInfo)' = TypeSet(collectedEnumInfo)
    BY <2>1 DEF TypeSet
  <2> QED BY <1>3, <2>1, <2>2, <2>3, <2>5 DEF AllCounted
<1> QED BY <1>4, <1>5, <1>6

LEMMA CountedStep == TypeOK /\ WalkOver /\ Counted /\ [Next]_vars => Counted'
<1> SUFFICES ASSUME TypeOK, WalkOver, Counted, [Next]_vars PROVE Counted'
  OBVIOUS
<1>0. Walk \/ ReturnResult => AllCounted
  BY DEF Counted, Walk, CollectTarget, CollectArgument, SkipMember, CollectMember, FinishType,
         InUse, ReturnResult
<1>1. CASE Collect
  <2>1. /\ alreadyCollected' = {} /\ collectedObjectInfo' = << >> /\ collectedEnumInfo' = << >>
        /\ collectedClosedTypeGenericInfo' = << >> /\ stack' = << >>
    BY <1>1 DEF Collect, ResetWorkspace, WalkOver
  <2> QED BY <2>1, FS_EmptySet DEF Counted, AllCounted, TypeSet
<1>2. CASE CollectTarget
  <2>1. asm.allTypes[target] \in Types
    <3>1. asm.allTypes \in Seq(Types)
      BY DEF TypeOK, Assembly
    <3> QED BY <1>2, <3>1, ElementOfSeq DEF CollectTarget, TypeOK
  <2>2. stack = << >> /\ << >> \in Seq(Frames)
    BY <1>2 DEF CollectTarget
  <2> QED BY <1>0, <1>2, <2>1, <2>2, CollectCoreCounts DEF CollectTarget, Walk, Counted
<1>3. CASE CollectArgument
  <2>1. InUse /\ Top.members \in Seq(Members)
    BY <1>3, TopType DEF CollectArgument, InUse, Frames
  <2>2. TopUse.type \in Types /\ Advanced(Top.members) \in Seq(Frames)
    BY <2>1, TopUseType DEF UseRecords
  <2> QED BY <1>0, <1>3, <2>1, <2>2, TypeSetAdvanced, CollectCoreCounts DEF CollectArgument, Walk, Counted
<1>4. CASE SkipMember
  <2>1. InUse /\ Top.members \in Seq(Members)
    BY <1>4, TopType DEF SkipMember, InUse, Frames
  <2>2. TypeSet(stack') = TypeSet(stack) /\ Len(stack') = Len(stack)
    BY <1>4, <2>1, TypeSetAdvanced DEF SkipMember
  <2> QED BY <1>0, <1>4, <2>2 DEF SkipMember, workspace, Counted, AllCounted, TypeSet, Walk
<1>5. CASE CollectMember
  <2> DEFINE members == Append(Top.members, MemberSerializationInfo(asm, TopUse))
  <2>1. InUse /\ Top.members \in Seq(Members)
    BY <1>5, TopType DEF CollectMember, InUse, Frames
  <2>2. TopUse \in UseRecords /\ TopUse.type \in Types
    BY <2>1, TopUseType DEF UseRecords
  <2>3. members \in Seq(Members)
    BY <2>1, <2>2, MemberType, AppendProperties DEF TypeOK
  <2>4. CollectCore(TopUse.type, Advanced(members))
        /\ UNCHANGED <<collectedObjectInfo, collectedClosedTypeGenericInfo>>
    BY <1>5 DEF CollectMember
  <2> HIDE DEF members
  <2>5. Advanced(members) \in Seq(Frames)
    BY <2>1, <2>3, TopUseType
  <2>6. AllCounted
    BY <1>0, <1>5 DEF Walk
  <2> QED BY <2>1, <2>2, <2>3, <2>4, <2>5, <2>6, TypeSetAdvanced, CollectCoreCounts DEF Counted
<1>6. CASE FinishType
  <2> DEFINE info == ObjectSerializationInfo(asm, Top.type, Top.members)
  <2>1. /\ stack # << >> /\ stack' = Callers /\ AllCounted
        /\ UNCHANGED <<alreadyCollected, collectedEnumInfo>>
    BY <1>0, <1>6 DEF FinishType, Walk
  <2>2. /\ TypeSet(stack) = TypeSet(stack') \cup {Top.type}
        /\ Len(stack) = Len(stack') + 1 /\ Len(stack') \in Nat
    BY <2>1, TypeSetStack
  <2>3. info \in ObjectInfos /\ info.type = Top.type
    BY <2>1, TopType DEF ObjectSerializationInfo, ObjectInfos, Frames, TypeOK, Assembly
  <2>4. /\ Len(collectedObjectInfo) \in Nat /\ Len(collectedEnumInfo) \in Nat
        /\ Len(collectedClosedTypeGenericInfo) \in Nat
    BY LenProperties DEF TypeOK
  <2>5. \/ /\ collectedObjectInfo' = Append(collectedObjectInfo, info)
           /\ UNCHANGED collectedClosedTypeGenericInfo
        \/ /\ collectedClosedTypeGenericInfo' = Append(collectedClosedTypeGenericInfo, info)
           /\ UNCHANGED collectedObjectInfo
    BY <1>6 DEF FinishType, AddInfo
  <2> HIDE DEF info
  <2>6. /\ TypeSet(collectedObjectInfo') \cup TypeSet(collectedClosedTypeGenericInfo')
             = TypeSet(collectedObjectInfo) \cup TypeSet(collectedClosedTypeGenericInfo)
                 \cup {Top.type}
        /\ Len(collectedObjectInfo') + Len(collectedClosedTypeGenericInfo')
             = Len(collectedObjectInfo) + Len(collectedClosedTypeGenericInfo) + 1
        /\ Len(collectedObjectInfo') \in Nat /\ Len(collectedClosedTypeGenericInfo') \in Nat
    <3>1. /\ collectedObjectInfo \in Seq(ObjectInfos)
          /\ collectedClosedTypeGenericInfo \in Seq(ObjectInfos)
      BY DEF TypeOK
    <3>2. /\ TypeSet(Append(collectedObjectInfo, info)) = TypeSet(collectedObjectInfo) \cup {info.type}
          /\ Len(Append(collectedObjectInfo, info)) = Len(collectedObjectInfo) + 1
          /\ TypeSet(Append(collectedClosedTypeGenericInfo, info))
               = TypeSet(collectedClosedTypeGenericInfo) \cup {info.type}
          /\ Len(Append(collectedClosedTypeGenericInfo, info))
               = Len(collectedClosedTypeGenericInfo) + 1
      BY <2>3, <3>1, TypeSetAppend
    <3>3. CASE /\ collectedObjectInfo' = Append(collectedObjectInfo, info)
               /\ UNCHANGED collectedClosedTypeGenericInfo
      BY <2>3, <2>4, <3>2, <3>3
    <3>4. CASE /\ collectedClosedTypeGenericInfo' = Append(collectedClosedTypeGenericInfo, info)
               /\ UNCHANGED collectedObjectInfo
      BY <2>3, <2>4, <3>2, <3>4
    <3> QED BY <2>5, <3>3, <3>4
  <2>7. Cardinality(alreadyCollected') =
          Len(collectedObjectInfo') + Len(collectedEnumInfo')
            + Len(collectedClosedTypeGenericInfo') + Len(stack')
    BY <2>1, <2>2, <2>4, <2>6 DEF AllCounted
  <2>8. TypeSet(collectedObjectInfo') \cup TypeSet(collectedEnumInfo')
          \cup TypeSet(collectedClosedTypeGenericInfo') \cup TypeSet(stack') = alreadyCollected'
    BY <2>1, <2>2, <2>6 DEF AllCounted
  <2>9. IsFiniteSet(alreadyCollected')
    BY <2>1 DEF AllCounted
  <2> QED BY <2>7, <2>8, <2>9 DEF Counted, AllCounted, TypeSet
<1>7. CASE ReturnResult
  BY <1>0, <1>7 DEF ReturnResult, workspace, Counted, AllCounted, TypeSet
<1>8. CASE Throw
  BY <1>8, ThrowEffect DEF Counted
<1>9. CASE UNCHANGED vars
  BY <1>9 DEF vars, workspace, Counted, AllCounted, TypeSet
<1> QED BY <1>1, <1>2, <1>3, <1>4, <1>5, <1>6, <1>7, <1>8, <1>9 DEF Next, Walk

LEMMA ElementsOfConcat ==
  ASSUME NEW S, NEW s1 \in Seq(S), NEW s2 \in Seq(S)
  PROVE  ElementsOf(s1 \o s2) = ElementsOf(s1) \cup ElementsOf(s2)
<1>1. /\ Len(s1) \in Nat /\ Len(s2) \in Nat
      /\ DOMAIN s1 = 1..Len(s1) /\ DOMAIN s2 = 1..Len(s2)
      /\ DOMAIN (s1 \o s2) = 1..Len(s1) + Len(s2)
      /\ \A i \in 1..Len(s1) + Len(s2) :
           (s1 \o s2)[i] = IF i <= Len(s1) THEN s1[i] ELSE s2[i - Len(s1)]
  BY ConcatProperties, LenProperties
<1>2. ASSUME NEW i \in DOMAIN s1 PROVE s1[i] \in ElementsOf(s1 \o s2)
  <2>1. i \in 1..Len(s1) + Len(s2) /\ i <= Len(s1)
    BY <1>1
  <2>2. (s1 \o s2)[i] = s1[i]
    BY <1>1, <2>1
  <2> QED BY <1>1, <2>1, <2>2 DEF ElementsOf
<1>3. ASSUME NEW i \in DOMAIN s2 PROVE s2[i] \in ElementsOf(s1 \o s2)
  <2>1. i + Len(s1) \in 1..Len(s1) + Len(s2) /\ ~(i + Len(s1) <= Len(s1))
        /\ i + Len(s1) - Len(s1) = i
    BY <1>1
  <2>2. (s1 \o s2)[i + Len(s1)] = s2[i]
    BY <1>1, <2>1
  <2> QED BY <1>1, <2>1, <2>2 DEF ElementsOf
<1>4. ASSUME NEW i \in DOMAIN (s1 \o s2)
      PROVE  (s1 \o s2)[i] \in ElementsOf(s1) \cup ElementsOf(s2)
  <2>1. CASE i <= Len(s1)
    BY <1>1, <2>1 DEF ElementsOf
  <2>2. CASE ~(i <= Len(s1))
    <3>1. i - Len(s1) \in DOMAIN s2
      BY <1>1, <2>2
    <3> QED BY <1>1, <2>2, <3>1 DEF ElementsOf
  <2> QED BY <2>1, <2>2
<1> QED BY <1>2, <1>3, <1>4 DEF ElementsOf

LEMMA ConcatFacts ==
  ASSUME NEW s1 \in Seq(Types), NEW s2 \in Seq(Types)
  PROVE  /\ s1 \o s2 \in Seq(Types)
         /\ Len(s1 \o s2) = Len(s1) + Len(s2)
         /\ ElementsOf(s1 \o s2) = ElementsOf(s1) \cup ElementsOf(s2)
BY ConcatProperties, ElementsOfConcat

LEMMA TypesOfProperties ==
  ASSUME NEW S, NEW s \in Seq(S), \A e \in S : e.type \in Types
  PROVE  /\ TypesOf(s) \in Seq(Types)
         /\ Len(TypesOf(s)) = Len(s)
         /\ ElementsOf(TypesOf(s)) = TypeSet(s)
<1>1. DOMAIN s = 1..Len(s) /\ Len(s) \in Nat /\ \A i \in 1..Len(s) : s[i] \in S
  BY LenProperties, ElementOfSeq
<1>2. TypesOf(s) = [i \in 1..Len(s) |-> s[i].type]
  BY <1>1 DEF TypesOf
<1> QED BY <1>1, <1>2 DEF ElementsOf, TypeSet

(* At every moment each collected type is described exactly once or has    *)
(* exactly one frame open, however the program's types refer to each other.*)
THEOREM CollectsOnce == Spec => []CollectedOnce
<1>1. Init => Counted
  BY FS_EmptySet DEF Init, Counted, AllCounted, TypeSet
<1>2. TypeOK /\ Counted => CollectedOnce
  <2> SUFFICES ASSUME TypeOK, AllCounted, phase # "threw" PROVE CollectedOnce
    BY DEF Counted, CollectedOnce
  <2> DEFINE o == TypesOf(collectedObjectInfo)
             e == TypesOf(collectedEnumInfo)
             g == TypesOf(collectedClosedTypeGenericInfo)
             f == TypesOf(stack)
  <2>1. /\ collectedObjectInfo \in Seq(ObjectInfos) /\ collectedEnumInfo \in Seq(EnumInfos)
        /\ collectedClosedTypeGenericInfo \in Seq(ObjectInfos) /\ stack \in Seq(Frames)
    BY DEF TypeOK
  <2>2. /\ \A i \in ObjectInfos : i.type \in Types
        /\ \A i \in EnumInfos : i.type \in Types
        /\ \A i \in Frames : i.type \in Types
    BY DEF ObjectInfos, EnumInfos, Frames
  <2>3. /\ o \in Seq(Types) /\ Len(o) = Len(collectedObjectInfo)
        /\ ElementsOf(o) = TypeSet(collectedObjectInfo)
        /\ e \in Seq(Types) /\ Len(e) = Len(collectedEnumInfo)
        /\ ElementsOf(e) = TypeSet(collectedEnumInfo)
        /\ g \in Seq(Types) /\ Len(g) = Len(collectedClosedTypeGenericInfo)
        /\ ElementsOf(g) = TypeSet(collectedClosedTypeGenericInfo)
        /\ f \in Seq(Types) /\ Len(f) = Len(stack) /\ ElementsOf(f) = TypeSet(stack)
    BY <2>1, <2>2, TypesOfProperties
  <2>4. CollectedOnce <=> /\ ElementsOf(o \o e \o g \o f) = alreadyCollected
                          /\ Len(o \o e \o g \o f) = Cardinality(alreadyCollected)
    BY DEF CollectedOnce
  <2> HIDE DEF o, e, g, f
  <2>5. /\ o \o e \in Seq(Types) /\ Len(o \o e) = Len(o) + Len(e)
        /\ ElementsOf(o \o e) = ElementsOf(o) \cup ElementsOf(e)
    <3>1. o \in Seq(Types) /\ e \in Seq(Types)
      BY <2>3
    <3> QED BY <3>1, ConcatFacts, Zenon
  <2>6. /\ o \o e \o g \in Seq(Types) /\ Len(o \o e \o g) = Len(o \o e) + Len(g)
        /\ ElementsOf(o \o e \o g) = ElementsOf(o \o e) \cup ElementsOf(g)
    <3>1. o \o e \in Seq(Types) /\ g \in Seq(Types)
      BY <2>3, <2>5
    <3> QED BY <3>1, ConcatFacts, Zenon
  <2>7. /\ Len(o \o e \o g \o f) = Len(o \o e \o g) + Len(f)
        /\ ElementsOf(o \o e \o g \o f) = ElementsOf(o \o e \o g) \cup ElementsOf(f)
    <3>1. o \o e \o g \in Seq(Types) /\ f \in Seq(Types)
      BY <2>3, <2>6
    <3> QED BY <3>1, ConcatFacts, Zenon
  <2> QED BY <2>3, <2>4, <2>5, <2>6, <2>7 DEF AllCounted
<1>3. WalkInv => WalkOver
  BY DEF WalkInv
<1> QED
  BY <1>1, <1>2, <1>3, TypeCorrect, WalkInvInit, WalkInvStep, CountedStep, PTL DEF Spec

-----------------------------------------------------------------------------
(* OrderByFullName is a stable sort.                                       *)

Before(s, i) == {j \in DOMAIN s : Precedes(s, j, i)}
Position(s, i) == 1 + Cardinality(Before(s, i))

(* Positions are places of the list, and grow as Precedes says.            *)
LEMMA PositionGrows ==
  ASSUME NEW S, \A e \in S : e.fullName \in Nat, NEW s \in Seq(S),
         NEW i \in DOMAIN s
  PROVE  /\ Position(s, i) \in DOMAIN s
         /\ \A j \in DOMAIN s : Precedes(s, i, j) => Position(s, i) < Position(s, j)
<1>1. /\ DOMAIN s = 1..Len(s) /\ Len(s) \in Nat
      /\ \A k \in DOMAIN s : s[k].fullName \in Nat
  BY LenProperties, ElementOfSeq
<1>2. IsFiniteSet(DOMAIN s) /\ Cardinality(DOMAIN s) = Len(s)
  BY <1>1, FS_Interval
<1>3. \A k \in DOMAIN s : /\ Before(s, k) \in SUBSET DOMAIN s
                          /\ k \notin Before(s, k)
  BY <1>1 DEF Before, Precedes
<1>4. \A k \in DOMAIN s : IsFiniteSet(Before(s, k)) /\ Cardinality(Before(s, k)) \in Nat
  BY <1>2, <1>3, FS_Subset, FS_CardinalityType
<1>5. Cardinality(Before(s, i)) < Len(s)
  <2>1. Cardinality(Before(s, i)) <= Len(s)
    BY <1>2, <1>3, FS_Subset
  <2>2. Cardinality(Before(s, i)) # Len(s)
    BY <1>2, <1>3, FS_Subset
  <2> QED BY <1>1, <1>4, <2>1, <2>2
<1>6. ASSUME NEW j \in DOMAIN s, Precedes(s, i, j)
      PROVE  Cardinality(Before(s, i)) < Cardinality(Before(s, j))
  <2>1. \A k \in DOMAIN s : Precedes(s, k, i) => Precedes(s, k, j)
    BY <1>1, <1>6 DEF Precedes
  <2>2. Before(s, i) \in SUBSET Before(s, j) /\ i \in Before(s, j)
    BY <1>6, <2>1 DEF Before
  <2>3. Before(s, i) # Before(s, j)
    BY <1>3, <2>2
  <2>4. /\ Cardinality(Before(s, i)) <= Cardinality(Before(s, j))
        /\ Cardinality(Before(s, i)) # Cardinality(Before(s, j))
    BY <1>4, <2>2, <2>3, FS_Subset
  <2> QED BY <1>4, <2>4
<1> QED BY <1>1, <1>4, <1>5, <1>6 DEF Position

(* Every place of the list is the position of an element.                  *)
LEMMA PositionsFill ==
  ASSUME NEW S, \A e \in S : e.fullName \in Nat, NEW s \in Seq(S)
  PROVE  \A k \in DOMAIN s : \E i \in DOMAIN s : Position(s, i) = k
<1> DEFINE f == [i \in DOMAIN s |-> Position(s, i)]
<1>1. /\ DOMAIN s = 1..Len(s) /\ Len(s) \in Nat
      /\ \A k \in DOMAIN s : s[k].fullName \in Nat
  BY LenProperties, ElementOfSeq
<1>2. IsFiniteSet(DOMAIN s)
  BY <1>1, FS_Interval
<1>3. \A i \in DOMAIN s : Position(s, i) \in DOMAIN s
  BY PositionGrows
<1>4. ASSUME NEW i \in DOMAIN s, NEW j \in DOMAIN s, Position(s, i) = Position(s, j)
      PROVE  i = j
  <2>1. Position(s, i) \in Nat
    BY <1>1, <1>3
  <2>2. ~Precedes(s, i, j) /\ ~Precedes(s, j, i)
    <3>1. /\ Precedes(s, i, j) => Position(s, i) < Position(s, j)
          /\ Precedes(s, j, i) => Position(s, j) < Position(s, i)
      BY PositionGrows
    <3> QED BY <1>4, <2>1, <3>1
  <2> QED BY <1>1, <2>2 DEF Precedes
<1>5. f \in [DOMAIN s -> DOMAIN s]
  BY <1>3
<1>6. f \in Injection(DOMAIN s, DOMAIN s)
  BY <1>4, <1>5 DEF Injection, IsInjective
<1>7. f \in Surjection(DOMAIN s, DOMAIN s)
  <2> HIDE DEF f
  <2> QED BY <1>2, <1>6, FS_Injection
<1> QED BY <1>7 DEF Surjection

(* The sorted list has the elements of the list, in the stable order.      *)
LEMMA OrderFacts ==
  ASSUME NEW S, \A e \in S : e.fullName \in Nat, NEW s \in Seq(S)
  PROVE  /\ OrderByFullName(s) \in Seq(S)
         /\ ElementsOf(OrderByFullName(s)) = ElementsOf(s)
         /\ IsStablySorted(OrderByFullName(s), s)
<1> DEFINE from(k) == CHOOSE i \in DOMAIN s : Position(s, i) = k
           sorted == OrderByFullName(s)
<1>1. /\ DOMAIN s = 1..Len(s) /\ Len(s) \in Nat
      /\ \A k \in DOMAIN s : s[k] \in S /\ s[k].fullName \in Nat
  BY LenProperties, ElementOfSeq
<1>2. sorted = [k \in DOMAIN s |-> s[from(k)]]
  BY DEF OrderByFullName, Position, Before
<1>3. \A k \in DOMAIN s : from(k) \in DOMAIN s /\ Position(s, from(k)) = k
  BY PositionsFill
<1>4. \A i \in DOMAIN s : Position(s, i) \in DOMAIN s
  BY PositionGrows
<1>5. \A i, j \in DOMAIN s : i # j => Precedes(s, i, j) \/ Precedes(s, j, i)
  BY <1>1 DEF Precedes
<1>6. \A i, j \in DOMAIN s : Precedes(s, i, j) => Position(s, i) < Position(s, j)
  BY PositionGrows
<1>7. \A i, j \in DOMAIN s : Position(s, i) < Position(s, j) => Precedes(s, i, j)
  BY <1>1, <1>4, <1>5, <1>6
<1>8. \A i \in DOMAIN s : from(Position(s, i)) = i
  BY <1>1, <1>3, <1>4, <1>5, <1>6
<1> HIDE DEF from, sorted
<1>9. sorted \in Seq(S) /\ Len(sorted) = Len(s) /\ DOMAIN sorted = DOMAIN s
  BY <1>1, <1>2, <1>3
<1>10. \A i \in DOMAIN s : sorted[Position(s, i)] = s[i]
  BY <1>2, <1>4, <1>8
<1>11. ElementsOf(sorted) = ElementsOf(s)
  BY <1>2, <1>3, <1>4, <1>9, <1>10 DEF ElementsOf
<1>12. IsStablySorted(sorted, s)
  <2>1. \A i \in DOMAIN s : \E k \in DOMAIN sorted : sorted[k] = s[i]
    BY <1>4, <1>9, <1>10
  <2>2. ASSUME NEW k \in DOMAIN sorted, NEW l \in DOMAIN sorted, k < l
        PROVE  \E i, j \in DOMAIN s : /\ sorted[k] = s[i] /\ sorted[l] = s[j]
                                      /\ Precedes(s, i, j)
    BY <1>2, <1>3, <1>7, <1>9, <2>2
  <2> QED BY <1>9, <2>1, <2>2 DEF IsStablySorted
<1> QED BY <1>9, <1>11, <1>12 DEF sorted

-----------------------------------------------------------------------------
(* What is described while the walk goes on.                               *)

(* Members, frames and descriptions whose members name types of `known',   *)
(* the descriptions under their own names.                                 *)
MembersOf(a, known) == {m \in Members : \E t \in known : m.type = a.fullName[t]}
FramesOf(a, known) == {f \in Frames : f.members \in Seq(MembersOf(a, known))}
InfosOf(a, known) ==
  {i \in ObjectInfos : /\ i.members \in Seq(MembersOf(a, known))
                       /\ i.fullName = a.fullName[i.type]}
NamedEnums(a) == {e \in EnumInfos : e.fullName = a.fullName[e.type]}

DescriptionInv ==
  /\ stack \in Seq(FramesOf(asm, alreadyCollected))
  /\ collectedObjectInfo \in Seq(InfosOf(asm, alreadyCollected))
  /\ collectedClosedTypeGenericInfo \in Seq(InfosOf(asm, alreadyCollected))
  /\ collectedEnumInfo \in Seq(NamedEnums(asm))

(* What names collected types goes on to when more are collected.          *)
LEMMA KnownGrows ==
  ASSUME NEW a, NEW known, NEW more, known \subseteq more
  PROVE  /\ Seq(MembersOf(a, known)) \subseteq Seq(MembersOf(a, more))
         /\ Seq(FramesOf(a, known)) \subseteq Seq(FramesOf(a, more))
         /\ Seq(InfosOf(a, known)) \subseteq Seq(InfosOf(a, more))
<1>1. MembersOf(a, known) \subseteq MembersOf(a, more)
  BY DEF MembersOf
<1>2. Seq(MembersOf(a, known)) \subseteq Seq(MembersOf(a, more))
  BY <1>1, SeqMonotonic
<1>3. /\ FramesOf(a, known) \subseteq FramesOf(a, more)
      /\ InfosOf(a, known) \subseteq InfosOf(a, more)
  BY <1>2 DEF FramesOf, InfosOf
<1> QED BY <1>2, <1>3, SeqMonotonic

(* The innermost frame and its callers have members that are known.        *)
LEMMA TopDescribed ==
  ASSUME TypeOK, DescriptionInv, stack # << >>
  PROVE  /\ Top \in FramesOf(asm, alreadyCollected)
         /\ Callers \in Seq(FramesOf(asm, alreadyCollected))
<1> DEFINE F == FramesOf(asm, alreadyCollected)
<1>1. /\ Callers \in Seq(Frames) /\ Len(Callers) = Len(stack) - 1
      /\ \A i \in 1..Len(Callers) : Callers[i] = stack[i]
      /\ Len(stack) \in 1..Len(stack)
  BY TopType
<1>2. stack \in Seq(F) /\ Len(stack) \in Nat
  BY LenProperties DEF DescriptionInv
<1>3. Len(Callers) \in Nat /\ Callers = [i \in 1..Len(Callers) |-> Callers[i]]
  BY <1>1, LenProperties
<1> HIDE DEF F
<1>4. \A i \in 1..Len(stack) : stack[i] \in F
  BY <1>2, ElementOfSeq
<1>5. \A i \in 1..Len(Callers) : Callers[i] \in F
  BY <1>1, <1>2, <1>3, <1>4
<1>6. Callers \in Seq(F)
  BY <1>3, <1>5
<1>7. Top \in F
  BY <1>1, <1>4 DEF Top
<1> QED BY <1>6, <1>7 DEF F

(* A call of CollectCore keeps what is described, and the frame it opens   *)
(* has no members yet.                                                     *)
LEMMA CollectCoreDescribes ==
  ASSUME TypeOK, DescriptionInv, NEW t \in Types, NEW callers, CollectCore(t, callers),
         callers \in Seq(FramesOf(asm, alreadyCollected \cup {t})), asm' = asm,
         UNCHANGED <<collectedObjectInfo, collectedClosedTypeGenericInfo>>
  PROVE  DescriptionInv'
<1> DEFINE known == alreadyCollected \cup {t}
           frame == [type |-> t, next |-> 1, members |-> << >>]
           info == EnumSerializationInfo(asm, t)
<1>1. alreadyCollected' = known
  BY CollectCoreEffect
<1>2. frame \in FramesOf(asm, known)
  <2>1. frame \in Frames /\ frame.members = << >>
    BY DEF Frames
  <2>2. << >> \in Seq(MembersOf(asm, known))
    BY EmptySeq
  <2> HIDE DEF frame, known
  <2> QED BY <2>1, <2>2 DEF FramesOf
<1>3. info \in NamedEnums(asm)
  BY DEF EnumSerializationInfo, EnumInfos, NamedEnums, TypeOK, Assembly
<1>4. /\ collectedEnumInfo \in Seq(NamedEnums(asm))
      /\ Append(collectedEnumInfo, info) \in Seq(NamedEnums(asm))
      /\ Append(callers, frame) \in Seq(FramesOf(asm, known))
  BY <1>2, <1>3, AppendProperties DEF DescriptionInv
<1>5. /\ collectedObjectInfo \in Seq(InfosOf(asm, known))
      /\ collectedClosedTypeGenericInfo \in Seq(InfosOf(asm, known))
  BY KnownGrows DEF DescriptionInv
<1>6. stack' \in {callers, Append(callers, frame)}
  BY CollectCoreEffect
<1>7. collectedEnumInfo' \in {collectedEnumInfo, Append(collectedEnumInfo, info)}
  BY DEF CollectCore
<1> HIDE DEF known, frame, info
<1> QED BY <1>1, <1>4, <1>5, <1>6, <1>7 DEF DescriptionInv, known

(* The innermost frame one turn later, with members that are known.        *)
LEMMA AdvancedDescribed ==
  ASSUME TypeOK, DescriptionInv, InUse, NEW known, alreadyCollected \subseteq known,
         NEW members \in Seq(MembersOf(asm, known)), members \in Seq(Members)
  PROVE  Advanced(members) \in Seq(FramesOf(asm, known))
<1> DEFINE top == [type |-> Top.type, next |-> Top.next + 1, members |-> members]
<1>1. Top \in Frames /\ stack # << >>
  BY TopType DEF InUse
<1>2. top \in FramesOf(asm, known)
  BY <1>1 DEF Frames, FramesOf
<1>3. Callers \in Seq(FramesOf(asm, known))
  BY <1>1, TopDescribed, KnownGrows
<1> QED BY <1>2, <1>3, AppendProperties DEF Advanced

LEMMA DescriptionStep ==
  TypeOK /\ WalkOver /\ DescriptionInv /\ [Next]_vars => DescriptionInv'
<1> SUFFICES ASSUME TypeOK, WalkOver, DescriptionInv, [Next]_vars PROVE DescriptionInv'
  OBVIOUS
<1>1. CASE Collect
  <2>1. /\ collectedObjectInfo' = << >> /\ collectedEnumInfo' = << >>
        /\ collectedClosedTypeGenericInfo' = << >> /\ stack' = << >>
    BY <1>1 DEF Collect, ResetWorkspace, WalkOver
  <2> QED BY <2>1 DEF DescriptionInv
<1>2. CASE CollectTarget
  <2>1. asm.allTypes[target] \in Types
    <3>1. asm.allTypes \in Seq(Types)
      BY DEF TypeOK, Assembly
    <3> QED BY <1>2, <3>1, ElementOfSeq DEF CollectTarget, TypeOK
  <2>2. << >> \in Seq(FramesOf(asm, alreadyCollected \cup {asm.allTypes[target]}))
    OBVIOUS
  <2> QED BY <1>2, <2>1, <2>2, CollectCoreDescribes DEF CollectTarget
<1>3. CASE CollectArgument
  <2> DEFINE known == alreadyCollected \cup {TopUse.type}
  <2>1. InUse /\ Top \in FramesOf(asm, alreadyCollected)
    BY <1>3, TopDescribed DEF CollectArgument, InUse
  <2>2. Top.members \in Seq(Members) /\ Top.members \in Seq(MembersOf(asm, known))
    BY <2>1, KnownGrows DEF FramesOf, Frames
  <2>3. TopUse.type \in Types
    BY <2>1, <2>2, TopUseType DEF UseRecords
  <2>4. Advanced(Top.members) \in Seq(FramesOf(asm, known))
    BY <2>1, <2>2, AdvancedDescribed
  <2> QED BY <1>3, <2>3, <2>4, CollectCoreDescribes DEF CollectArgument
<1>4. CASE SkipMember
  <2>1. InUse /\ Top \in FramesOf(asm, alreadyCollected)
    BY <1>4, TopDescribed DEF SkipMember, InUse
  <2>2. Advanced(Top.members) \in Seq(FramesOf(asm, alreadyCollected))
    BY <2>1, AdvancedDescribed DEF FramesOf, Frames
  <2> QED BY <1>4, <2>2 DEF SkipMember, workspace, DescriptionInv
<1>5. CASE CollectMember
  <2> DEFINE known == alreadyCollected \cup {TopUse.type}
             info == MemberSerializationInfo(asm, TopUse)
             members == Append(Top.members, info)
  <2>1. InUse /\ Top \in FramesOf(asm, alreadyCollected)
    BY <1>5, TopDescribed DEF CollectMember, InUse
  <2>2. Top.members \in Seq(Members) /\ Top.members \in Seq(MembersOf(asm, known))
    BY <2>1, KnownGrows DEF FramesOf, Frames
  <2>3. TopUse \in UseRecords /\ TopUse.type \in Types
    BY <2>1, <2>2, TopUseType DEF UseRecords
  <2>4. info \in Members /\ info \in MembersOf(asm, known)
    BY <2>3, MemberType DEF TypeOK, MembersOf, MemberSerializationInfo
  <2>5. members \in Seq(Members) /\ members \in Seq(MembersOf(asm, known))
    BY <2>2, <2>4, AppendProperties
  <2>6. /\ CollectCore(TopUse.type, Advanced(members)) /\ asm' = asm
        /\ UNCHANGED <<collectedObjectInfo, collectedClosedTypeGenericInfo>>
    BY <1>5 DEF CollectMember
  <2> HIDE DEF members, info
  <2>7. Advanced(members) \in Seq(FramesOf(asm, known))
    BY <2>1, <2>5, AdvancedDescribed
  <2> QED BY <2>3, <2>6, <2>7, CollectCoreDescribes
<1>6. CASE FinishType
  <2> DEFINE info == ObjectSerializationInfo(asm, Top.type, Top.members)
             infos == Seq(InfosOf(asm, alreadyCollected))
  <2>1. stack # << >>
    BY <1>6 DEF FinishType
  <2>2. /\ Top \in FramesOf(asm, alreadyCollected)
        /\ Callers \in Seq(FramesOf(asm, alreadyCollected))
    BY <2>1, TopDescribed
  <2>3. info \in InfosOf(asm, alreadyCollected)
    BY <2>2 DEF ObjectSerializationInfo, ObjectInfos, InfosOf, FramesOf, Frames, TypeOK, Assembly
  <2>4. /\ Append(collectedObjectInfo, info) \in infos
        /\ Append(collectedClosedTypeGenericInfo, info) \in infos
    BY <2>3, AppendProperties DEF DescriptionInv
  <2>5. collectedObjectInfo' \in infos /\ collectedClosedTypeGenericInfo' \in infos
    BY <1>6, <2>4 DEF FinishType, AddInfo, DescriptionInv
  <2> QED BY <1>6, <2>2, <2>5 DEF FinishType, DescriptionInv
<1>7. CASE ReturnResult
  BY <1>7 DEF ReturnResult, workspace, DescriptionInv
<1>8. CASE Throw
  <2>1. alreadyCollected \subseteq alreadyCollected'
    BY <1>8, ThrowEffect
  <2>2. /\ collectedObjectInfo \in Seq(InfosOf(asm, alreadyCollected'))
        /\ collectedClosedTypeGenericInfo \in Seq(InfosOf(asm, alreadyCollected'))
    BY <2>1, KnownGrows DEF DescriptionInv
  <2>3. /\ asm' = asm /\ stack' = << >> /\ collectedEnumInfo' = collectedEnumInfo
        /\ collectedObjectInfo' = collectedObjectInfo
        /\ collectedClosedTypeGenericInfo' = collectedClosedTypeGenericInfo
    BY <1>8, ThrowEffect
  <2> QED BY <2>2, <2>3 DEF DescriptionInv
<1>9. CASE UNCHANGED vars
  BY <1>9 DEF vars, workspace, DescriptionInv
<1> QED BY <1>1, <1>2, <1>3, <1>4, <1>5, <1>6, <1>7, <1>8, <1>9 DEF Next, Walk

-----------------------------------------------------------------------------
(* What Collect returns.                                                   *)

ReturnedResults ==
  [CollectedObjectInfo : Seq(ObjectInfos), collectedEnumInfo : Seq(EnumInfos),
   CollectedClosedTypeGenericInfo : Seq(ObjectInfos)]

ResultsInv ==
  /\ results \in Seq(ReturnedResults)
  /\ phase = "returned" => results # << >>
  /\ ResultsStablySorted
  /\ NoDanglingMember

LEMMA ResultsStep ==
  TypeOK /\ Counted /\ DescriptionInv /\ ResultsInv /\ [Next]_vars => ResultsInv'
<1> SUFFICES ASSUME TypeOK, Counted, DescriptionInv, ResultsInv, [Next]_vars PROVE ResultsInv'
  OBVIOUS
<1>1. CASE ReturnResult
  <2> DEFINE o == OrderByFullName(collectedObjectInfo)
             e == OrderByFullName(collectedEnumInfo)
             g == OrderByFullName(collectedClosedTypeGenericInfo)
             r == [CollectedObjectInfo |-> o, collectedEnumInfo |-> e,
                   CollectedClosedTypeGenericInfo |-> g]
             Infos == InfosOf(asm, alreadyCollected)
  <2>1. /\ results' = Append(results, r) /\ stack = << >>
        /\ UNCHANGED <<collectedObjectInfo, collectedEnumInfo, collectedClosedTypeGenericInfo>>
    BY <1>1 DEF ReturnResult, workspace
  <2>2. /\ collectedObjectInfo \in Seq(Infos) /\ collectedClosedTypeGenericInfo \in Seq(Infos)
        /\ collectedEnumInfo \in Seq(NamedEnums(asm))
        /\ \A i \in Infos : i \in ObjectInfos /\ i.fullName \in Nat
        /\ \A i \in NamedEnums(asm) : i \in EnumInfos /\ i.fullName \in Nat
    BY DEF DescriptionInv, InfosOf, NamedEnums, ObjectInfos, EnumInfos
  <2> HIDE DEF Infos
  <2>3. /\ o \in Seq(Infos) /\ ElementsOf(o) = ElementsOf(collectedObjectInfo)
        /\ IsStablySorted(o, collectedObjectInfo)
    BY <2>2, OrderFacts
  <2>4. /\ g \in Seq(Infos) /\ ElementsOf(g) = ElementsOf(collectedClosedTypeGenericInfo)
        /\ IsStablySorted(g, collectedClosedTypeGenericInfo)
    BY <2>2, OrderFacts
  <2>5. /\ e \in Seq(NamedEnums(asm)) /\ ElementsOf(e) = ElementsOf(collectedEnumInfo)
        /\ IsStablySorted(e, collectedEnumInfo)
    BY <2>2, OrderFacts
  <2>6. o \in Seq(ObjectInfos) /\ g \in Seq(ObjectInfos) /\ e \in Seq(EnumInfos)
    BY <2>2, <2>3, <2>4, <2>5, SeqMonotonic
  <2> HIDE DEF o, g, e
  <2>7. r \in ReturnedResults
    BY <2>6 DEF ReturnedResults
  <2>8. /\ results' \in Seq(ReturnedResults) /\ results' # << >>
        /\ Len(results') = Len(results) + 1 /\ Len(results) \in Nat
        /\ \A i \in 1..Len(results) : results'[i] = results[i]
        /\ results'[Len(results) + 1] = r
    <3>1. results \in Seq(ReturnedResults)
      BY DEF ResultsInv
    <3> HIDE DEF r
    <3> QED BY <2>1, <2>7, <3>1, AppendProperties, LenProperties
  <2>9. ResultsStablySorted'
    <3>1. results'[Len(results')] = r
      BY <2>8
    <3> QED BY <2>1, <2>3, <2>4, <2>5, <3>1 DEF ResultsStablySorted
  <2>10. ASSUME NEW i \in ElementsOf(o) \cup ElementsOf(g), NEW m \in ElementsOf(i.members)
         PROVE  m.type \in {d.fullName : d \in ElementsOf(o) \cup ElementsOf(g) \cup ElementsOf(e)}
    <3>1. /\ \A k \in DOMAIN o : o[k] \in Infos
          /\ \A k \in DOMAIN g : g[k] \in Infos
          /\ \A k \in DOMAIN e : e[k] \in NamedEnums(asm)
      BY <2>3, <2>4, <2>5, ElementOfSeq, LenProperties
    <3>2. i \in Infos
      BY <3>1 DEF ElementsOf
    <3>3. i.members \in Seq(MembersOf(asm, alreadyCollected))
      BY <3>2 DEF Infos, InfosOf
    <3>4. \A k \in DOMAIN i.members : i.members[k] \in MembersOf(asm, alreadyCollected)
      BY <3>3, ElementOfSeq, LenProperties
    <3>5. PICK t \in alreadyCollected : m.type = asm.fullName[t]
      BY <3>4 DEF ElementsOf, MembersOf
    <3>6. t \in TypeSet(collectedObjectInfo) \cup TypeSet(collectedEnumInfo)
                  \cup TypeSet(collectedClosedTypeGenericInfo)
      BY <1>1, <2>1 DEF Counted, AllCounted, ReturnResult, TypeSet
    <3>7. \E d \in ElementsOf(o) \cup ElementsOf(g) \cup ElementsOf(e) : d.type = t
      BY <2>3, <2>4, <2>5, <3>6 DEF TypeSet, ElementsOf
    <3>8. PICK d \in ElementsOf(o) \cup ElementsOf(g) \cup ElementsOf(e) : d.type = t
      BY <3>7
    <3>9. d.fullName = asm.fullName[d.type]
      BY <3>1 DEF ElementsOf, Infos, InfosOf, NamedEnums
    <3> QED BY <3>5, <3>8, <3>9
  <2>11. NoDanglingMember'
    <3>1. \A q \in ElementsOf(results') : q \in ElementsOf(results) \/ q = r
      <4>1. DOMAIN results' = 1..Len(results) + 1 /\ DOMAIN results = 1..Len(results)
        BY <2>8, LenProperties DEF ResultsInv
      <4> QED BY <2>8, <4>1 DEF ElementsOf
    <3>2. SUFFICES ASSUME NEW q \in ElementsOf(results')
          PROVE  LET infos == ElementsOf(q.CollectedObjectInfo)
                                \cup ElementsOf(q.CollectedClosedTypeGenericInfo)
                     names == {i.fullName : i \in infos \cup ElementsOf(q.collectedEnumInfo)}
                 IN  \A i \in infos : \A m \in ElementsOf(i.members) : m.type \in names
      BY DEF NoDanglingMember, ElementsOf
    <3>3. CASE q \in ElementsOf(results)
      BY <3>3 DEF ResultsInv, NoDanglingMember
    <3>4. CASE q = r
      BY <2>10, <3>4
    <3> QED BY <3>1, <3>3, <3>4
  <2> QED BY <2>8, <2>9, <2>11 DEF ResultsInv
<1>2. CASE UNCHANGED results /\ phase' # "returned"
  BY <1>2 DEF ResultsInv, ResultsStablySorted, NoDanglingMember, ElementsOf
<1>3. CASE UNCHANGED vars
  BY <1>3 DEF vars, workspace, ResultsInv, ResultsStablySorted, NoDanglingMember, ElementsOf,
              IsStablySorted, Precedes
<1>4. Throw => UNCHANGED results /\ phase' # "returned"
  BY ThrowEffect
<1>5. Collect \/ Walk => UNCHANGED results /\ phase' # "returned"
  BY DEF Collect, Walk, CollectTarget, CollectArgument, SkipMember, CollectMember, FinishType,
         InUse, workspace
<1> QED BY <1>1, <1>2, <1>3, <1>4, <1>5 DEF Next

LEMMA ResultsInit == Init => DescriptionInv /\ ResultsInv
<1> SUFFICES ASSUME Init PROVE DescriptionInv /\ ResultsInv
  OBVIOUS
<1>1. /\ stack = << >> /\ collectedObjectInfo = << >> /\ collectedEnumInfo = << >>
      /\ collectedClosedTypeGenericInfo = << >> /\ results = << >> /\ phase = "idle"
  BY DEF Init
<1> QED BY <1>1 DEF DescriptionInv, ResultsInv, ResultsStablySorted, NoDanglingMember, ElementsOf

LEMMA ResultsHold == Spec => [](ResultsStablySorted /\ NoDanglingMember)
<1>1. Init => Counted
  BY FS_EmptySet DEF Init, Counted, AllCounted, TypeSet
<1>2. WalkInv => WalkOver
  BY DEF WalkInv
<1>3. ResultsInv => ResultsStablySorted /\ NoDanglingMember
  BY DEF ResultsInv
<1> QED
  BY <1>1, <1>2, <1>3, TypeCorrect, WalkInvInit, WalkInvStep, CountedStep, ResultsInit,
     DescriptionStep, ResultsStep, PTL DEF Spec

(* Each list that Collect returns has the descriptions collected, sorted   *)
(* by name, those of one name in the order of their collection.            *)
THEOREM ResultsSorted == Spec => []ResultsStablySorted
BY ResultsHold, PTL

(* No member of a description that Collect returns names a type that the   *)
(* same result does not describe, in whatever order types were collected   *)
(* and however often Collect was called.                                   *)
THEOREM MembersDescribed == Spec => []NoDanglingMember
BY ResultsHold, PTL

-----------------------------------------------------------------------------
(* The walk of one Collect as a function of the program, to compare the    *)
(* results of two.                                                         *)

Configurations ==
  [target : Nat \ {0}, stack : Seq(Frames), known : SUBSET Types, objects : Seq(ObjectInfos),
   enums : Seq(EnumInfos), generics : Seq(ObjectInfos)]
Now == [target |-> target, stack |-> stack, known |-> alreadyCollected,
        objects |-> collectedObjectInfo, enums |-> collectedEnumInfo,
        generics |-> collectedClosedTypeGenericInfo]
Start == [target |-> 1, stack |-> << >>, known |-> {}, objects |-> << >>,
          enums |-> << >>, generics |-> << >>]

(* The configuration after CollectCore(t) with the frames `callers' below. *)
Visited(a, c, to, t, callers) ==
  LET isNew == t \notin c.known
      isEnum == a.kind[t] = "enum"
      frame == [type |-> t, next |-> 1, members |-> << >>]
  IN  [target   |-> to,
       stack    |-> IF isNew /\ ~isEnum THEN Append(callers, frame) ELSE callers,
       known    |-> c.known \cup {t},
       objects  |-> c.objects,
       enums    |-> IF isNew /\ isEnum THEN Append(c.enums, EnumSerializationInfo(a, t))
                                       ELSE c.enums,
       generics |-> c.generics]

(* The configuration after the step of the walk that c allows.             *)
IsDone(a, c) == c.stack = << >> /\ c.target > Len(a.allTypes)
TopOf(c) == c.stack[Len(c.stack)]
Turned(c, members) ==
  Append(SubSeq(c.stack, 1, Len(c.stack) - 1),
         [type |-> TopOf(c).type, next |-> TopOf(c).next + 1, members |-> members])
Finished(a, c) ==
  LET info == ObjectSerializationInfo(a, TopOf(c).type, TopOf(c).members)
      kind == a.kind[TopOf(c).type]
  IN  [target   |-> c.target,
       stack    |-> SubSeq(c.stack, 1, Len(c.stack) - 1),
       known    |-> c.known,
       objects  |-> IF kind = "object" THEN Append(c.objects, info) ELSE c.objects,
       enums    |-> c.enums,
       generics |-> IF kind = "generic" THEN Append(c.generics, info) ELSE c.generics]
Turn(a, c, u) ==
  LET members == TopOf(c).members
  IN  IF u.via = "argument" THEN Visited(a, c, c.target, u.type, Turned(c, members))
      ELSE IF IsIncluded(u)
        THEN Visited(a, c, c.target, u.type,
                     Turned(c, Append(members, MemberSerializationInfo(a, u))))
        ELSE [target |-> c.target, stack |-> Turned(c, members), known |-> c.known,
              objects |-> c.objects, enums |-> c.enums, generics |-> c.generics]
Successor(a, c) ==
  IF c.stack = << >> THEN Visited(a, c, c.target + 1, a.allTypes[c.target], << >>)
  ELSE IF TopOf(c).next > Len(Uses(a, TopOf(c).type)) THEN Finished(a, c)
  ELSE Turn(a, c, Uses(a, TopOf(c).type)[TopOf(c).next])

(* The configurations the walk of a program comes to: those that every set *)
(* of configurations closed under its steps holds.                         *)
IsClosedUnder(a, S) ==
  \A c \in S : ~IsDone(a, c) /\ Successor(a, c) \in Configurations => Successor(a, c) \in S
Reached(a) ==
  {c \in Configurations :
     \A S \in SUBSET Configurations : Start \in S /\ IsClosedUnder(a, S) => c \in S}

(* The walk comes to one configuration in which it is done: from each that *)
(* it comes to it goes on to that one, and from it nowhere.                *)
LEMMA OneOutcome ==
  ASSUME NEW a, NEW c \in Reached(a), IsDone(a, c), NEW d \in Reached(a), IsDone(a, d)
  PROVE  c = d
<1> DEFINE LeadsToC(e) ==
             \A S \in SUBSET Configurations : e \in S /\ IsClosedUnder(a, S) => c \in S
           Leading == {e \in Configurations : LeadsToC(e)}
<1> HIDE DEF Configurations
<1>1. Start \in Configurations => Start \in Leading
  BY DEF Reached
<1>2. Start \in Configurations
  <2>1. << >> \in Seq(Frames) /\ << >> \in Seq(ObjectInfos) /\ << >> \in Seq(EnumInfos)
    OBVIOUS
  <2> QED BY <2>1 DEF Start, Configurations
<1>3. IsClosedUnder(a, Leading)
  <2> SUFFICES ASSUME NEW e \in Leading, ~IsDone(a, e), Successor(a, e) \in Configurations
               PROVE  LeadsToC(Successor(a, e))
    BY DEF IsClosedUnder
  <2> SUFFICES ASSUME NEW S \in SUBSET Configurations, Successor(a, e) \in S, IsClosedUnder(a, S)
               PROVE  c \in S
    OBVIOUS
  <2>1. IsClosedUnder(a, S \cup {e})
    BY DEF IsClosedUnder
  <2>2. c \in S \cup {e}
    BY <2>1
  <2>3. c # e
    OBVIOUS
  <2> QED BY <2>2, <2>3
<1>4. d \in Leading
  BY <1>1, <1>2, <1>3 DEF Reached
<1>5. IsClosedUnder(a, {d})
  BY DEF IsClosedUnder
<1>6. {d} \in SUBSET Configurations
  BY DEF Reached
<1> QED BY <1>4, <1>5, <1>6

(* A step of the walk is the step of its configuration.                    *)
LEMMA WalkIsFunction ==
  ASSUME TypeOK, Walk
  PROVE  Now' = Successor(asm, Now) /\ ~IsDone(asm, Now) /\ asm' = asm /\ phase' = phase
<1>1. TopOf(Now) = Top /\ Now.stack = stack /\ Now.target = target /\ Now.known = alreadyCollected
      /\ Now.objects = collectedObjectInfo /\ Now.enums = collectedEnumInfo
      /\ Now.generics = collectedClosedTypeGenericInfo
      /\ \A members : Turned(Now, members) = Advanced(members)
  BY DEF TopOf, Now, Top, Turned, Advanced, Callers
<1>2. ASSUME NEW t, NEW callers, CollectCore(t, callers),
             UNCHANGED <<collectedObjectInfo, collectedClosedTypeGenericInfo>>
      PROVE  Now' = Visited(asm, Now, target', t, callers)
  <2>1. CASE t \in alreadyCollected
    BY <1>1, <1>2, <2>1 DEF CollectCore, Visited, Now
  <2>2. CASE t \notin alreadyCollected
    <3>1. alreadyCollected' = alreadyCollected \cup {t}
      BY <1>2, <2>2 DEF CollectCore
    <3>2. CASE asm.kind[t] = "enum"
      BY <1>1, <1>2, <2>2, <3>1, <3>2 DEF CollectCore, Visited, Now
    <3>3. CASE asm.kind[t] # "enum"
      BY <1>1, <1>2, <2>2, <3>1, <3>3 DEF CollectCore, Visited, Now
    <3> QED BY <3>2, <3>3
  <2> QED BY <2>1, <2>2
<1>3. CASE CollectTarget
  <2>1. /\ stack = << >> /\ ~(target > Len(asm.allTypes)) /\ target' = target + 1
        /\ CollectCore(asm.allTypes[target], << >>)
        /\ UNCHANGED <<asm, phase, collectedObjectInfo, collectedClosedTypeGenericInfo>>
    <3>1. Len(asm.allTypes) \in Nat /\ target \in Nat
      BY DEF TypeOK, Assembly
    <3> QED BY <1>3, <3>1 DEF CollectTarget
  <2>2. Now' = Visited(asm, Now, target', asm.allTypes[target], << >>)
    BY <1>2, <2>1
  <2> QED BY <1>1, <2>1, <2>2 DEF Successor, IsDone
<1>4. ASSUME InUse
      PROVE  /\ Successor(asm, Now) = Turn(asm, Now, TopUse)
             /\ ~IsDone(asm, Now)
  <2>1. stack # << >> /\ ~(Top.next > Len(Uses(asm, Top.type)))
    <3>1. Top \in Frames /\ stack # << >>
      BY <1>4, TopType DEF InUse
    <3>2. Uses(asm, Top.type) \in Seq(UseRecords) /\ Top.next \in Nat
      BY <3>1, UsesType DEF Frames, TypeOK
    <3>3. Len(Uses(asm, Top.type)) \in Nat
      BY <3>2, LenProperties
    <3> QED BY <1>4, <3>1, <3>2, <3>3 DEF InUse
  <2> QED BY <1>1, <2>1 DEF Successor, IsDone, TopUse
<1>5. CASE CollectArgument
  <2>1. /\ InUse /\ TopUse.via = "argument" /\ CollectCore(TopUse.type, Advanced(Top.members))
        /\ UNCHANGED <<asm, phase, target, collectedObjectInfo, collectedClosedTypeGenericInfo>>
    BY <1>5 DEF CollectArgument
  <2>2. Now' = Visited(asm, Now, target', TopUse.type, Advanced(Top.members))
    BY <1>2, <2>1
  <2> QED BY <1>1, <1>4, <2>1, <2>2 DEF Turn
<1>6. CASE SkipMember
  <2>1. /\ InUse /\ TopUse.via # "argument" /\ ~IsIncluded(TopUse)
        /\ stack' = Advanced(Top.members)
        /\ UNCHANGED <<asm, phase, target, alreadyCollected, collectedObjectInfo,
                       collectedEnumInfo, collectedClosedTypeGenericInfo>>
    BY <1>6 DEF SkipMember, workspace
  <2> QED BY <1>1, <1>4, <2>1 DEF Turn, Now
<1>7. CASE CollectMember
  <2> DEFINE members == Append(Top.members, MemberSerializationInfo(asm, TopUse))
  <2>1. /\ InUse /\ TopUse.via # "argument" /\ IsIncluded(TopUse)
        /\ CollectCore(TopUse.type, Advanced(members))
        /\ UNCHANGED <<asm, phase, target, collectedObjectInfo, collectedClosedTypeGenericInfo>>
    BY <1>7 DEF CollectMember
  <2>2. Turn(asm, Now, TopUse) = Visited(asm, Now, Now.target, TopUse.type, Turned(Now, members))
    BY <1>1, <2>1 DEF Turn
  <2> HIDE DEF members
  <2>3. Now' = Visited(asm, Now, target', TopUse.type, Advanced(members))
    BY <1>2, <2>1
  <2> QED BY <1>1, <1>4, <2>1, <2>2, <2>3
<1>8. CASE FinishType
  <2>1. /\ stack # << >> /\ Top.next > Len(Uses(asm, Top.type)) /\ stack' = Callers /\ AddInfo
        /\ UNCHANGED <<asm, phase, target, alreadyCollected, collectedEnumInfo>>
    BY <1>8 DEF FinishType
  <2>2. Now' = Finished(asm, Now)
    <3>1. CASE asm.kind[Top.type] = "object"
      BY <1>1, <2>1, <3>1 DEF AddInfo, Finished, Now, Callers
    <3>2. CASE asm.kind[Top.type] = "generic"
      BY <1>1, <2>1, <3>2 DEF AddInfo, Finished, Now, Callers
    <3> QED BY <2>1, <3>1, <3>2 DEF AddInfo
  <2> QED BY <1>1, <2>1, <2>2 DEF Successor, IsDone
<1> QED BY <1>3, <1>5, <1>6, <1>7, <1>8 DEF Walk

(* Every result is what the one outcome of the walk is reported as.        *)
Report(c) ==
  [CollectedObjectInfo            |-> OrderByFullName(c.objects),
   collectedEnumInfo              |-> OrderByFullName(c.enums),
   CollectedClosedTypeGenericInfo |-> OrderByFullName(c.generics)]
IsReported(r, a) == \E c \in Reached(a) : IsDone(a, c) /\ r = Report(c)
AgreeInv ==
  /\ phase = "walking" => Now \in Reached(asm)
  /\ \A i \in DOMAIN results : IsReported(results[i], asm)

LEMMA AgreeStep == TypeOK /\ TypeOK' /\ WalkOver /\ ResultsInv /\ AgreeInv /\ [Next]_vars => AgreeInv'
<1> SUFFICES ASSUME TypeOK, TypeOK', WalkOver, ResultsInv, AgreeInv, [Next]_vars PROVE AgreeInv'
  OBVIOUS
<1>0. Now \in Configurations /\ Now' \in Configurations
  BY DEF TypeOK, Now, Configurations
<1>1. CASE Collect
  <2>1. Now' = Start /\ UNCHANGED <<asm, results>>
    BY <1>1 DEF Collect, ResetWorkspace, WalkOver, Now, Start
  <2>2. Now' \in Reached(asm)
    BY <1>0, <2>1 DEF Reached
  <2> QED BY <2>1, <2>2 DEF AgreeInv
<1>2. CASE Walk
  <2>1. Now' = Successor(asm, Now) /\ ~IsDone(asm, Now) /\ asm' = asm
    BY <1>2, WalkIsFunction
  <2>2. phase = "walking" /\ results' = results
    BY <1>2 DEF Walk, CollectTarget, CollectArgument, SkipMember, CollectMember, FinishType, InUse
  <2>3. Now' \in Reached(asm)
    <3>1. ASSUME NEW S \in SUBSET Configurations, Start \in S, IsClosedUnder(asm, S)
          PROVE  Now' \in S
      <4>1. Now \in S
        BY <2>2, <3>1 DEF AgreeInv, Reached
      <4> QED BY <1>0, <2>1, <3>1, <4>1 DEF IsClosedUnder
    <3> QED BY <1>0, <3>1 DEF Reached
  <2> QED BY <2>1, <2>2, <2>3 DEF AgreeInv
<1>3. CASE ReturnResult
  <2>1. results' = Append(results, Report(Now)) /\ asm' = asm /\ phase' = "returned"
    BY <1>3 DEF ReturnResult, Report, Now
  <2>2. IsReported(Report(Now), asm)
    <3>1. IsDone(asm, Now)
      BY <1>3 DEF ReturnResult, IsDone, Now
    <3>2. Now \in Reached(asm)
      BY <1>3 DEF ReturnResult, AgreeInv
    <3> QED BY <3>1, <3>2 DEF IsReported
  <2>3. /\ DOMAIN results' = 1..Len(results) + 1 /\ Len(results) \in Nat
        /\ DOMAIN results = 1..Len(results)
        /\ \A i \in 1..Len(results) : results'[i] = results[i]
        /\ results'[Len(results) + 1] = Report(Now)
    <3>1. PICK r : r = Report(Now)
      OBVIOUS
    <3>2. results \in Seq(ReturnedResults \cup {r}) /\ r \in ReturnedResults \cup {r}
      BY SeqMonotonic DEF ResultsInv
    <3>3. results' = Append(results, r)
      BY <2>1, <3>1
    <3> QED BY <3>1, <3>2, <3>3, AppendProperties, LenProperties
  <2>4. \A i \in DOMAIN results' : IsReported(results'[i], asm)
    BY <2>2, <2>3 DEF AgreeInv
  <2> QED BY <2>1, <2>4 DEF AgreeInv
<1>4. CASE Throw
  BY <1>4, ThrowEffect DEF AgreeInv
<1>5. CASE UNCHANGED vars
  <2>1. UNCHANGED <<Now, asm, phase, results>>
    BY <1>5 DEF vars, workspace, Now
  <2> QED BY <2>1 DEF AgreeInv
<1> QED BY <1>1, <1>2, <1>3, <1>4, <1>5 DEF Next

(* However often Collect is called on a collector, it answers the same:    *)
(* nothing of one call is left for the next.                               *)
THEOREM RepeatedCollects == Spec => []RepeatedCollectAgrees
<1>1. Init => AgreeInv
  <2> SUFFICES ASSUME Init PROVE AgreeInv
    OBVIOUS
  <2>1. phase = "idle" /\ results = << >>
    BY DEF Init
  <2> QED BY <2>1 DEF AgreeInv
<1>2. AgreeInv => RepeatedCollectAgrees
  BY OneOutcome DEF AgreeInv, IsReported, RepeatedCollectAgrees
<1>3. WalkInv => WalkOver
  BY DEF WalkInv
<1>4. Init => Counted
  BY FS_EmptySet DEF Init, Counted, AllCounted, TypeSet
<1> QED
  BY <1>1, <1>2, <1>3, <1>4, TypeCorrect, WalkInvInit, WalkInvStep, CountedStep, ResultsInit,
     DescriptionStep, ResultsStep, AgreeStep, PTL DEF Spec

-----------------------------------------------------------------------------
(* What a description lists, and that a result has one of every type.      *)

(* A use that is not a type argument has the name of a member.             *)
LEMMA MembersHaveNames ==
  ASSUME NEW a \in Assembly, NEW t \in Types
  PROVE  \A i \in DOMAIN Uses(a, t) :
           Uses(a, t)[i].via # "argument" => Uses(a, t)[i].name \in Names
<1> DEFINE Named == {u \in UseRecords : u.via # "argument" => u.name \in Names}
<1>1. /\ \A u \in Types : ArgumentUse(u) \in Named
      /\ \A p \in PropertyInfo : PropertyUse(p) \in Named
      /\ \A f \in FieldInfo : FieldUse(f) \in Named
  BY DEF ArgumentUse, PropertyUse, FieldUse, PropertyInfo, FieldInfo, UseRecords
<1>2. Uses(a, t) \in Seq(Named)
  <2> HIDE DEF Named
  <2> QED BY <1>1, UsesIn
<1>3. \A i \in DOMAIN Uses(a, t) : Uses(a, t)[i] \in Named
  <2> HIDE DEF Named
  <2> QED BY <1>2, ElementOfSeq, LenProperties
<1> QED BY <1>3

(* The places, before n, of the uses of t that its description lists.      *)
ListedUses(a, t, n) ==
  {i \in DOMAIN Uses(a, t) : /\ i < n
                             /\ Uses(a, t)[i].via # "argument" /\ IsIncluded(Uses(a, t)[i])}

(* `members' has one member for each of them.                              *)
Lists(a, members, t, n) ==
  \E f \in [DOMAIN members -> ListedUses(a, t, n)] :
    /\ \A i \in ListedUses(a, t, n) : \E k \in DOMAIN members : f[k] = i
    /\ \A k, l \in DOMAIN members : f[k] = f[l] => k = l
    /\ \A k \in DOMAIN members : members[k] = MemberSerializationInfo(a, Uses(a, t)[f[k]])

ListingFrames(a) == {f \in Frames : Lists(a, f.members, f.type, f.next)}
DescriptionsOf(a, kind) ==
  {i \in ObjectInfos : /\ a.kind[i.type] = kind
                       /\ i.fullName = a.fullName[i.type]
                       /\ i.attributes = a.attributes[i.type]
                       /\ Lists(a, i.members, i.type, Len(Uses(a, i.type)) + 1)}

EnumsOf(a) == {e \in EnumInfos : a.kind[e.type] = "enum"}

ListingInv ==
  /\ stack \in Seq(ListingFrames(asm))
  /\ collectedEnumInfo \in Seq(EnumsOf(asm))
  /\ collectedObjectInfo \in Seq(DescriptionsOf(asm, "object"))
  /\ collectedClosedTypeGenericInfo \in Seq(DescriptionsOf(asm, "generic"))

(* The list goes on to the next use: either it is not listed, or a member  *)
(* is added for it.                                                        *)
LEMMA ListGrows ==
  ASSUME NEW a \in Assembly, NEW t \in Types, NEW n \in DOMAIN Uses(a, t), NEW members \in Seq(Members),
         Lists(a, members, t, n)
  PROVE  /\ ~(Uses(a, t)[n].via # "argument" /\ IsIncluded(Uses(a, t)[n]))
              => Lists(a, members, t, n + 1)
         /\ Uses(a, t)[n].via # "argument" /\ IsIncluded(Uses(a, t)[n])
              => Lists(a, Append(members, MemberSerializationInfo(a, Uses(a, t)[n])), t, n + 1)
<1>1. DOMAIN Uses(a, t) \subseteq Nat /\ n \in Nat
  BY UsesType, LenProperties
<1>2. \A i \in DOMAIN Uses(a, t) : i < n + 1 <=> i < n \/ i = n
  BY <1>1
<1>3. CASE ~(Uses(a, t)[n].via # "argument" /\ IsIncluded(Uses(a, t)[n]))
  <2>1. ListedUses(a, t, n + 1) = ListedUses(a, t, n)
    BY <1>2, <1>3 DEF ListedUses
  <2> QED BY <1>3, <2>1 DEF Lists
<1>4. CASE Uses(a, t)[n].via # "argument" /\ IsIncluded(Uses(a, t)[n])
  <2> DEFINE info == MemberSerializationInfo(a, Uses(a, t)[n])
             more == Append(members, info)
             last == Len(members) + 1
  <2>1. /\ ListedUses(a, t, n + 1) = ListedUses(a, t, n) \cup {n}
        /\ n \notin ListedUses(a, t, n)
    BY <1>1, <1>2, <1>4 DEF ListedUses
  <2>2. PICK f \in [DOMAIN members -> ListedUses(a, t, n)] :
          /\ \A i \in ListedUses(a, t, n) : \E k \in DOMAIN members : f[k] = i
          /\ \A k, l \in DOMAIN members : f[k] = f[l] => k = l
          /\ \A k \in DOMAIN members : members[k] = MemberSerializationInfo(a, Uses(a, t)[f[k]])
    BY DEF Lists
  <2>3. PICK c : c = info
    OBVIOUS
  <2>4. /\ DOMAIN more = DOMAIN members \cup {last} /\ last \notin DOMAIN members
        /\ \A k \in DOMAIN members : more[k] = members[k]
        /\ more[last] = info
    <3>1. members \in Seq(Members \cup {c}) /\ c \in Members \cup {c}
      BY SeqMonotonic
    <3>2. /\ Len(members) \in Nat /\ DOMAIN members = 1..Len(members)
          /\ DOMAIN Append(members, c) = 1..(Len(members) + 1)
          /\ \A k \in 1..Len(members) : Append(members, c)[k] = members[k]
          /\ Append(members, c)[Len(members) + 1] = c
      BY <3>1, AppendProperties, LenProperties
    <3>3. 1..(Len(members) + 1) = 1..Len(members) \cup {last} /\ last \notin 1..Len(members)
      BY <3>2
    <3> QED BY <2>3, <3>2, <3>3
  <2> DEFINE g == [k \in DOMAIN more |-> IF k = last THEN n ELSE f[k]]
  <2> HIDE DEF more, last, info
  <2>5. /\ g \in [DOMAIN more -> ListedUses(a, t, n + 1)]
        /\ g[last] = n
        /\ \A k \in DOMAIN members : g[k] = f[k]
    BY <2>1, <2>4
  <2> HIDE DEF g
  <2>6. \A i \in ListedUses(a, t, n + 1) : \E k \in DOMAIN more : g[k] = i
    BY <2>1, <2>2, <2>4, <2>5
  <2>7. \A k, l \in DOMAIN more : g[k] = g[l] => k = l
    BY <2>1, <2>2, <2>4, <2>5
  <2>8. \A k \in DOMAIN more : more[k] = MemberSerializationInfo(a, Uses(a, t)[g[k]])
    BY <2>2, <2>4, <2>5 DEF info
  <2>9. Lists(a, more, t, n + 1)
    BY <2>5, <2>6, <2>7, <2>8 DEF Lists
  <2> QED BY <1>4, <2>9 DEF more, info
<1> QED BY <1>3, <1>4

(* Nothing is listed yet when a frame is opened, and all is at its end.    *)
LEMMA ListEnds ==
  ASSUME NEW a \in Assembly, NEW t \in Types
  PROVE  /\ Lists(a, << >>, t, 1)
         /\ \A n \in Nat : n > Len(Uses(a, t)) =>
              \A members : Lists(a, members, t, n) => Lists(a, members, t, Len(Uses(a, t)) + 1)
<1>1. DOMAIN Uses(a, t) = 1..Len(Uses(a, t)) /\ Len(Uses(a, t)) \in Nat
  BY UsesType, LenProperties
<1>2. Lists(a, << >>, t, 1)
  <2>1. ListedUses(a, t, 1) = {}
    BY <1>1 DEF ListedUses
  <2>2. DOMAIN << >> = {} /\ [k \in {} |-> k] \in [{} -> {}]
    OBVIOUS
  <2> QED BY <2>1, <2>2 DEF Lists
<1>3. ASSUME NEW n \in Nat, n > Len(Uses(a, t))
      PROVE  ListedUses(a, t, n) = ListedUses(a, t, Len(Uses(a, t)) + 1)
  BY <1>1, <1>3 DEF ListedUses
<1> QED BY <1>2, <1>3 DEF Lists

(* The innermost frame and its callers list what they have passed.         *)
LEMMA TopListing ==
  ASSUME TypeOK, ListingInv, stack # << >>
  PROVE  Top \in ListingFrames(asm) /\ Callers \in Seq(ListingFrames(asm))
<1> DEFINE F == ListingFrames(asm)
<1>1. /\ Callers \in Seq(Frames) /\ Len(Callers) = Len(stack) - 1
      /\ \A i \in 1..Len(Callers) : Callers[i] = stack[i]
      /\ Len(stack) \in 1..Len(stack)
  BY TopType
<1>2. stack \in Seq(F) /\ Len(stack) \in Nat
  BY LenProperties DEF ListingInv
<1>3. Len(Callers) \in Nat /\ Callers = [i \in 1..Len(Callers) |-> Callers[i]]
  BY <1>1, LenProperties
<1> HIDE DEF F
<1>4. \A i \in 1..Len(stack) : stack[i] \in F
  BY <1>2, ElementOfSeq
<1>5. \A i \in 1..Len(Callers) : Callers[i] \in F
  BY <1>1, <1>2, <1>3, <1>4
<1>6. Callers \in Seq(F)
  BY <1>3, <1>5
<1>7. Top \in F
  BY <1>1, <1>4 DEF Top
<1> QED BY <1>6, <1>7 DEF F

(* The innermost frame, one turn later.                                    *)
LEMMA AdvancedListing ==
  ASSUME TypeOK, ListingInv, InUse, NEW members \in Seq(Members),
         Lists(asm, members, Top.type, Top.next + 1)
  PROVE  Advanced(members) \in Seq(ListingFrames(asm))
<1> DEFINE top == [type |-> Top.type, next |-> Top.next + 1, members |-> members]
<1>1. Top \in Frames /\ stack # << >>
  BY TopType DEF InUse
<1>2. top \in ListingFrames(asm)
  BY <1>1 DEF Frames, ListingFrames
<1>3. Callers \in Seq(ListingFrames(asm))
  BY <1>1, TopListing
<1> QED BY <1>2, <1>3, AppendProperties DEF Advanced

(* A call of CollectCore describes an enum, opens a frame that lists       *)
(* nothing yet, or does neither.                                           *)
LEMMA CollectCoreLists ==
  ASSUME TypeOK, ListingInv, NEW t \in Types, NEW callers \in Seq(ListingFrames(asm)),
         CollectCore(t, callers), asm' = asm,
         UNCHANGED <<collectedObjectInfo, collectedClosedTypeGenericInfo>>
  PROVE  ListingInv'
<1> DEFINE frame == [type |-> t, next |-> 1, members |-> << >>]
<1>1. frame \in ListingFrames(asm)
  <2>1. frame \in Frames
    BY DEF Frames
  <2>2. Lists(asm, << >>, t, 1)
    BY ListEnds DEF TypeOK
  <2> QED BY <2>1, <2>2 DEF ListingFrames
<1>2. stack' \in {callers, Append(callers, frame)}
  BY CollectCoreEffect
<1> HIDE DEF frame
<1>3. Append(callers, frame) \in Seq(ListingFrames(asm))
  BY <1>1, AppendProperties
<1>4. collectedEnumInfo' \in Seq(EnumsOf(asm))
  <2>1. CASE collectedEnumInfo' = collectedEnumInfo
    BY <2>1 DEF ListingInv
  <2>2. CASE asm.kind[t] = "enum"
             /\ collectedEnumInfo' = Append(collectedEnumInfo, EnumSerializationInfo(asm, t))
    <3>1. EnumSerializationInfo(asm, t) \in EnumsOf(asm)
      BY <2>2 DEF EnumSerializationInfo, EnumInfos, EnumsOf, TypeOK, Assembly
    <3> QED BY <2>2, <3>1, AppendProperties DEF ListingInv
  <2> QED BY <2>1, <2>2 DEF CollectCore
<1> QED BY <1>2, <1>3, <1>4 DEF ListingInv

LEMMA ListingStep == TypeOK /\ WalkOver /\ ListingInv /\ [Next]_vars => ListingInv'
<1> SUFFICES ASSUME TypeOK, WalkOver, ListingInv, [Next]_vars PROVE ListingInv'
  OBVIOUS
<1>0. asm \in Assembly
  BY DEF TypeOK
<1>1. CASE Collect
  <2>1. /\ collectedObjectInfo' = << >> /\ collectedEnumInfo' = << >>
        /\ collectedClosedTypeGenericInfo' = << >> /\ stack' = << >>
    BY <1>1 DEF Collect, ResetWorkspace, WalkOver
  <2> QED BY <2>1 DEF ListingInv
<1>2. CASE CollectTarget
  <2>1. asm.allTypes[target] \in Types
    <3>1. asm.allTypes \in Seq(Types)
      BY DEF TypeOK, Assembly
    <3> QED BY <1>2, <3>1, ElementOfSeq DEF CollectTarget, TypeOK
  <2>2. << >> \in Seq(ListingFrames(asm))
    OBVIOUS
  <2> QED BY <1>2, <2>1, <2>2, CollectCoreLists DEF CollectTarget
<1>3. ASSUME InUse
      PROVE  /\ Top \in Frames /\ Top.type \in Types /\ Top.members \in Seq(Members)
             /\ Top.next \in DOMAIN Uses(asm, Top.type)
             /\ TopUse = Uses(asm, Top.type)[Top.next] /\ TopUse \in UseRecords
             /\ Lists(asm, Top.members, Top.type, Top.next)
  <2>1. Top \in ListingFrames(asm) /\ Top \in Frames
    BY <1>3, TopListing, TopType DEF InUse
  <2>2. Top.type \in Types /\ Top.members \in Seq(Members)
    BY <2>1 DEF Frames
  <2> QED BY <1>3, <2>1, <2>2, TopUseType DEF ListingFrames, TopUse
<1>4. CASE CollectArgument
  <2>1. InUse /\ TopUse.via = "argument"
    BY <1>4 DEF CollectArgument
  <2>2. Lists(asm, Top.members, Top.type, Top.next + 1)
    BY <1>0, <1>3, <2>1, ListGrows
  <2>3. Advanced(Top.members) \in Seq(ListingFrames(asm))
    BY <1>3, <2>1, <2>2, AdvancedListing
  <2>4. TopUse.type \in Types
    BY <1>3, <2>1 DEF UseRecords
  <2> QED BY <1>4, <2>3, <2>4, CollectCoreLists DEF CollectArgument
<1>5. CASE SkipMember
  <2>1. InUse /\ ~IsIncluded(TopUse)
    BY <1>5 DEF SkipMember
  <2>2. Lists(asm, Top.members, Top.type, Top.next + 1)
    BY <1>0, <1>3, <2>1, ListGrows
  <2>3. Advanced(Top.members) \in Seq(ListingFrames(asm))
    BY <1>3, <2>1, <2>2, AdvancedListing
  <2> QED BY <1>5, <2>3 DEF SkipMember, workspace, ListingInv
<1>6. CASE CollectMember
  <2> DEFINE info == MemberSerializationInfo(asm, TopUse)
             members == Append(Top.members, info)
  <2>1. InUse /\ TopUse.via # "argument" /\ IsIncluded(TopUse)
    BY <1>6 DEF CollectMember
  <2>2. Lists(asm, members, Top.type, Top.next + 1)
    BY <1>0, <1>3, <2>1, ListGrows
  <2>3. members \in Seq(Members)
    BY <1>0, <1>3, <2>1, MemberType, AppendProperties
  <2>4. /\ CollectCore(TopUse.type, Advanced(members)) /\ asm' = asm
        /\ UNCHANGED <<collectedObjectInfo, collectedClosedTypeGenericInfo>>
    BY <1>6 DEF CollectMember
  <2> HIDE DEF members, info
  <2>5. Advanced(members) \in Seq(ListingFrames(asm))
    BY <2>1, <2>2, <2>3, AdvancedListing
  <2>6. TopUse.type \in Types
    BY <1>3, <2>1 DEF UseRecords
  <2> QED BY <2>4, <2>5, <2>6, CollectCoreLists
<1>7. CASE FinishType
  <2> DEFINE info == ObjectSerializationInfo(asm, Top.type, Top.members)
  <2>1. stack # << >> /\ Top.next > Len(Uses(asm, Top.type))
    BY <1>7 DEF FinishType
  <2>2. Top \in ListingFrames(asm) /\ Callers \in Seq(ListingFrames(asm)) /\ Top \in Frames
    BY <2>1, TopListing, TopType
  <2>3. Lists(asm, Top.members, Top.type, Len(Uses(asm, Top.type)) + 1)
    BY <1>0, <2>1, <2>2, ListEnds DEF ListingFrames, Frames
  <2>4. info \in DescriptionsOf(asm, asm.kind[Top.type])
    <3>1. info \in ObjectInfos
      BY <2>2 DEF ObjectSerializationInfo, ObjectInfos, Frames, TypeOK, Assembly
    <3> QED BY <2>3, <3>1 DEF ObjectSerializationInfo, DescriptionsOf
  <2>5. CASE asm.kind[Top.type] = "object" /\ collectedObjectInfo' = Append(collectedObjectInfo, info)
             /\ UNCHANGED collectedClosedTypeGenericInfo
    <3>1. collectedObjectInfo' \in Seq(DescriptionsOf(asm, "object"))
      BY <2>4, <2>5, AppendProperties DEF ListingInv
    <3> QED BY <1>7, <2>2, <2>5, <3>1 DEF FinishType, ListingInv
  <2>6. CASE asm.kind[Top.type] = "generic" /\ UNCHANGED collectedObjectInfo
             /\ collectedClosedTypeGenericInfo' = Append(collectedClosedTypeGenericInfo, info)
    <3>1. collectedClosedTypeGenericInfo' \in Seq(DescriptionsOf(asm, "generic"))
      BY <2>4, <2>6, AppendProperties DEF ListingInv
    <3> QED BY <1>7, <2>2, <2>6, <3>1 DEF FinishType, ListingInv
  <2> QED BY <1>7, <2>5, <2>6 DEF FinishType, AddInfo
<1>8. CASE ReturnResult
  BY <1>8 DEF ReturnResult, workspace, ListingInv
<1>9. CASE Throw
  BY <1>9, ThrowEffect DEF ListingInv
<1>10. CASE UNCHANGED vars
  BY <1>10 DEF vars, workspace, ListingInv
<1> QED BY <1>1, <1>2, <1>4, <1>5, <1>6, <1>7, <1>8, <1>9, <1>10 DEF Next, Walk

(* Three lists that hold as many types as they have places hold none of    *)
(* them twice.                                                             *)
LEMMA NoneTwice ==
  ASSUME NEW A \in Seq(ObjectInfos), NEW E \in Seq(EnumInfos), NEW G \in Seq(ObjectInfos), NEW S,
         TypeSet(A) \cup TypeSet(E) \cup TypeSet(G) = S, IsFiniteSet(S),
         Cardinality(S) = Len(A) + Len(E) + Len(G)
  PROVE  /\ \A i, j \in DOMAIN A : A[i].type = A[j].type => i = j
         /\ \A i, j \in DOMAIN G : G[i].type = G[j].type => i = j
<1>1. PICK la, le, lg \in Nat : la = Len(A) /\ le = Len(E) /\ lg = Len(G)
  BY LenProperties
<1>2. DOMAIN A = 1..la /\ DOMAIN E = 1..le /\ DOMAIN G = 1..lg
  BY <1>1, LenProperties
<1>3. PICK n \in Nat : n = la + le + lg
  OBVIOUS
<1> DEFINE h == [k \in 1..n |-> IF k \in 1..la THEN A[k].type
                               ELSE IF k - la \in 1..le THEN E[k - la].type
                               ELSE G[k - la - le].type]
<1>4. ASSUME NEW k \in 1..n
      PROVE  \/ k \in 1..la
             \/ k - la \in 1..le /\ k \notin 1..la
             \/ k - la - le \in 1..lg /\ k \notin 1..la /\ k - la \notin 1..le
  BY <1>3
<1>5. ASSUME NEW k \in 1..n PROVE h[k] \in S
  <2>1. CASE k \in 1..la
    BY <2>1, <1>2 DEF TypeSet
  <2>2. CASE k - la \in 1..le /\ k \notin 1..la
    <3>1. h[k] = E[k - la].type
      BY <2>2
    <3> QED BY <3>1, <2>2, <1>2 DEF TypeSet
  <2>3. CASE k - la - le \in 1..lg /\ k \notin 1..la /\ k - la \notin 1..le
    <3>1. h[k] = G[k - la - le].type
      BY <2>3
    <3> QED BY <3>1, <2>3, <1>2 DEF TypeSet
  <2> QED BY <1>4, <2>1, <2>2, <2>3
<1>6. /\ \A i \in 1..la : i \in 1..n /\ h[i] = A[i].type
      /\ \A i \in 1..le : la + i \in 1..n /\ h[la + i] = E[i].type
      /\ \A i \in 1..lg : la + le + i \in 1..n /\ h[la + le + i] = G[i].type
  <2>1. ASSUME NEW i \in 1..la PROVE i \in 1..n /\ h[i] = A[i].type
    BY <1>3
  <2>2. ASSUME NEW i \in 1..le PROVE la + i \in 1..n /\ h[la + i] = E[i].type
    <3>1. la + i \in 1..n /\ la + i \notin 1..la /\ la + i - la = i
      BY <1>3
    <3> QED BY <3>1
  <2>3. ASSUME NEW i \in 1..lg PROVE la + le + i \in 1..n /\ h[la + le + i] = G[i].type
    <3>1. /\ la + le + i \in 1..n /\ la + le + i \notin 1..la
          /\ la + le + i - la \notin 1..le /\ la + le + i - la - le = i
      BY <1>3
    <3> QED BY <3>1
  <2> QED BY <2>1, <2>2, <2>3
<1>7. h \in Surjection(1..n, S)
  <2>1. ASSUME NEW t \in S PROVE \E k \in 1..n : h[k] = t
    <3> HIDE DEF h
    <3> QED BY <1>2, <1>6 DEF TypeSet
  <2>2. h \in [1..n -> S]
    BY <1>5
  <2> HIDE DEF h
  <2> QED BY <2>1, <2>2 DEF Surjection
<1>8. IsFiniteSet(1..n) /\ Cardinality(1..n) = Cardinality(S)
  <2>1. IsFiniteSet(1..n) /\ Cardinality(1..n) = IF 1 > n THEN 0 ELSE n - 1 + 1
    BY FS_Interval, 1 \in Int, n \in Int
  <2>2. Cardinality(S) = n
    BY <1>1, <1>3
  <2> QED BY <2>1, <2>2
<1> HIDE DEF h
<1>9. h \in Injection(1..n, S)
  BY <1>7, <1>8, FS_SurjSameCardinalityImpliesInj
<1>10. \A k, l \in 1..n : h[k] = h[l] => k = l
  BY <1>9 DEF Injection, IsInjective
<1>11. \A i, j \in 1..lg : la + le + i = la + le + j => i = j
  OBVIOUS
<1> QED BY <1>2, <1>6, <1>10, <1>11

(* `infos' describes each type of a kind once, by ascending name.          *)
Reports(a, known, kind, infos) ==
  /\ infos \in Seq(DescriptionsOf(a, kind))
  /\ \A t \in known : a.kind[t] = kind => \E i \in DOMAIN infos : infos[i].type = t
  /\ \A i \in DOMAIN infos : infos[i].type \in known
  /\ \A i, j \in DOMAIN infos : infos[i].type = infos[j].type => i = j
  /\ \A i, j \in DOMAIN infos : i < j => infos[i].fullName <= infos[j].fullName

(* What a Collect that has returned reports, apart from the enums.         *)
ReportInv ==
  phase = "returned" =>
    LET r == results[Len(results)] IN
    /\ Reports(asm, alreadyCollected, "object", r.CollectedObjectInfo)
    /\ Reports(asm, alreadyCollected, "generic", r.CollectedClosedTypeGenericInfo)
    /\ IsFiniteSet(alreadyCollected)
    /\ Len(r.CollectedObjectInfo) + Len(r.CollectedClosedTypeGenericInfo)
         <= Cardinality(alreadyCollected)

(* Sequences of the same descriptions describe the same types.             *)
LEMMA SameTypes ==
  ASSUME NEW s, NEW u, ElementsOf(s) = ElementsOf(u)
  PROVE  TypeSet(s) = TypeSet(u)
<1>1. ASSUME NEW i \in DOMAIN s PROVE s[i].type \in TypeSet(u)
  <2>1. s[i] \in ElementsOf(u)
    BY DEF ElementsOf
  <2>2. PICK j \in DOMAIN u : s[i] = u[j]
    BY <2>1 DEF ElementsOf
  <2> QED BY <2>2 DEF TypeSet
<1>2. ASSUME NEW i \in DOMAIN u PROVE u[i].type \in TypeSet(s)
  <2>1. u[i] \in ElementsOf(s)
    BY DEF ElementsOf
  <2>2. PICK j \in DOMAIN s : u[i] = s[j]
    BY <2>1 DEF ElementsOf
  <2> QED BY <2>2 DEF TypeSet
<1>3. TypeSet(s) \subseteq TypeSet(u) /\ TypeSet(u) \subseteq TypeSet(s)
  BY <1>1, <1>2 DEF TypeSet
<1> QED BY <1>3

LEMMA SortedReports ==
  ASSUME NEW a, NEW kind, NEW s \in Seq(DescriptionsOf(a, kind)), NEW known,
         NEW sorted, sorted = OrderByFullName(s),
         \A t \in known : a.kind[t] = kind => t \in TypeSet(s),
         TypeSet(s) \subseteq known,
         \A i, j \in DOMAIN sorted : sorted[i].type = sorted[j].type => i = j
  PROVE  Reports(a, known, kind, sorted)
<1>1. \A i \in DescriptionsOf(a, kind) : i.fullName \in Nat
  BY DEF DescriptionsOf, ObjectInfos
<1>2. /\ sorted \in Seq(DescriptionsOf(a, kind)) /\ ElementsOf(sorted) = ElementsOf(s)
      /\ IsStablySorted(sorted, s)
  BY <1>1, OrderFacts
<1>3. TypeSet(sorted) = TypeSet(s)
  BY <1>2, SameTypes
<1>4. /\ \A t \in known : a.kind[t] = kind => \E i \in DOMAIN sorted : sorted[i].type = t
      /\ \A i \in DOMAIN sorted : sorted[i].type \in known
  <2>1. \A t \in known : a.kind[t] = kind => t \in TypeSet(sorted)
    BY <1>3
  <2>2. TypeSet(sorted) \subseteq known
    BY <1>3
  <2>3. TypeSet(sorted) = {sorted[i].type : i \in DOMAIN sorted}
    BY DEF TypeSet
  <2> QED BY <2>1, <2>2, <2>3
<1>5. \A i \in DOMAIN s : s[i].fullName \in Nat
  BY <1>1, ElementOfSeq, LenProperties
<1>6. ASSUME NEW i \in DOMAIN sorted, NEW j \in DOMAIN sorted, i < j
      PROVE  sorted[i].fullName <= sorted[j].fullName
  <2>1. PICK k, l \in DOMAIN s : /\ sorted[i] = s[k] /\ sorted[j] = s[l]
                                 /\ Precedes(s, k, l)
    BY <1>2, <1>6 DEF IsStablySorted
  <2>2. PICK x, y \in Nat : x = s[k].fullName /\ y = s[l].fullName
    BY <1>5
  <2>3. x < y \/ x = y
    BY <2>1, <2>2 DEF Precedes
  <2>4. x <= y
    BY <2>3
  <2>5. sorted[i].fullName = x /\ sorted[j].fullName = y
    BY <2>1, <2>2
  <2> QED BY <2>4, <2>5
<1> QED BY <1>2, <1>4, <1>6 DEF Reports

LEMMA ReturnReports ==
  TypeOK /\ Counted /\ ListingInv /\ ResultsInv /\ ReturnResult => ReportInv'
<1> SUFFICES ASSUME TypeOK, Counted, ListingInv, ResultsInv, ReturnResult PROVE ReportInv'
  OBVIOUS
<1> DEFINE o == OrderByFullName(collectedObjectInfo)
           e == OrderByFullName(collectedEnumInfo)
           g == OrderByFullName(collectedClosedTypeGenericInfo)
<1>1. PICK r : /\ r = [CollectedObjectInfo |-> o, collectedEnumInfo |-> e,
                       CollectedClosedTypeGenericInfo |-> g]
               /\ results' = Append(results, r)
  BY DEF ReturnResult
<1>2. /\ UNCHANGED <<asm, alreadyCollected>> /\ stack = << >>
      /\ r.CollectedObjectInfo = o /\ r.CollectedClosedTypeGenericInfo = g
  BY <1>1 DEF ReturnResult, workspace
<1>3. results'[Len(results')] = r
  <2>1. results \in Seq(ReturnedResults \cup {r}) /\ r \in ReturnedResults \cup {r}
    BY SeqMonotonic DEF ResultsInv
  <2>2. Len(results') = Len(results) + 1 /\ results'[Len(results) + 1] = r
    BY <1>1, <2>1, AppendProperties, LenProperties
  <2> QED BY <2>2
<1>4. /\ collectedObjectInfo \in Seq(DescriptionsOf(asm, "object"))
      /\ collectedEnumInfo \in Seq(EnumsOf(asm))
      /\ collectedClosedTypeGenericInfo \in Seq(DescriptionsOf(asm, "generic"))
  BY DEF ListingInv
<1>5. /\ TypeSet(collectedObjectInfo) \cup TypeSet(collectedEnumInfo)
           \cup TypeSet(collectedClosedTypeGenericInfo) = alreadyCollected
      /\ IsFiniteSet(alreadyCollected)
      /\ Cardinality(alreadyCollected) = Len(collectedObjectInfo) + Len(collectedEnumInfo)
                                          + Len(collectedClosedTypeGenericInfo)
  <2>1. TypeSet(stack) = {} /\ Len(stack) = 0
    BY <1>2 DEF TypeSet
  <2>2. /\ Len(collectedObjectInfo) \in Nat /\ Len(collectedEnumInfo) \in Nat
        /\ Len(collectedClosedTypeGenericInfo) \in Nat
    BY <1>4, LenProperties
  <2>3. \A x, y, z \in Nat : x + y + z + 0 = x + y + z
    OBVIOUS
  <2>4. AllCounted
    BY DEF Counted, ReturnResult
  <2> QED BY <2>1, <2>2, <2>3, <2>4 DEF AllCounted
<1>6. /\ \A t \in TypeSet(collectedObjectInfo) : asm.kind[t] = "object"
      /\ \A t \in TypeSet(collectedEnumInfo) : asm.kind[t] = "enum"
      /\ \A t \in TypeSet(collectedClosedTypeGenericInfo) : asm.kind[t] = "generic"
  <2>1. /\ \A i \in DOMAIN collectedObjectInfo :
             collectedObjectInfo[i] \in DescriptionsOf(asm, "object")
        /\ \A i \in DOMAIN collectedEnumInfo : collectedEnumInfo[i] \in EnumsOf(asm)
        /\ \A i \in DOMAIN collectedClosedTypeGenericInfo :
             collectedClosedTypeGenericInfo[i] \in DescriptionsOf(asm, "generic")
    BY <1>4, ElementOfSeq, LenProperties
  <2> QED BY <2>1 DEF TypeSet, DescriptionsOf, EnumsOf
<1>7. /\ o \in Seq(ObjectInfos) /\ e \in Seq(EnumInfos) /\ g \in Seq(ObjectInfos)
      /\ TypeSet(o) = TypeSet(collectedObjectInfo) /\ TypeSet(e) = TypeSet(collectedEnumInfo)
      /\ TypeSet(g) = TypeSet(collectedClosedTypeGenericInfo)
      /\ Len(o) = Len(collectedObjectInfo) /\ Len(e) = Len(collectedEnumInfo)
      /\ Len(g) = Len(collectedClosedTypeGenericInfo)
  <2>1. /\ \A i \in ObjectInfos : i.fullName \in Nat
        /\ \A i \in EnumInfos : i.fullName \in Nat
    BY DEF ObjectInfos, EnumInfos
  <2>2. /\ collectedObjectInfo \in Seq(ObjectInfos) /\ collectedEnumInfo \in Seq(EnumInfos)
        /\ collectedClosedTypeGenericInfo \in Seq(ObjectInfos)
    BY DEF TypeOK
  <2>3. /\ o \in Seq(ObjectInfos) /\ ElementsOf(o) = ElementsOf(collectedObjectInfo)
        /\ IsStablySorted(o, collectedObjectInfo)
    BY <2>1, <2>2, OrderFacts
  <2>4. /\ e \in Seq(EnumInfos) /\ ElementsOf(e) = ElementsOf(collectedEnumInfo)
        /\ IsStablySorted(e, collectedEnumInfo)
    BY <2>1, <2>2, OrderFacts
  <2>5. /\ g \in Seq(ObjectInfos) /\ ElementsOf(g) = ElementsOf(collectedClosedTypeGenericInfo)
        /\ IsStablySorted(g, collectedClosedTypeGenericInfo)
    BY <2>1, <2>2, OrderFacts
  <2> HIDE DEF o, e, g
  <2>6. /\ TypeSet(o) = TypeSet(collectedObjectInfo) /\ TypeSet(e) = TypeSet(collectedEnumInfo)
        /\ TypeSet(g) = TypeSet(collectedClosedTypeGenericInfo)
    BY <2>3, <2>4, <2>5, SameTypes
  <2>7. /\ Len(o) = Len(collectedObjectInfo) /\ Len(e) = Len(collectedEnumInfo)
        /\ Len(g) = Len(collectedClosedTypeGenericInfo)
    BY <2>3, <2>4, <2>5 DEF IsStablySorted
  <2> QED BY <2>3, <2>4, <2>5, <2>6, <2>7
<1> HIDE DEF e
<1>8. /\ \A i, j \in DOMAIN o : o[i].type = o[j].type => i = j
      /\ \A i, j \in DOMAIN g : g[i].type = g[j].type => i = j
  <2>1. /\ TypeSet(o) \cup TypeSet(e) \cup TypeSet(g) = alreadyCollected
        /\ Cardinality(alreadyCollected) = Len(o) + Len(e) + Len(g)
    BY <1>5, <1>7
  <2> HIDE DEF o, g
  <2>2. IsFiniteSet(alreadyCollected) /\ o \in Seq(ObjectInfos) /\ e \in Seq(EnumInfos)
        /\ g \in Seq(ObjectInfos)
    BY <1>5, <1>7
  <2> QED BY <2>1, <2>2, NoneTwice
<1>9. Reports(asm, alreadyCollected, "object", o)
  BY <1>4, <1>5, <1>6, <1>8, SortedReports
<1>10. Reports(asm, alreadyCollected, "generic", g)
  BY <1>4, <1>5, <1>6, <1>8, SortedReports
<1>11. Len(o) + Len(g) <= Cardinality(alreadyCollected)
  <2>1. Len(o) \in Nat /\ Len(e) \in Nat /\ Len(g) \in Nat
    BY <1>7, LenProperties
  <2> QED BY <1>5, <1>7, <2>1
<1> HIDE DEF o, g
<1> QED BY <1>2, <1>3, <1>5, <1>9, <1>10, <1>11 DEF ReportInv

(* A Collect that has returned reports the types collected.                *)
LEMMA ResultsReport == Spec => []ReportInv
<1>1. Init => ReportInv /\ ListingInv /\ Counted
  <2> SUFFICES ASSUME Init PROVE ReportInv /\ ListingInv /\ Counted
    OBVIOUS
  <2>1. phase = "idle" /\ stack = << >> /\ collectedObjectInfo = << >>
        /\ collectedEnumInfo = << >> /\ collectedClosedTypeGenericInfo = << >>
        /\ alreadyCollected = {}
    BY DEF Init
  <2> QED BY <2>1, FS_EmptySet DEF ReportInv, ListingInv, Counted, AllCounted, TypeSet
<1>2. TypeOK /\ Counted /\ ListingInv /\ ResultsInv /\ ReportInv /\ [Next]_vars => ReportInv'
  <2> SUFFICES ASSUME TypeOK, Counted, ListingInv, ResultsInv, ReportInv, [Next]_vars
               PROVE  ReportInv'
    OBVIOUS
  <2>1. Collect \/ Walk => phase' = "walking"
    BY DEF Collect, Walk, CollectTarget, CollectArgument, SkipMember, CollectMember, FinishType,
           InUse
  <2>2. CASE ReturnResult
    BY <2>2, ReturnReports
  <2>3. CASE UNCHANGED vars
    BY <2>3 DEF vars, workspace, ReportInv
  <2>4. Throw => phase' = "threw"
    BY ThrowEffect
  <2> QED BY <2>1, <2>2, <2>3, <2>4 DEF Next, ReportInv
<1>3. WalkInv => WalkOver
  BY DEF WalkInv
<1> QED
  BY <1>1, <1>2, <1>3, TypeCorrect, WalkInvInit, WalkInvStep, CountedStep, ResultsInit,
     DescriptionStep, ResultsStep, ListingStep, PTL DEF Spec
=============================================================================
