------------------------- MODULE StadAnalyzerProofs -------------------------
(***************************************************************************)
(* For every collector result: the registry MakeRegistry makes is linked,  *)
(* its failures have a cause, and its recursion overflows exactly when a   *)
(* type that a model is made for is recursive.                             *)
(***************************************************************************)
EXTENDS StadAnalyzer, FiniteSetTheorems, SequenceTheorems, WellFoundedInduction, TLAPS

-----------------------------------------------------------------------------
(* Lookups.                                                                *)

\* A set of natural numbers that is not empty has a least element.
LEMMA LeastElement ==
  ASSUME NEW S, S \subseteq Nat, S # {}
  PROVE  \E i \in S : \A j \in S : i <= j
<1>1. PICK i \in S : \A j \in S : ~(<<j, i>> \in OpToRel(<, Nat))
  BY NatLessThanWellFounded, WFMin
<1>2. ASSUME NEW j \in S PROVE i <= j
  <2>1. <<j, i>> \in Nat \X Nat /\ ~(<<j, i>> \in OpToRel(<, Nat))
    BY <1>1
  <2>2. ~(j < i)
    BY <2>1 DEF OpToRel
  <2> QED BY <2>2
<1> QED BY <1>2

\* InfoIn answers an info of the name asked for, if there is one.
LEMMA InfoInFacts ==
  ASSUME NEW s \in Seq(ObjectSerializationInfo), NEW type, IsDescribedIn(s, type)
  PROVE  /\ InfoIn(s, type) \in ObjectSerializationInfo /\ InfoIn(s, type).fullName = type
         /\ \E i \in DOMAIN s : InfoIn(s, type) = s[i]
<1> DEFINE S == {i \in DOMAIN s : s[i].fullName = type}
<1>1. \E i \in S : \A j \in S : i <= j
  <2>1. S \subseteq Nat /\ S # {}
    BY DEF IsDescribedIn
  <2> HIDE DEF S
  <2> QED BY <2>1, LeastElement
<1>2. \E i \in DOMAIN s : s[i].fullName = type /\ \A j \in DOMAIN s : s[j].fullName = type => i <= j
  BY <1>1
<1> DEFINE first == CHOOSE i \in DOMAIN s :
                      s[i].fullName = type /\ \A j \in DOMAIN s : s[j].fullName = type => i <= j
<1>3. first \in DOMAIN s /\ s[first].fullName = type
  BY <1>2
<1>4. InfoIn(s, type) = s[first]
  BY DEF InfoIn, First
<1>5. s[first] \in ObjectSerializationInfo
  BY <1>3
<1> QED BY <1>3, <1>4, <1>5

\* So does GetObjectInfo, for a type that is described in either list.
LEMMA GetObjectInfoFacts ==
  ASSUME NEW r \in Results, NEW type, IsDescribed(r, type)
  PROVE  /\ GetObjectInfo(r, type) \in ObjectSerializationInfo
         /\ GetObjectInfo(r, type).fullName = type
         /\ \/ \E i \in DOMAIN r.CollectedObjectInfo :
                 GetObjectInfo(r, type) = r.CollectedObjectInfo[i]
            \/ \E i \in DOMAIN r.CollectedClosedTypeGenericInfo :
                 GetObjectInfo(r, type) = r.CollectedClosedTypeGenericInfo[i]
<1>1. /\ r.CollectedObjectInfo \in Seq(ObjectSerializationInfo)
      /\ r.CollectedClosedTypeGenericInfo \in Seq(ObjectSerializationInfo)
  BY ResultsAssumption DEF TypeCollectorResult
<1> QED BY <1>1, InfoInFacts DEF IsDescribed, GetObjectInfo

\* ModelOf answers the place of a model of the type, if there is one.
LEMMA ModelOfFacts ==
  ASSUME NEW models \in Seq(StadModels), NEW type
  PROVE  /\ HasModel(models, type) => /\ ModelOf(models, type) \in DOMAIN models
                                      /\ models[ModelOf(models, type)].type = type
         /\ ~HasModel(models, type) => ModelOf(models, type) = NoModel
         /\ ModelOf(models, type) \in Nat
<1> DEFINE S == {i \in DOMAIN models : models[i].type = type}
<1>1. CASE HasModel(models, type)
  <2>1. \E i \in S : \A j \in S : i <= j
    <3>1. S \subseteq Nat /\ S # {}
      BY <1>1 DEF HasModel
    <3> HIDE DEF S
    <3> QED BY <3>1, LeastElement
  <2>2. \E i \in DOMAIN models :
          models[i].type = type /\ \A j \in DOMAIN models : models[j].type = type => i <= j
    BY <2>1
  <2> DEFINE first == CHOOSE i \in DOMAIN models :
          models[i].type = type /\ \A j \in DOMAIN models : models[j].type = type => i <= j
  <2>3. first \in DOMAIN models /\ models[first].type = type
    BY <2>2
  <2>4. ModelOf(models, type) = first
    BY <1>1 DEF ModelOf, First
  <2> QED BY <1>1, <2>3, <2>4
<1>2. CASE ~HasModel(models, type)
  BY <1>2 DEF ModelOf, NoModel
<1> QED BY <1>1, <1>2

\* A type is described if and only if it is the name of an info.
LEMMA DescribedFacts ==
  ASSUME NEW r, NEW type
  PROVE  IsDescribed(r, type) <=> type \in Described(r)
BY DEF IsDescribed, IsDescribedIn, Described

-----------------------------------------------------------------------------
(* Recursive types.                                                        *)

\* A path of more types than a result describes meets one of them twice.
LEMMA LongPath ==
  ASSUME NEW r \in Results, NEW path \in [1..(MaxDepth + 1) -> Described(r)]
  PROVE  \E i, j \in 1..(MaxDepth + 1) : i < j /\ path[i] = path[j]
<1>1. /\ r.CollectedObjectInfo \in Seq(ObjectSerializationInfo)
      /\ r.CollectedClosedTypeGenericInfo \in Seq(ObjectSerializationInfo)
  BY ResultsAssumption DEF TypeCollectorResult
<1>2. /\ MaxDepth + 1 \in Nat
      /\ Len(r.CollectedObjectInfo) + Len(r.CollectedClosedTypeGenericInfo) < MaxDepth + 1
  <2>1. Len(r.CollectedObjectInfo) \in Nat /\ Len(r.CollectedClosedTypeGenericInfo) \in Nat
    BY <1>1
  <2>2. /\ MaxDepth \in Nat
        /\ Len(r.CollectedObjectInfo) + Len(r.CollectedClosedTypeGenericInfo) <= MaxDepth
    BY MaxDepthAssumption
  <2>3. \A x, y, m \in Nat : x + y <= m => m + 1 \in Nat /\ x + y < m + 1
    OBVIOUS
  <2> QED BY <2>1, <2>2, <2>3
<1>3. ASSUME NEW k \in 1..(MaxDepth + 1)
      PROVE  \/ IsDescribedIn(r.CollectedObjectInfo, path[k])
             \/ IsDescribedIn(r.CollectedClosedTypeGenericInfo, path[k])
  <2>1. path[k] \in Described(r)
    BY <1>3
  <2> QED BY <2>1, DescribedFacts DEF IsDescribed
<1>4. PICK a, b \in Seq(ObjectSerializationInfo), n \in Nat :
        a = r.CollectedObjectInfo /\ b = r.CollectedClosedTypeGenericInfo /\ n = MaxDepth + 1
  BY <1>1, <1>2
<1>5. Len(a) + Len(b) < n /\ path \in [1..n -> Described(r)]
  BY <1>2, <1>4
<1>6. \A k \in 1..n : IsDescribedIn(a, path[k]) \/ IsDescribedIn(b, path[k])
  BY <1>3, <1>4
<1> DEFINE IsPlace(p, type) ==
             \/ p \in 1..Len(a) /\ a[p].fullName = type
             \/ p - Len(a) \in 1..Len(b) /\ b[p - Len(a)].fullName = type
<1>7. Len(a) \in Nat /\ Len(b) \in Nat /\ DOMAIN a = 1..Len(a) /\ DOMAIN b = 1..Len(b)
  OBVIOUS
<1>8. PICK count \in Nat : count = Len(a) + Len(b)
  BY <1>7
<1>9. ASSUME NEW k \in 1..n PROVE \E p \in 1..count : IsPlace(p, path[k])
  <2>1. CASE IsDescribedIn(a, path[k])
    <3>1. PICK i \in 1..Len(a) : a[i].fullName = path[k]
      BY <2>1, <1>7 DEF IsDescribedIn
    <3>2. i \in 1..count
      BY <1>7, <1>8
    <3> QED BY <3>1, <3>2
  <2>2. CASE IsDescribedIn(b, path[k])
    <3>1. PICK i \in 1..Len(b) : b[i].fullName = path[k]
      BY <2>2, <1>7 DEF IsDescribedIn
    <3>2. Len(a) + i \in 1..count /\ (Len(a) + i) - Len(a) = i
      BY <1>7, <1>8
    <3> QED BY <3>1, <3>2
  <2> QED BY <2>1, <2>2, <1>6
<1> DEFINE place == [k \in 1..n |-> CHOOSE p \in 1..count : IsPlace(p, path[k])]
<1>10. \A k \in 1..n : place[k] \in 1..count /\ IsPlace(place[k], path[k])
  <2> HIDE DEF IsPlace
  <2> QED BY <1>9
<1>11. ASSUME NEW i \in 1..n, NEW j \in 1..n, place[i] = place[j] PROVE path[i] = path[j]
  <2> HIDE DEF place
  <2>1. IsPlace(place[i], path[i]) /\ IsPlace(place[i], path[j])
    BY <1>10, <1>11
  <2>2. place[i] \in 1..count
    BY <1>10
  <2> QED BY <2>1, <2>2, <1>7
<1>12. place \in [1..n -> 1..count]
  <2> HIDE DEF IsPlace
  <2> QED BY <1>10
<1> HIDE DEF place
<1>13. /\ IsFiniteSet(1..count) /\ IsFiniteSet(1..n)
      /\ Cardinality(1..count) < Cardinality(1..n)
  <2>1. ASSUME NEW m \in Nat PROVE IsFiniteSet(1..m) /\ Cardinality(1..m) = m
    <3>1. 1 \in Int /\ m \in Int
      OBVIOUS
    <3>2. IsFiniteSet(1..m) /\ Cardinality(1..m) = IF 1 > m THEN 0 ELSE m - 1 + 1
      BY <3>1, FS_Interval
    <3> QED BY <3>2
  <2>2. count < n
    BY <1>5, <1>8
  <2> QED BY <2>1, <2>2
<1>14. PICK i, j \in 1..n : i # j /\ place[i] = place[j]
  BY <1>12, <1>13, FS_PigeonHole
<1>15. path[i] = path[j] /\ (i < j \/ j < i)
  BY <1>11, <1>14
<1> QED BY <1>4, <1>15

\* A path along members that comes back to a type starts at a recursive one.
LEMMA PathIsRecursive ==
  ASSUME NEW r, NEW n \in Nat, NEW path \in [1..n -> Described(r)],
         \A k \in 1..n : k < n => path[k + 1] \in Mentions(r, path[k]),
         NEW i \in 1..n, NEW j \in 1..n, i < j, path[i] = path[j]
  PROVE  IsRecursive(r, path[1])
<1> DEFINE S == {path[k] : k \in 1..(j - 1)}
<1>1. S \in SUBSET Described(r) /\ path[1] \in S
  BY 1 \in 1..(j - 1)
<1>2. ASSUME NEW u \in S PROVE Mentions(r, u) \cap S # {}
  <2>1. PICK k \in 1..(j - 1) : u = path[k]
    BY <1>2
  <2>2. k \in 1..n /\ k < n
    BY <2>1
  <2>3. path[k + 1] \in Mentions(r, u)
    BY <2>1, <2>2
  <2>4. path[k + 1] \in S
    <3>1. CASE k + 1 = j
      BY <3>1
    <3>2. CASE k + 1 # j
      BY <3>2, k + 1 \in 1..(j - 1)
    <3> QED BY <3>1, <3>2
  <2> QED BY <2>3, <2>4
<1> QED BY <1>1, <1>2 DEF IsRecursive

-----------------------------------------------------------------------------
(* Types.                                                                  *)

\* What the helpers of the actions answer has its type.
LEMMA HelperTypes ==
  ASSUME TypeOK
  PROVE  /\ Infos \in Seq(ObjectSerializationInfo)
         /\ \A m \in MemberSerializationInfo : MemberDefinition(m) \in Definitions
         /\ \A a \in Seq(NeutralAttributeData) \cup {Unset} :
              AnnotationInfo(a) \in SUBSET NeutralAttributeData
<1>1. Infos \in Seq(ObjectSerializationInfo)
  BY ResultsAssumption DEF TypeOK, TypeCollectorResult, Infos
<1>2. ASSUME NEW a \in Seq(NeutralAttributeData) \cup {Unset}
      PROVE  AnnotationInfo(a) \in SUBSET NeutralAttributeData
  BY DEF AnnotationInfo
<1>3. ASSUME NEW m \in MemberSerializationInfo PROVE MemberDefinition(m) \in Definitions
  <2>1. AnnotationInfo(m.attributes) \in SUBSET NeutralAttributeData
    BY <1>2 DEF MemberSerializationInfo
  <2> HIDE DEF AnnotationInfo, NeutralAttributeData
  <2> QED BY <2>1 DEF MemberDefinition, Definitions, MemberSerializationInfo, NoModel
<1> QED BY <1>1, <1>2, <1>3

\* A function on 1..n is a sequence.
LEMMA FunctionIsSeq ==
  ASSUME NEW S, NEW n \in Nat, NEW s \in [1..n -> S]
  PROVE  s \in Seq(S) /\ Len(s) = n /\ DOMAIN s = 1..n
OBVIOUS

\* What a sequence is without its last element.
LEMMA FrontFacts ==
  ASSUME NEW S, NEW s \in Seq(S), Len(s) \in Nat \ {0}
  PROVE  /\ SubSeq(s, 1, Len(s) - 1) \in Seq(S)
         /\ Len(SubSeq(s, 1, Len(s) - 1)) = Len(s) - 1
         /\ \A f \in 1..(Len(s) - 1) : SubSeq(s, 1, Len(s) - 1)[f] = s[f]
<1>1. PICK n \in Nat : n = Len(s) - 1
  OBVIOUS
<1>2. \A i \in 1..n : s[i] \in S
  BY <1>1, ElementOfSeq
<1>3. /\ SubSeq(s, 1, n) \in Seq(S)
      /\ Len(SubSeq(s, 1, n)) = IF 1 <= n THEN n - 1 + 1 ELSE 0
      /\ \A i \in 1..n - 1 + 1 : SubSeq(s, 1, n)[i] = s[1 + i - 1]
  BY <1>2, SubSeqProperties, 1 \in Int, n \in Int
<1>4. n - 1 + 1 = n /\ (IF 1 <= n THEN n - 1 + 1 ELSE 0) = n /\ \A i \in 1..n : 1 + i - 1 = i
  OBVIOUS
<1> QED BY <1>1, <1>3, <1>4

\* A frame that has defined one more member.
LEMMA DefinedFacts ==
  ASSUME NEW frame \in Frames, NEW d \in Definitions,
         NEW new, new = [frame EXCEPT !.next = @ + 1, !.definitions = Append(@, d)]
  PROVE  /\ new \in Frames /\ new.info = frame.info /\ new.next = frame.next + 1
         /\ new.definitions = Append(frame.definitions, d)
<1> HIDE DEF Definitions, ObjectSerializationInfo
<1>1. frame.next \in Nat \ {0} /\ frame.definitions \in Seq(Definitions)
  BY DEF Frames
<1>2. frame.next + 1 \in Nat \ {0} /\ Append(frame.definitions, d) \in Seq(Definitions)
  BY <1>1
<1> QED BY <1>2 DEF Frames

\* The frame on top, and the frames below it.
LEMMA TopTypes ==
  ASSUME TypeOK, stack # << >>
  PROVE  /\ Len(stack) \in Nat \ {0} /\ Len(stack) \in DOMAIN stack
         /\ Top \in Frames /\ Top = stack[Len(stack)]
         /\ Top.next \in 1..Len(Top.info.members) + 1
         /\ Top.info \in ObjectSerializationInfo
         /\ Callers \in Seq(Frames) /\ Len(Callers) = Len(stack) - 1
         /\ \A f \in 1..(Len(stack) - 1) : Callers[f] = stack[f]
<1>1. stack \in Seq(Frames) /\ Len(stack) \in Nat \ {0}
  BY DEF TypeOK
<1>2. Len(stack) \in DOMAIN stack /\ Top \in Frames /\ Top = stack[Len(stack)]
  BY <1>1 DEF Top
<1>3. Top.next \in 1..Len(Top.info.members) + 1
  BY <1>2 DEF TypeOK
<1>4. Top.info \in ObjectSerializationInfo
  BY <1>2 DEF Frames
<1>5. /\ Callers \in Seq(Frames) /\ Len(Callers) = Len(stack) - 1
      /\ \A f \in 1..(Len(stack) - 1) : Callers[f] = stack[f]
  BY <1>1, FrontFacts DEF Callers
<1> QED BY <1>1, <1>2, <1>3, <1>4, <1>5

\* The stack once the loop of the frame on top has defined a member.
Advanced ==
  Append(Callers, [Top EXCEPT !.next = @ + 1,
                              !.definitions = Append(@, MemberDefinition(EachMember))])

\* Only the frame on top changes, by one definition.
LEMMA AdvancedFacts ==
  ASSUME TypeOK, AtEachMember
  PROVE  /\ EachMember \in MemberSerializationInfo
         /\ Advanced \in Seq(Frames) /\ Len(Advanced) = Len(stack)
         /\ \A f \in 1..(Len(stack) - 1) : Advanced[f] = stack[f]
         /\ Advanced[Len(stack)].info = Top.info
         /\ Advanced[Len(stack)].next = Top.next + 1
         /\ Top.next + 1 \in 1..Len(Top.info.members) + 1
         /\ Advanced[Len(stack)].definitions = Append(Top.definitions, MemberDefinition(EachMember))
<1> DEFINE new == [Top EXCEPT !.next = @ + 1,
                              !.definitions = Append(@, MemberDefinition(EachMember))]
<1>1. stack # << >> /\ Top.next <= Len(Top.info.members)
  BY DEF AtEachMember, InModel
<1>2. Top.info.members \in Seq(MemberSerializationInfo)
  BY <1>1, TopTypes DEF ObjectSerializationInfo
<1>3. EachMember \in MemberSerializationInfo
  BY <1>1, <1>2, TopTypes DEF EachMember
<1>4. MemberDefinition(EachMember) \in Definitions
  BY <1>3, HelperTypes
<1>5. /\ new \in Frames /\ new.info = Top.info /\ new.next = Top.next + 1
      /\ new.definitions = Append(Top.definitions, MemberDefinition(EachMember))
  BY <1>1, <1>4, TopTypes, DefinedFacts
<1>6. Advanced = Append(Callers, new)
  BY DEF Advanced
<1> HIDE DEF new
<1>7. /\ Callers \in Seq(Frames) /\ Len(Callers) = Len(stack) - 1 /\ Len(stack) \in Nat \ {0}
      /\ \A f \in 1..(Len(stack) - 1) : Callers[f] = stack[f]
  BY <1>1, TopTypes
<1>8. /\ Advanced \in Seq(Frames) /\ Len(Advanced) = Len(stack) /\ Advanced[Len(stack)] = new
      /\ \A f \in 1..(Len(stack) - 1) : Advanced[f] = stack[f]
  BY <1>5, <1>6, <1>7
<1>9. Top.next + 1 \in 1..Len(Top.info.members) + 1
  BY <1>1, <1>2, TopTypes
<1> QED BY <1>3, <1>5, <1>8, <1>9

\* A frame is opened for an info.
NewFrame(info) == [info |-> info, next |-> 1, definitions |-> << >>]

\* What is pushed, and what MakeStadModel leaves when it overflows.
LEMMA PushFacts ==
  ASSUME NEW s \in Seq(Frames), NEW info \in ObjectSerializationInfo
  PROVE  /\ Append(s, NewFrame(info)) \in Seq(Frames)
         /\ Len(Append(s, NewFrame(info))) = Len(s) + 1 /\ Len(s) \in Nat
         /\ \A f \in 1..Len(s) : Append(s, NewFrame(info))[f] = s[f]
         /\ Append(s, NewFrame(info))[Len(s) + 1] = NewFrame(info)
<1>1. NewFrame(info) \in Frames
  <2>1. << >> \in Seq(Definitions)
    OBVIOUS
  <2> QED BY <2>1 DEF NewFrame, Frames
<1> HIDE DEF Frames, ObjectSerializationInfo
<1> QED BY <1>1

\* The loop over members is inside the loop over infos.
InLoop == (stack # << >> => member > 0) /\ (member > 0 => at <= Len(Infos))
ITypes == TypeOK /\ InLoop

\* Initially nothing is made.
LEMMA TypeInit == Init => ITypes
<1> SUFFICES ASSUME Init PROVE ITypes
  OBVIOUS
<1>1. Len(Infos) \in Nat
  BY ResultsAssumption DEF Init, TypeCollectorResult, Infos
<1> QED BY <1>1 DEF Init, ITypes, InLoop, TypeOK

\* MakeStadModel keeps a stack of frames.
LEMMA MakeStadModelTypes ==
  ASSUME TypeOK, NEW s \in Seq(Frames), NEW info \in ObjectSerializationInfo,
         \A f \in DOMAIN s : s[f].next \in 1..Len(s[f].info.members) + 1,
         status = "running", MakeStadModel(info, s)
  PROVE  /\ status' \in {"running", "overflowed"}
         /\ stack' \in Seq(Frames)
         /\ \A f \in DOMAIN stack' : stack'[f].next \in 1..Len(stack'[f].info.members) + 1
<1>1. CASE Len(s) < MaxDepth
  <2>1. stack' = Append(s, NewFrame(info)) /\ status' = status
    BY <1>1 DEF MakeStadModel, NewFrame
  <2>2. stack' \in Seq(Frames) /\ Len(stack') = Len(s) + 1 /\ Len(s) \in Nat
    BY <2>1, PushFacts
  <2>3. info.members \in Seq(MemberSerializationInfo)
    BY DEF ObjectSerializationInfo
  <2>4. ASSUME NEW f \in 1..Len(stack')
        PROVE  stack'[f].next \in 1..Len(stack'[f].info.members) + 1
    <3>1. CASE f <= Len(s)
      <4>1. stack'[f] = s[f] /\ f \in DOMAIN s
        BY <2>1, <2>2, <3>1, PushFacts
      <4> QED BY <4>1
    <3>2. CASE f = Len(s) + 1
      <4>1. stack'[f].next = 1 /\ stack'[f].info = info
        BY <2>1, <2>2, <3>2, PushFacts DEF NewFrame
      <4>2. 1 \in 1..Len(info.members) + 1
        BY <2>3
      <4> QED BY <4>1, <4>2
    <3> QED BY <2>2, <3>1, <3>2
  <2>5. DOMAIN stack' = 1..Len(stack')
    BY <2>2
  <2> QED BY <2>1, <2>2, <2>4, <2>5
<1>2. CASE ~(Len(s) < MaxDepth)
  <2>1. status' = "overflowed" /\ stack' = stack
    BY <1>2 DEF MakeStadModel
  <2> QED BY <2>1 DEF TypeOK
<1> QED BY <1>1, <1>2

\* One turn of the loop leaves every frame inside its loop.
LEMMA AdvancedTypes ==
  ASSUME TypeOK, AtEachMember
  PROVE  \A f \in DOMAIN Advanced : Advanced[f].next \in 1..Len(Advanced[f].info.members) + 1
<1>1. stack # << >>
  BY DEF AtEachMember, InModel
<1>2. /\ stack \in Seq(Frames) /\ DOMAIN stack = 1..Len(stack) /\ Len(stack) \in Nat \ {0}
      /\ DOMAIN Advanced = 1..Len(stack)
  BY <1>1, AdvancedFacts, TopTypes DEF TypeOK
<1>3. ASSUME NEW f \in 1..Len(stack)
      PROVE  Advanced[f].next \in 1..Len(Advanced[f].info.members) + 1
  <2>1. CASE f = Len(stack)
    BY <2>1, AdvancedFacts
  <2>2. CASE f # Len(stack)
    <3>1. f \in 1..(Len(stack) - 1)
      <4>1. \A n \in Nat : \A k \in 1..n : k # n => k \in 1..(n - 1)
        OBVIOUS
      <4>2. Len(stack) \in Nat
        BY <1>2
      <4> QED BY <2>2, <4>1, <4>2
    <3>2. Advanced[f] = stack[f]
      BY <3>1, AdvancedFacts
    <3> QED BY <3>2, <1>2 DEF TypeOK
  <2> QED BY <2>1, <2>2
<1> QED BY <1>2, <1>3

\* Linking changes what a definition's model is, and nothing else.
LEMMA LinkedTypes ==
  ASSUME NEW models \in Seq(StadModels), NEW m \in StadModels
  PROVE  /\ Linked(models, m) \in StadModels
         /\ Linked(models, m).type = m.type
         /\ DOMAIN Linked(models, m).members = DOMAIN m.members
         /\ \A j \in DOMAIN m.members :
              /\ Linked(models, m).members[j].type = m.members[j].type
              /\ Linked(models, m).members[j].model = ModelOf(models, m.members[j].type)
<1> DEFINE members == [j \in DOMAIN m.members |->
             [m.members[j] EXCEPT !.model = ModelOf(models, m.members[j].type)]]
<1>1. m.members \in Seq(Definitions)
  BY DEF StadModels
<1>2. ASSUME NEW j \in DOMAIN m.members
      PROVE  /\ members[j] \in Definitions
             /\ members[j].type = m.members[j].type
             /\ members[j].model = ModelOf(models, m.members[j].type)
  <2>1. m.members[j] \in Definitions
    BY <1>1
  <2>2. ModelOf(models, m.members[j].type) \in Nat
    BY ModelOfFacts
  <2> HIDE DEF NeutralAttributeData
  <2> QED BY <2>1, <2>2 DEF Definitions
<1>3. members \in Seq(Definitions) /\ DOMAIN members = DOMAIN m.members
  <2>1. DOMAIN m.members = 1..Len(m.members) /\ Len(m.members) \in Nat
    BY <1>1
  <2> HIDE DEF Definitions
  <2>2. members \in [1..Len(m.members) -> Definitions]
    BY <2>1, <1>2
  <2> HIDE DEF members
  <2> QED BY <2>1, <2>2, FunctionIsSeq
<1>4. Linked(models, m) = [m EXCEPT !.members = members]
  BY DEF Linked
<1> HIDE DEF members, Definitions
<1>5. [m EXCEPT !.members = members] \in StadModels
  BY <1>3 DEF StadModels
<1>6. Linked(models, m).type = m.type /\ Linked(models, m).members = members
  BY <1>4 DEF StadModels
<1> QED BY <1>2, <1>3, <1>4, <1>5, <1>6

\* Every step keeps the loops nested.
LEMMA InLoopNext == TypeOK /\ InLoop /\ [Next]_vars => InLoop'
<1> SUFFICES ASSUME TypeOK, InLoop, [Next]_vars PROVE InLoop'
  OBVIOUS
<1>0. at \in Nat /\ member \in Nat /\ Len(Infos) \in Nat
  <2>1. Len(Infos) \in Nat
    BY HelperTypes
  <2> QED BY <2>1 DEF TypeOK
<1>1. CASE SkipInfo \/ EnterDataSet
  BY <1>0, <1>1 DEF SkipInfo, EnterDataSet, AtInfo, InLoop, Infos
<1>2. CASE MemberNotFound \/ MemberNotHandled \/ TypeNotHandled \/ ReturnRegistry \/ UNCHANGED vars
  BY <1>2 DEF MemberNotFound, MemberNotHandled, TypeNotHandled, ReturnRegistry, Throw, loops, vars,
              InLoop, Infos
<1>3. CASE IgnoreMember \/ MakeMemberModel
  BY <1>0, <1>3 DEF IgnoreMember, MakeMemberModel, AtMember, InDataSet, InLoop, Infos
<1>4. CASE DefineMember
  BY <1>4 DEF DefineMember, AtEachMember, InModel, InLoop, Infos
<1>5. CASE FinishModel
  <2>1. stack # << >> /\ member > 0 /\ at <= Len(Infos)
    BY <1>5 DEF FinishModel, InModel, InLoop
  <2>2. member' > 0 /\ at' = at /\ Infos' = Infos
    BY <1>0, <1>5, <2>1 DEF FinishModel, Infos
  <2> QED BY <2>1, <2>2 DEF InLoop
<1>6. CASE LinkDataSet
  BY <1>6 DEF LinkDataSet, InDataSet, InLoop
<1> QED BY <1>1, <1>2, <1>3, <1>4, <1>5, <1>6 DEF Next

\* Every step keeps the types.
LEMMA TypeNext == ITypes /\ [Next]_vars => ITypes'
<1> SUFFICES ASSUME TypeOK, InLoop, [Next]_vars PROVE TypeOK'
  BY InLoopNext DEF ITypes
<1>0. Infos \in Seq(ObjectSerializationInfo) /\ Len(Infos) \in Nat
  BY HelperTypes
<1>1. CASE SkipInfo \/ EnterDataSet
  <2>1. at \in 1..Len(Infos) /\ Infos' = Infos /\ << >> \in Seq(DOMAIN AllModels)
    BY <1>1, <1>0 DEF SkipInfo, EnterDataSet, AtInfo, TypeOK, Infos
  <2>2. at' \in 1..Len(Infos) + 1 /\ member' \in Nat
    BY <1>1, <1>0, <2>1 DEF SkipInfo, EnterDataSet, TypeOK
  <2> QED BY <1>1, <2>1, <2>2 DEF SkipInfo, EnterDataSet, TypeOK
<1>2. CASE MemberNotFound \/ MemberNotHandled \/ TypeNotHandled \/ ReturnRegistry
  BY <1>2 DEF MemberNotFound, MemberNotHandled, TypeNotHandled, ReturnRegistry, Throw, loops,
              TypeOK, Infos
<1>3. CASE IgnoreMember
  BY <1>3 DEF IgnoreMember, TypeOK, Infos
<1>4. CASE MakeMemberModel
  <2>1. /\ status' \in {"running", "overflowed"}
        /\ stack' \in Seq(Frames)
        /\ \A f \in DOMAIN stack' : stack'[f].next \in 1..Len(stack'[f].info.members) + 1
    <3>1. GetObjectInfo(result, MemberType) \in ObjectSerializationInfo
      BY <1>4, GetObjectInfoFacts DEF MakeMemberModel, TypeOK
    <3>2. status = "running" /\ MakeStadModel(GetObjectInfo(result, MemberType), << >>)
      BY <1>4 DEF MakeMemberModel, AtMember, InDataSet, Running
    <3>3. << >> \in Seq(Frames) /\ DOMAIN << >> = {}
      OBVIOUS
    <3> QED BY <3>1, <3>2, <3>3, MakeStadModelTypes
  <2> QED BY <1>4, <2>1 DEF MakeMemberModel, TypeOK, Infos
<1>5. CASE DefineMember
  <2>1. /\ status' \in {"running", "overflowed"}
        /\ stack' \in Seq(Frames)
        /\ \A f \in DOMAIN stack' : stack'[f].next \in 1..Len(stack'[f].info.members) + 1
    <3>1. AtEachMember /\ status = "running"
      BY <1>5 DEF DefineMember, AtEachMember, InModel, Running
    <3>2. /\ Advanced \in Seq(Frames)
          /\ \A f \in DOMAIN Advanced : Advanced[f].next \in 1..Len(Advanced[f].info.members) + 1
      BY <3>1, AdvancedFacts, AdvancedTypes
    <3>3. \/ IsDescribed(result, EachMember.type) /\ MakeStadModel(GetObjectInfo(result, EachMember.type), Advanced)
          \/ stack' = Advanced /\ status' = status
      BY <1>5 DEF DefineMember, Advanced
    <3>4. CASE stack' = Advanced /\ status' = status
      BY <3>1, <3>2, <3>4
    <3>5. CASE IsDescribed(result, EachMember.type) /\ MakeStadModel(GetObjectInfo(result, EachMember.type), Advanced)
      <4>1. GetObjectInfo(result, EachMember.type) \in ObjectSerializationInfo
        BY <3>5, GetObjectInfoFacts DEF TypeOK
      <4> QED BY <3>1, <3>2, <3>5, <4>1, MakeStadModelTypes
    <3> QED BY <3>3, <3>4, <3>5
  <2> QED BY <1>5, <2>1 DEF DefineMember, TypeOK, Infos
<1>6. CASE FinishModel
  <2>1. stack # << >>
    BY <1>6 DEF FinishModel, InModel
  <2> DEFINE model == [type |-> Top.info.fullName, annotations |-> AnnotationInfo(Top.info.attributes),
                       members |-> Top.definitions]
  <2>2. model \in StadModels
    <3>1. Top.info.attributes \in Seq(NeutralAttributeData) /\ Top.info.fullName \in Nat
      BY <2>1, TopTypes DEF ObjectSerializationInfo
    <3>2. Top.definitions \in Seq(Definitions)
      BY <2>1, TopTypes DEF Frames
    <3>3. AnnotationInfo(Top.info.attributes) \in SUBSET NeutralAttributeData
      BY <3>1, HelperTypes
    <3> HIDE DEF AnnotationInfo, NeutralAttributeData, Definitions
    <3> QED BY <3>1, <3>2, <3>3 DEF StadModels
  <2>3. AllModels' = Append(AllModels, model) /\ stack' = Callers
    BY <1>6 DEF FinishModel
  <2> HIDE DEF model
  <2>4. /\ AllModels' \in Seq(StadModels) /\ Len(AllModels') \in DOMAIN AllModels'
        /\ DOMAIN AllModels \subseteq DOMAIN AllModels'
    BY <2>2, <2>3 DEF TypeOK
  <2>5. /\ stack' \in Seq(Frames)
        /\ \A f \in DOMAIN stack' : stack'[f].next \in 1..Len(stack'[f].info.members) + 1
    <3>1. /\ Callers \in Seq(Frames) /\ DOMAIN Callers = 1..(Len(stack) - 1)
          /\ \A f \in 1..(Len(stack) - 1) : Callers[f] = stack[f] /\ f \in DOMAIN stack
      BY <2>1, TopTypes DEF TypeOK
    <3> QED BY <2>3, <3>1 DEF TypeOK
  <2>6. listModels' \in Seq(DOMAIN AllModels') /\ singleModels' \in Seq(DOMAIN AllModels')
    <3>1. PICK D : D = DOMAIN AllModels'
      OBVIOUS
    <3>2. listModels \in Seq(D) /\ singleModels \in Seq(D)
      BY <3>1, <2>4 DEF TypeOK
    <3>3. Append(listModels, Len(AllModels')) \in Seq(D) /\ Append(singleModels, Len(AllModels')) \in Seq(D)
      BY <3>1, <3>2, <2>4
    <3>4. listModels' \in Seq(D) /\ singleModels' \in Seq(D)
      BY <1>6, <3>2, <3>3 DEF FinishModel
    <3> QED BY <3>1, <3>4
  <2>7. member' \in Nat /\ at' = at /\ result' = result /\ status' = status
    BY <1>6 DEF FinishModel, TypeOK
  <2> QED BY <2>4, <2>5, <2>6, <2>7 DEF TypeOK, Infos
<1>7. CASE LinkDataSet
  <2>1. AllModels' \in Seq(StadModels) /\ DOMAIN AllModels' = DOMAIN AllModels
    <3>1. ASSUME NEW i \in DOMAIN AllModels PROVE Linked(AllModels, AllModels[i]) \in StadModels
      BY LinkedTypes DEF TypeOK
    <3>2. AllModels' = [i \in DOMAIN AllModels |-> Linked(AllModels, AllModels[i])]
      BY <1>7 DEF LinkDataSet
    <3>3. AllModels \in Seq(StadModels) /\ DOMAIN AllModels = 1..Len(AllModels) /\ Len(AllModels) \in Nat
      BY DEF TypeOK
    <3> HIDE DEF StadModels, Linked
    <3>4. AllModels' \in [1..Len(AllModels) -> StadModels]
      BY <3>1, <3>2, <3>3
    <3> QED BY <3>3, <3>4, FunctionIsSeq
  <2>2. at' \in 1..Len(Infos) + 1
    BY <1>7, <1>0 DEF LinkDataSet, InDataSet, InLoop, TypeOK
  <2> QED BY <1>7, <2>1, <2>2 DEF LinkDataSet, TypeOK, Infos
<1>8. CASE UNCHANGED vars
  BY <1>8 DEF vars, loops, TypeOK, Infos
<1> QED BY <1>1, <1>2, <1>3, <1>4, <1>5, <1>6, <1>7, <1>8 DEF Next

\* For every collector result, the state of the analysis has its types.
THEOREM TypeCorrect == Spec => []TypeOK
<1>1. ITypes => TypeOK
  BY DEF ITypes
<1> QED BY <1>1, TypeInit, TypeNext, PTL DEF Spec

-----------------------------------------------------------------------------
(* The invariant.                                                          *)

\* The type of the member a frame has come to last.
LastType(frame) == frame.info.members[frame.next - 1].type

\* A frame is the description of a type that is reached, and has definitions of
\* the members it has passed, none of which carries an attribute not handled.
FrameInv(r, s) ==
  \A f \in DOMAIN s :
    /\ IsDescribed(r, s[f].info.fullName)
    /\ s[f].info.fullName \in ReachedTypes(r)
    /\ s[f].info = GetObjectInfo(r, s[f].info.fullName)
    /\ Len(s[f].definitions) = s[f].next - 1
    /\ \A j \in 1..(s[f].next - 1) :
         /\ s[f].definitions[j].type = s[f].info.members[j].type
         /\ ~IsNotHandled(s[f].info.members[j].attributes)

\* A frame was opened for the type of the member the frame below has come to.
OpenedInv(s) ==
  \A f \in DOMAIN s : f + 1 \in DOMAIN s =>
    s[f].next > 1 /\ s[f + 1].info.fullName = LastType(s[f])

\* The members a frame has passed have models, if their types are described;
\* the type of the last one has, unless a frame is open for it.
PassedInv(r, models, s) ==
  \A f \in DOMAIN s : \A j \in 1..(s[f].next - 1) :
    IsDescribed(r, s[f].info.members[j].type) =>
      \/ HasModel(models, s[f].info.members[j].type)
      \/ j = s[f].next - 1 /\ f + 1 \in DOMAIN s

\* A model defines the members of its type.
DefinesMembers(r, m) ==
  LET members == GetObjectInfo(r, m.type).members IN
  /\ DOMAIN m.members = DOMAIN members
  /\ \A j \in DOMAIN members : m.members[j].type = members[j].type

\* A model is of a described type, whose attributes are handled and whose
\* members have models; and because all of these were made before it, the type
\* is not recursive.
IsModel(r, models, m) ==
  /\ IsDescribed(r, m.type)
  /\ ~HasUnhandled(GetObjectInfo(r, m.type))
  /\ \A u \in Mentions(r, m.type) : HasModel(models, u)
  /\ ~IsRecursive(r, m.type)
  /\ DefinesMembers(r, m)
  /\ \A j \in DOMAIN m.members :
       IsDescribed(r, m.members[j].type) => HasModel(models, m.members[j].type)
ModelInv(r, models) == \A i \in DOMAIN models : IsModel(r, models, models[i])

\* A member of a data set that the loop has passed is described, and has a model
\* unless it is to be ignored.
IsTaken(r, models, type) ==
  IsDescribed(r, type) /\ (~IsIgnored(r, type) => HasModel(models, type))
TakenInv(r, models, a, k) ==
  \A d \in DataSetInfos(r) : \A i \in DOMAIN MembersIn(r, d) :
    d < a \/ (d = a /\ i < k) => IsTaken(r, models, MembersIn(r, d)[i].type)

\* The loop over members is in a data set; the outermost frame is for its member.
LoopInv(r, s, a, k) ==
  /\ k > 0 => a \in DataSetInfos(r) /\ k <= Len(MembersIn(r, a)) + 1
  /\ s # << >> =>
       /\ k > 0 /\ k <= Len(MembersIn(r, a))
       /\ s[1].info.fullName = MembersIn(r, a)[k].type
       /\ MembersIn(r, a)[k].type \in ModelledTypes(r)

StackInv == FrameInv(result, stack) /\ OpenedInv(stack) /\ PassedInv(result, AllModels, stack)
AnalysisInv ==
  /\ ITypes
  /\ StackInv
  /\ ModelInv(result, AllModels)
  /\ TakenInv(result, AllModels, at, member)
  /\ LoopInv(result, stack, at, member)

\* What is modelled is reached, and so are its members.
LEMMA ReachedFacts ==
  ASSUME NEW r
  PROVE  /\ ModelledTypes(r) \subseteq ReachedTypes(r)
         /\ \A t \in ReachedTypes(r) : Mentions(r, t) \subseteq ReachedTypes(r)
<1>1. ModelledTypes(r) \subseteq Described(r)
  BY DescribedFacts DEF ModelledTypes
<1>2. \A t : Mentions(r, t) \subseteq Described(r)
  BY DEF Mentions
<1>3. ModelledTypes(r) \subseteq ReachedTypes(r)
  BY <1>1 DEF ReachedTypes
<1>4. ASSUME NEW t \in ReachedTypes(r), NEW u \in Mentions(r, t) PROVE u \in ReachedTypes(r)
  <2>1. u \in Described(r)
    BY <1>2, <1>4
  <2>2. ASSUME NEW S \in SUBSET Described(r), ModelledTypes(r) \subseteq S,
               \A v \in S : Mentions(r, v) \subseteq S
        PROVE  u \in S
    <3>1. t \in S
      BY <2>2 DEF ReachedTypes
    <3> QED BY <3>1, <2>2, <1>4
  <2> QED BY <2>1, <2>2 DEF ReachedTypes
<1> QED BY <1>3, <1>4

\* Adding a model leaves the others.
LEMMA MoreModels ==
  ASSUME NEW models \in Seq(StadModels), NEW m
  PROVE  /\ \A t : HasModel(models, t) => HasModel(Append(models, m), t)
         /\ HasModel(Append(models, m), m.type)
         /\ DOMAIN Append(models, m) = 1..(Len(models) + 1) /\ Len(models) \in Nat
         /\ DOMAIN models = 1..Len(models)
         /\ Append(models, m)[Len(models) + 1] = m
         /\ \A i \in 1..Len(models) : Append(models, m)[i] = models[i]
<1> HIDE DEF StadModels
<1>1. /\ DOMAIN Append(models, m) = 1..(Len(models) + 1) /\ Len(models) \in Nat
      /\ DOMAIN models = 1..Len(models)
      /\ Append(models, m)[Len(models) + 1] = m
      /\ \A i \in 1..Len(models) : Append(models, m)[i] = models[i]
  OBVIOUS
<1>2. \A t : HasModel(models, t) => HasModel(Append(models, m), t)
  BY <1>1 DEF HasModel
<1>3. HasModel(Append(models, m), m.type)
  BY <1>1 DEF HasModel
<1> QED BY <1>1, <1>2, <1>3

\* A model added keeps what is known of models.
LEMMA ModelAdded ==
  ASSUME NEW r, NEW models \in Seq(StadModels), NEW m,
         ModelInv(r, models), IsModel(r, models, m)
  PROVE  ModelInv(r, Append(models, m))
<1> DEFINE new == Append(models, m)
<1>1. \A t : HasModel(models, t) => HasModel(new, t)
  BY MoreModels
<1>2. \A x : IsModel(r, models, x) => IsModel(r, new, x)
  BY <1>1 DEF IsModel
<1>3. DOMAIN new = 1..(Len(models) + 1) /\ DOMAIN models = 1..Len(models) /\ Len(models) \in Nat
  BY MoreModels
<1>4. \A i \in 1..(Len(models) + 1) : i \in 1..Len(models) \/ i = Len(models) + 1
  BY <1>3
<1>5. new[Len(models) + 1] = m /\ \A i \in 1..Len(models) : new[i] = models[i]
  BY MoreModels
<1> HIDE DEF new
<1>6. \A i \in DOMAIN new : IsModel(r, models, new[i])
  BY <1>3, <1>4, <1>5 DEF ModelInv
<1> QED BY <1>2, <1>6 DEF ModelInv, new

\* PassedInv, but for the last member of every frame.
PassedBefore(r, models, s) ==
  \A f \in DOMAIN s : \A j \in 1..(s[f].next - 1) :
    IsDescribed(r, s[f].info.members[j].type) =>
      HasModel(models, s[f].info.members[j].type) \/ j = s[f].next - 1

\* MakeStadModel is called for the member that the last frame has come to.
LEMMA PushKeeps ==
  ASSUME NEW r \in Results, NEW models, NEW s \in Seq(Frames), NEW type,
         FrameInv(r, s), OpenedInv(s), PassedBefore(r, models, s),
         IsDescribed(r, type), type \in ReachedTypes(r),
         Len(s) > 0 => s[Len(s)].next > 1 /\ type = LastType(s[Len(s)]),
         NEW new, new = Append(s, NewFrame(GetObjectInfo(r, type)))
  PROVE  FrameInv(r, new) /\ OpenedInv(new) /\ PassedInv(r, models, new)
<1>0. PICK info \in ObjectSerializationInfo, n \in Nat :
        info = GetObjectInfo(r, type) /\ info.fullName = type /\ n = Len(s)
  BY GetObjectInfoFacts
<1>1. new = Append(s, NewFrame(info)) /\ info = GetObjectInfo(r, type) /\ info.fullName = type
  BY <1>0
<1>2. /\ n \in Nat /\ DOMAIN s = 1..n /\ DOMAIN new = 1..(n + 1)
      /\ \A f \in 1..n : new[f] = s[f]
      /\ new[n + 1] = NewFrame(info)
  <2> HIDE DEF Frames, NewFrame
  <2>1. new \in Seq(Frames) /\ Len(new) = n + 1
    BY <1>0, <1>1, PushFacts
  <2>2. DOMAIN s = 1..n /\ DOMAIN new = 1..(n + 1)
    BY <1>0, <2>1
  <2>3. \A f \in 1..n : new[f] = s[f]
    BY <1>0, <1>1, PushFacts
  <2>4. new[n + 1] = NewFrame(info)
    BY <1>0, <1>1, PushFacts
  <2> QED BY <2>2, <2>3, <2>4
<1>3. /\ new[n + 1].info = info /\ new[n + 1].next = 1 /\ new[n + 1].definitions = << >>
      /\ 1..(new[n + 1].next - 1) = {}
  BY <1>2 DEF NewFrame
<1>4. \A f \in DOMAIN new : f \in 1..n \/ f = n + 1
  BY <1>2
<1>5. FrameInv(r, new)
  <2>1. ASSUME NEW f \in 1..n
        PROVE  /\ IsDescribed(r, new[f].info.fullName)
               /\ new[f].info.fullName \in ReachedTypes(r)
               /\ new[f].info = GetObjectInfo(r, new[f].info.fullName)
               /\ Len(new[f].definitions) = new[f].next - 1
               /\ \A j \in 1..(new[f].next - 1) :
                    /\ new[f].definitions[j].type = new[f].info.members[j].type
                    /\ ~IsNotHandled(new[f].info.members[j].attributes)
    BY <1>2 DEF FrameInv
  <2>2. /\ IsDescribed(r, new[n + 1].info.fullName)
        /\ new[n + 1].info.fullName \in ReachedTypes(r)
        /\ new[n + 1].info = GetObjectInfo(r, new[n + 1].info.fullName)
        /\ Len(new[n + 1].definitions) = new[n + 1].next - 1
    <3>1. new[n + 1].info = info /\ new[n + 1].info.fullName = type
      BY <1>1, <1>3
    <3>2. Len(new[n + 1].definitions) = new[n + 1].next - 1
      BY <1>3, Len(<< >>) = 0
    <3>3. /\ IsDescribed(r, new[n + 1].info.fullName)
          /\ new[n + 1].info.fullName \in ReachedTypes(r)
      BY <3>1
    <3>4. new[n + 1].info = GetObjectInfo(r, new[n + 1].info.fullName)
      BY <1>1, <3>1
    <3> QED BY <3>2, <3>3, <3>4
  <2> QED BY <1>3, <1>4, <2>1, <2>2 DEF FrameInv
<1>6. OpenedInv(new)
  <2> SUFFICES ASSUME NEW f \in DOMAIN new, f + 1 \in DOMAIN new
               PROVE  new[f].next > 1 /\ new[f + 1].info.fullName = LastType(new[f])
    BY DEF OpenedInv
  <2>1. f \in 1..n /\ new[f] = s[f]
    BY <1>2
  <2>2. CASE f = n
    BY <2>1, <2>2, <1>0, <1>2, <1>3
  <2>3. CASE f # n
    <3>1. f \in DOMAIN s /\ f + 1 \in DOMAIN s /\ new[f + 1] = s[f + 1]
      BY <2>1, <2>3, <1>2
    <3> QED BY <2>1, <3>1 DEF OpenedInv
  <2> QED BY <2>2, <2>3
<1>7. PassedInv(r, models, new)
  <2> SUFFICES ASSUME NEW f \in DOMAIN new, NEW j \in 1..(new[f].next - 1),
                      IsDescribed(r, new[f].info.members[j].type)
               PROVE  \/ HasModel(models, new[f].info.members[j].type)
                      \/ j = new[f].next - 1 /\ f + 1 \in DOMAIN new
    BY DEF PassedInv
  <2>1. f \in 1..n /\ new[f] = s[f]
    BY <1>2, <1>3, <1>4
  <2>2. f + 1 \in DOMAIN new
    BY <1>2, <2>1
  <2> QED BY <1>2, <2>1, <2>2 DEF PassedBefore
<1> QED BY <1>5, <1>6, <1>7

\* One turn of the loop keeps what is known of frames.
LEMMA AdvanceKeeps ==
  ASSUME TypeOK, StackInv, AtEachMember, ~IsNotHandled(EachMember.attributes)
  PROVE  /\ FrameInv(result, Advanced) /\ OpenedInv(Advanced)
         /\ PassedBefore(result, AllModels, Advanced)
         /\ HasModel(AllModels, EachMember.type) \/ ~IsDescribed(result, EachMember.type)
              => PassedInv(result, AllModels, Advanced)
         /\ Advanced[Len(Advanced)].next > 1 /\ LastType(Advanced[Len(Advanced)]) = EachMember.type
         /\ Len(Advanced) > 0 /\ Advanced # << >> /\ Advanced[1].info = stack[1].info
         /\ EachMember.type \in Described(result) => EachMember.type \in ReachedTypes(result)
<1> DEFINE n == Len(stack)
           top == Advanced[n]
<1>1. stack # << >> /\ EachMember = Top.info.members[Top.next] /\ Top.next <= Len(Top.info.members)
  BY DEF AtEachMember, InModel, EachMember
<1>2. /\ n \in Nat \ {0} /\ DOMAIN stack = 1..n /\ n \in DOMAIN stack /\ Top = stack[n]
      /\ Top.next \in Nat \ {0} /\ Top \in Frames
  <2>1. stack \in Seq(Frames)
    BY DEF TypeOK
  <2>2. n \in Nat \ {0} /\ n \in DOMAIN stack /\ Top = stack[n] /\ Top \in Frames
    BY <1>1, TopTypes
  <2> QED BY <2>1, <2>2 DEF Frames
<1>3. /\ DOMAIN Advanced = 1..n /\ Len(Advanced) = n /\ \A f \in 1..(n - 1) : Advanced[f] = stack[f]
      /\ top.info = Top.info /\ top.next = Top.next + 1
      /\ top.definitions = Append(Top.definitions, MemberDefinition(EachMember))
  <2>1. Advanced \in Seq(Frames) /\ Len(Advanced) = n
    BY AdvancedFacts
  <2> QED BY <2>1, AdvancedFacts
<1>4. FrameInv(result, stack) /\ OpenedInv(stack) /\ PassedInv(result, AllModels, stack)
  BY DEF StackInv
<1>5. /\ Top.definitions \in Seq(Definitions) /\ Len(Top.definitions) = Top.next - 1
      /\ IsDescribed(result, Top.info.fullName) /\ Top.info.fullName \in ReachedTypes(result)
      /\ Top.info = GetObjectInfo(result, Top.info.fullName)
      /\ \A j \in 1..(Top.next - 1) :
           /\ Top.definitions[j].type = Top.info.members[j].type
           /\ ~IsNotHandled(Top.info.members[j].attributes)
  BY <1>2, <1>4 DEF FrameInv, Frames
<1>6. /\ Len(top.definitions) = top.next - 1
      /\ \A j \in 1..(top.next - 1) :
           /\ top.definitions[j].type = top.info.members[j].type
           /\ ~IsNotHandled(top.info.members[j].attributes)
  <2>1. MemberDefinition(EachMember).type = EachMember.type
    BY DEF MemberDefinition
  <2>2. /\ Len(top.definitions) = Top.next /\ top.next - 1 = Top.next
        /\ \A j \in 1..(Top.next - 1) : top.definitions[j] = Top.definitions[j]
        /\ top.definitions[Top.next] = MemberDefinition(EachMember)
    <3> HIDE DEF Definitions, MemberDefinition, top
    <3>1. PICK ds \in Seq(Definitions), k \in Nat \ {0}, d \in {MemberDefinition(EachMember)} :
            ds = Top.definitions /\ d = MemberDefinition(EachMember) /\ k = Top.next
      BY <1>2, <1>5
    <3>2. /\ Len(Append(ds, d)) = k /\ k + 1 - 1 = k
          /\ \A j \in 1..(k - 1) : Append(ds, d)[j] = ds[j]
          /\ Append(ds, d)[k] = d
      <4>1. Len(ds) = k - 1
        BY <1>5, <3>1
      <4> QED BY <4>1
    <3> QED BY <1>3, <3>1, <3>2
  <2>3. ASSUME NEW j \in 1..Top.next
        PROVE  /\ top.definitions[j].type = top.info.members[j].type
               /\ ~IsNotHandled(top.info.members[j].attributes)
    <3> HIDE DEF top, MemberDefinition
    <3>1. CASE j = Top.next
      BY <1>1, <1>3, <2>1, <2>2, <3>1
    <3>2. CASE j # Top.next
      <4>1. j \in 1..(Top.next - 1)
        BY <1>2, <3>2
      <4> QED BY <1>3, <1>5, <2>2, <4>1
    <3> QED BY <3>1, <3>2
  <2> QED BY <2>2, <2>3
<1>7. \A f \in 1..n : f = n \/ f \in 1..(n - 1)
  <2>1. \A m \in Nat : \A f \in 1..m : f = m \/ f \in 1..(m - 1)
    OBVIOUS
  <2>2. n \in Nat
    BY <1>2
  <2> HIDE DEF n
  <2> QED BY <2>1, <2>2
<1> HIDE DEF top
<1>8. FrameInv(result, Advanced)
  <2>1. ASSUME NEW f \in 1..(n - 1)
        PROVE  /\ IsDescribed(result, Advanced[f].info.fullName)
               /\ Advanced[f].info.fullName \in ReachedTypes(result)
               /\ Advanced[f].info = GetObjectInfo(result, Advanced[f].info.fullName)
               /\ Len(Advanced[f].definitions) = Advanced[f].next - 1
               /\ \A j \in 1..(Advanced[f].next - 1) :
                    /\ Advanced[f].definitions[j].type = Advanced[f].info.members[j].type
                    /\ ~IsNotHandled(Advanced[f].info.members[j].attributes)
    <3>1. Advanced[f] = stack[f] /\ f \in DOMAIN stack
      BY <1>2, <1>3
    <3> QED BY <1>4, <3>1 DEF FrameInv
  <2>2. /\ IsDescribed(result, top.info.fullName)
        /\ top.info.fullName \in ReachedTypes(result)
        /\ top.info = GetObjectInfo(result, top.info.fullName)
    BY <1>3, <1>5
  <2>3. Advanced[n] = top
    BY DEF top
  <2> QED BY <1>3, <1>6, <1>7, <2>1, <2>2, <2>3 DEF FrameInv
<1>9. OpenedInv(Advanced)
  <2> SUFFICES ASSUME NEW f \in DOMAIN Advanced, f + 1 \in DOMAIN Advanced
               PROVE  Advanced[f].next > 1 /\ Advanced[f + 1].info.fullName = LastType(Advanced[f])
    BY DEF OpenedInv
  <2>1. f \in DOMAIN stack /\ f + 1 \in DOMAIN stack /\ f \in 1..(n - 1)
    BY <1>2, <1>3
  <2>2. Advanced[f] = stack[f] /\ Advanced[f + 1].info = stack[f + 1].info
    <3>1. CASE f + 1 = n
      BY <1>2, <1>3, <2>1, <3>1 DEF top
    <3>2. CASE f + 1 # n
      <4>1. f + 1 \in 1..(n - 1)
        BY <1>2, <2>1, <3>2
      <4> QED BY <1>3, <2>1, <4>1
    <3> QED BY <3>1, <3>2
  <2> QED BY <1>4, <2>1, <2>2 DEF OpenedInv
<1>10. ASSUME NEW f \in 1..(n - 1), NEW j \in 1..(Advanced[f].next - 1),
              IsDescribed(result, Advanced[f].info.members[j].type)
       PROVE  \/ HasModel(AllModels, Advanced[f].info.members[j].type)
              \/ j = Advanced[f].next - 1 /\ f + 1 \in DOMAIN Advanced
  <2>1. Advanced[f] = stack[f] /\ f \in DOMAIN stack /\ (f + 1 \in DOMAIN stack => f + 1 \in DOMAIN Advanced)
    BY <1>2, <1>3
  <2> QED BY <1>4, <1>10, <2>1 DEF PassedInv
<1>11. ASSUME NEW j \in 1..(top.next - 1), IsDescribed(result, top.info.members[j].type)
       PROVE  \/ HasModel(AllModels, top.info.members[j].type)
              \/ j = top.next - 1 /\ top.info.members[j] = EachMember
  <2>1. CASE j = Top.next
    BY <1>1, <1>2, <1>3, <2>1
  <2>2. CASE j # Top.next
    <3>1. j \in 1..(Top.next - 1) /\ top.info.members[j] = Top.info.members[j]
      BY <1>2, <1>3, <2>2
    <3>2. n + 1 \notin DOMAIN stack
      BY <1>2
    <3>3. HasModel(AllModels, Top.info.members[j].type)
      BY <1>2, <1>4, <1>11, <3>1, <3>2 DEF PassedInv
    <3> QED BY <3>1, <3>3
  <2> QED BY <2>1, <2>2
<1>12. PassedBefore(result, AllModels, Advanced)
  BY <1>3, <1>7, <1>10, <1>11 DEF PassedBefore, top
<1>13. ASSUME HasModel(AllModels, EachMember.type) \/ ~IsDescribed(result, EachMember.type)
       PROVE  PassedInv(result, AllModels, Advanced)
  BY <1>3, <1>7, <1>10, <1>11, <1>13 DEF PassedInv, top
<1>14. top.next > 1 /\ LastType(top) = EachMember.type
  <2>1. top.next - 1 = Top.next /\ top.next > 1
    BY <1>2, <1>3
  <2> QED BY <1>1, <1>3, <2>1 DEF LastType
<1>15. Advanced # << >> /\ Advanced[1].info = stack[1].info /\ Len(Advanced) > 0
  <2>1. 1 \in DOMAIN Advanced
    BY <1>2, <1>3
  <2>2. CASE n = 1
    BY <1>2, <1>3, <2>2 DEF top
  <2>3. CASE n # 1
    <3>1. 1 \in 1..(n - 1)
      BY <1>2, <2>3
    <3> QED BY <1>3, <3>1
  <2> QED BY <1>2, <1>3, <2>1, <2>2, <2>3
<1>16. ASSUME EachMember.type \in Described(result) PROVE EachMember.type \in ReachedTypes(result)
  <2>1. Top.info.members \in Seq(MemberSerializationInfo)
    BY <1>1, TopTypes DEF ObjectSerializationInfo
  <2>2. Top.next \in DOMAIN Top.info.members
    BY <1>1, <1>2, <2>1
  <2>3. EachMember.type \in Mentions(result, Top.info.fullName)
    BY <1>1, <1>5, <1>16, <2>2 DEF Mentions
  <2> QED BY <1>5, <2>3, ReachedFacts
<1> QED BY <1>3, <1>8, <1>9, <1>12, <1>13, <1>14, <1>15, <1>16 DEF top

\* The frames below keep what is known of them when the frame on top ends with a
\* model of its type.
LEMMA PopKeeps ==
  ASSUME TypeOK, StackInv, stack # << >>, NEW models,
         \A t : HasModel(AllModels, t) => HasModel(models, t),
         HasModel(models, Top.info.fullName)
  PROVE  /\ FrameInv(result, Callers) /\ OpenedInv(Callers) /\ PassedInv(result, models, Callers)
         /\ Callers # << >> <=> Len(stack) > 1
         /\ Callers # << >> => Callers[1].info = stack[1].info
<1>1. PICK n \in Nat : Len(stack) = n + 1
  <2>1. Len(stack) \in Nat \ {0}
    BY TopTypes
  <2>2. \A k \in Nat \ {0} : \E n \in Nat : k = n + 1
    <3>1. \A k \in Nat \ {0} : k - 1 \in Nat /\ k = (k - 1) + 1
      OBVIOUS
    <3> QED BY <3>1
  <2> QED BY <2>1, <2>2
<1>2. /\ DOMAIN stack = 1..(n + 1) /\ DOMAIN Callers = 1..n /\ Len(Callers) = n
      /\ \A f \in 1..n : Callers[f] = stack[f] /\ f \in DOMAIN stack /\ f + 1 \in DOMAIN stack
      /\ Top = stack[n + 1] /\ n + 1 \in DOMAIN stack
  <2>1. /\ stack \in Seq(Frames) /\ Callers \in Seq(Frames) /\ Len(Callers) = Len(stack) - 1
        /\ \A f \in 1..(Len(stack) - 1) : Callers[f] = stack[f]
        /\ Top = stack[Len(stack)]
    BY TopTypes DEF TypeOK
  <2>2. Len(stack) - 1 = n
    BY <1>1
  <2>3. DOMAIN stack = 1..(n + 1) /\ DOMAIN Callers = 1..n /\ Len(Callers) = n
    <3>1. DOMAIN stack = 1..Len(stack) /\ DOMAIN Callers = 1..Len(Callers)
      BY <2>1
    <3> QED BY <1>1, <2>1, <2>2, <3>1
  <2>4. \A f \in 1..n : Callers[f] = stack[f]
    BY <2>1, <2>2
  <2>5. \A f \in 1..n : f \in 1..(n + 1) /\ f + 1 \in 1..(n + 1)
    OBVIOUS
  <2> QED BY <1>1, <2>1, <2>3, <2>4, <2>5
<1>3. FrameInv(result, stack) /\ OpenedInv(stack) /\ PassedInv(result, AllModels, stack)
  BY DEF StackInv
<1>4. FrameInv(result, Callers)
  BY <1>2, <1>3 DEF FrameInv
<1>5. OpenedInv(Callers)
  BY <1>2, <1>3 DEF OpenedInv
<1>6. PassedInv(result, models, Callers)
  <2> SUFFICES ASSUME NEW f \in 1..n, NEW j \in 1..(stack[f].next - 1),
                      IsDescribed(result, stack[f].info.members[j].type)
               PROVE  \/ HasModel(models, stack[f].info.members[j].type)
                      \/ j = stack[f].next - 1 /\ f + 1 \in DOMAIN Callers
    BY <1>2 DEF PassedInv
  <2>1. HasModel(AllModels, stack[f].info.members[j].type) \/ j = stack[f].next - 1
    BY <1>2, <1>3 DEF PassedInv
  <2>2. CASE HasModel(AllModels, stack[f].info.members[j].type)
    BY <2>2
  <2>3. CASE j = stack[f].next - 1 /\ f # n
    <3>1. f + 1 \in 1..n
      BY <2>3
    <3> QED BY <1>2, <2>3, <3>1
  <2>4. CASE j = stack[f].next - 1 /\ f = n
    <3>1. stack[f + 1].info.fullName = LastType(stack[f])
      BY <1>2, <1>3 DEF OpenedInv
    <3>2. stack[f].info.members[j].type = Top.info.fullName
      BY <1>2, <2>4, <3>1 DEF LastType
    <3> QED BY <3>2
  <2> QED BY <2>1, <2>2, <2>3, <2>4
<1>7. /\ Callers # << >> <=> Len(stack) > 1
      /\ Callers # << >> => Callers[1].info = stack[1].info
  <2>1. CASE n = 0
    <3>1. Callers = << >> /\ ~(Len(stack) > 1)
      BY <1>1, <1>2, <2>1, TopTypes
    <3> QED BY <3>1
  <2>2. CASE n # 0
    <3>1. Callers # << >> /\ Len(stack) > 1 /\ 1 \in 1..n
      BY <1>1, <1>2, <2>2, Len(<< >>) = 0
    <3> QED BY <1>2, <3>1
  <2> QED BY <2>1, <2>2
<1> QED BY <1>4, <1>5, <1>6, <1>7

\* A type that only leads to types with models is not recursive, for they are not.
LEMMA NewModelKeeps ==
  ASSUME TypeOK, StackInv, ModelInv(result, AllModels), stack # << >>,
         Top.next > Len(Top.info.members), ~IsNotHandled(Top.info.attributes),
         NEW m, m.type = Top.info.fullName, m.members = Top.definitions
  PROVE  ModelInv(result, Append(AllModels, m))
<1> DEFINE n == Len(stack)
           members == Top.info.members
<1>1. /\ Top.info = GetObjectInfo(result, m.type) /\ IsDescribed(result, m.type)
      /\ Len(Top.definitions) = Top.next - 1
      /\ \A j \in 1..(Top.next - 1) :
           /\ Top.definitions[j].type = members[j].type
           /\ ~IsNotHandled(members[j].attributes)
      /\ \A j \in 1..(Top.next - 1) :
           IsDescribed(result, members[j].type) => HasModel(AllModels, members[j].type)
  <2>1. /\ n \in DOMAIN stack /\ n + 1 \notin DOMAIN stack /\ Top = stack[n]
    <3>1. stack \in Seq(Frames) /\ n \in DOMAIN stack /\ Top = stack[n]
      BY TopTypes DEF TypeOK
    <3> QED BY <3>1
  <2>2. FrameInv(result, stack) /\ PassedInv(result, AllModels, stack)
    BY DEF StackInv
  <2> HIDE DEF n
  <2>3. /\ IsDescribed(result, Top.info.fullName)
        /\ Top.info = GetObjectInfo(result, Top.info.fullName)
        /\ Len(Top.definitions) = Top.next - 1
        /\ \A j \in 1..(Top.next - 1) :
             /\ Top.definitions[j].type = members[j].type
             /\ ~IsNotHandled(members[j].attributes)
    BY <2>1, <2>2 DEF FrameInv
  <2>4. \A j \in 1..(Top.next - 1) :
           IsDescribed(result, members[j].type) => HasModel(AllModels, members[j].type)
    BY <2>1, <2>2 DEF PassedInv
  <2> QED BY <2>3, <2>4
<1>2. /\ DOMAIN members = 1..(Top.next - 1)
      /\ DOMAIN Top.definitions = 1..(Top.next - 1)
  <2>1. /\ members \in Seq(MemberSerializationInfo) /\ Top.definitions \in Seq(Definitions)
        /\ Top.next \in 1..Len(members) + 1
    BY TopTypes DEF ObjectSerializationInfo, Frames
  <2>2. DOMAIN members = 1..Len(members) /\ DOMAIN Top.definitions = 1..Len(Top.definitions)
    BY <2>1
  <2>3. Len(members) = Top.next - 1
    <3>1. \A a \in Nat : \A b \in 1..a + 1 : b > a => a = b - 1
      OBVIOUS
    <3>2. Len(members) \in Nat
      BY <2>1
    <3> QED BY <2>1, <3>1, <3>2
  <2> QED BY <1>1, <2>2, <2>3
<1> HIDE DEF n
<1>3. \A u \in Mentions(result, m.type) : HasModel(AllModels, u)
  <2> SUFFICES ASSUME NEW u \in Mentions(result, m.type) PROVE HasModel(AllModels, u)
    OBVIOUS
  <2>1. PICK j \in DOMAIN members : u = members[j].type
    BY <1>1 DEF Mentions
  <2>2. IsDescribed(result, u)
    BY DescribedFacts DEF Mentions
  <2> QED BY <1>1, <1>2, <2>1, <2>2
<1>4. ~IsRecursive(result, m.type)
  <2> SUFFICES ASSUME NEW S \in SUBSET Described(result), m.type \in S,
                      \A u \in S : Mentions(result, u) \cap S # {}
               PROVE  FALSE
    BY DEF IsRecursive
  <2>1. PICK v \in Mentions(result, m.type) : v \in S
    OBVIOUS
  <2>2. PICK i \in DOMAIN AllModels : AllModels[i].type = v
    BY <1>3 DEF HasModel
  <2>3. ~IsRecursive(result, v)
    BY <2>2 DEF ModelInv, IsModel
  <2> QED BY <2>1, <2>3 DEF IsRecursive
<1>5. ~HasUnhandled(GetObjectInfo(result, m.type))
  BY <1>1, <1>2 DEF HasUnhandled
<1>6. \A j \in DOMAIN m.members :
        IsDescribed(result, m.members[j].type) => HasModel(AllModels, m.members[j].type)
  BY <1>1, <1>2
<1>7. IsModel(result, AllModels, m)
  <2>1. DefinesMembers(result, m)
    BY <1>1, <1>2 DEF DefinesMembers
  <2> QED BY <1>1, <1>3, <1>4, <1>5, <1>6, <2>1 DEF IsModel
<1>8. AllModels \in Seq(StadModels)
  BY DEF TypeOK
<1> QED BY <1>7, <1>8, ModelAdded

\* Linking keeps what is known of models.
LEMMA LinkedKeeps ==
  ASSUME NEW r, NEW models \in Seq(StadModels), ModelInv(r, models),
         NEW new, new = [i \in DOMAIN models |-> Linked(models, models[i])]
  PROVE  /\ ModelInv(r, new)
         /\ \A t : HasModel(new, t) <=> HasModel(models, t)
<1>1. /\ DOMAIN new = DOMAIN models
      /\ \A i \in DOMAIN models : new[i] = Linked(models, models[i]) /\ models[i] \in StadModels
  <2> HIDE DEF Linked, StadModels
  <2> QED OBVIOUS
<1>2. \A i \in DOMAIN models :
        /\ new[i].type = models[i].type
        /\ DOMAIN new[i].members = DOMAIN models[i].members
        /\ \A j \in DOMAIN models[i].members : new[i].members[j].type = models[i].members[j].type
  <2> HIDE DEF StadModels
  <2> QED BY <1>1, LinkedTypes
<1>3. \A t : HasModel(new, t) <=> HasModel(models, t)
  BY <1>1, <1>2 DEF HasModel
<1>4. ASSUME NEW i \in DOMAIN models PROVE IsModel(r, new, new[i])
  <2>1. IsModel(r, models, models[i])
    BY DEF ModelInv
  <2>2. DefinesMembers(r, new[i])
    BY <1>2, <2>1 DEF IsModel, DefinesMembers
  <2> QED BY <1>2, <1>3, <2>1, <2>2 DEF IsModel
<1> QED BY <1>1, <1>3, <1>4 DEF ModelInv

\* More models keep what is known of the members of data sets that are passed.
LEMMA MoreTaken ==
  ASSUME NEW r, NEW models, NEW new, \A t : HasModel(models, t) => HasModel(new, t),
         NEW a, NEW k, TakenInv(r, models, a, k)
  PROVE  TakenInv(r, new, a, k)
BY DEF TakenInv, IsTaken

\* The places of data sets and of their members.
LEMMA PlaceFacts ==
  ASSUME NEW r \in Results, NEW d \in DataSetInfos(r)
  PROVE  /\ d \in Nat \ {0}
         /\ Len(MembersIn(r, d)) \in Nat
         /\ DOMAIN MembersIn(r, d) = 1..Len(MembersIn(r, d))
<1>1. r.CollectedObjectInfo \in Seq(ObjectSerializationInfo)
  BY ResultsAssumption DEF TypeCollectorResult
<1>2. d \in DOMAIN r.CollectedObjectInfo
  BY DEF DataSetInfos
<1>3. MembersIn(r, d) \in Seq(MemberSerializationInfo)
  <2>1. r.CollectedObjectInfo[d] \in ObjectSerializationInfo
    BY <1>1, <1>2
  <2> QED BY <2>1 DEF MembersIn, ObjectSerializationInfo
<1> QED BY <1>1, <1>2, <1>3

\* One more member of a data set is passed.
LEMMA MemberTaken ==
  ASSUME NEW r \in Results, NEW models, NEW a \in DataSetInfos(r), NEW k \in Nat,
         TakenInv(r, models, a, k), IsTaken(r, models, MembersIn(r, a)[k].type)
  PROVE  TakenInv(r, models, a, k + 1)
<1> SUFFICES ASSUME NEW d \in DataSetInfos(r), NEW i \in DOMAIN MembersIn(r, d),
                    d < a \/ (d = a /\ i < k + 1)
             PROVE  IsTaken(r, models, MembersIn(r, d)[i].type)
  BY DEF TakenInv
<1>1. i \in Nat
  BY PlaceFacts
<1>2. CASE d = a /\ i = k
  BY <1>2
<1>3. CASE d < a \/ (d = a /\ i < k)
  BY <1>3 DEF TakenInv
<1> QED BY <1>1, <1>2, <1>3

\* The loop over infos comes to the next one.
LEMMA InfoTaken ==
  ASSUME NEW r \in Results, NEW models, NEW a \in Nat, NEW k \in Nat, TakenInv(r, models, a, k),
         a \in DataSetInfos(r) => k > Len(MembersIn(r, a))
  PROVE  TakenInv(r, models, a + 1, 0)
<1> SUFFICES ASSUME NEW d \in DataSetInfos(r), NEW i \in DOMAIN MembersIn(r, d),
                    d < a + 1 \/ (d = a + 1 /\ i < 0)
             PROVE  IsTaken(r, models, MembersIn(r, d)[i].type)
  BY DEF TakenInv
<1>1. d \in Nat /\ i \in Nat /\ Len(MembersIn(r, d)) \in Nat /\ i <= Len(MembersIn(r, d))
  BY PlaceFacts
<1>2. d < a \/ d = a
  BY <1>1
<1>3. d = a => i < k
  BY <1>1
<1> QED BY <1>2, <1>3 DEF TakenInv

\* The loop over the members of a data set begins.
LEMMA NoneTaken ==
  ASSUME NEW r \in Results, NEW models, NEW a, TakenInv(r, models, a, 0)
  PROVE  TakenInv(r, models, a, 1)
<1> SUFFICES ASSUME NEW d \in DataSetInfos(r), NEW i \in DOMAIN MembersIn(r, d),
                    d < a \/ (d = a /\ i < 1)
             PROVE  IsTaken(r, models, MembersIn(r, d)[i].type)
  BY DEF TakenInv
<1>1. i \in Nat /\ i >= 1
  BY PlaceFacts
<1> QED BY <1>1 DEF TakenInv

-----------------------------------------------------------------------------
(* The invariant is inductive.                                             *)

\* Nothing is known of no frames.
LEMMA NoFrames ==
  ASSUME NEW r, NEW models
  PROVE  FrameInv(r, << >>) /\ OpenedInv(<< >>) /\ PassedInv(r, models, << >>)
                            /\ PassedBefore(r, models, << >>)
BY DEF FrameInv, OpenedInv, PassedInv, PassedBefore

\* Initially.
LEMMA AnalysisInit == Init => AnalysisInv
<1> SUFFICES ASSUME Init PROVE AnalysisInv
  OBVIOUS
<1>1. ITypes
  BY TypeInit
<1>2. StackInv
  BY NoFrames DEF Init, StackInv
<1>3. ModelInv(result, AllModels)
  BY DEF Init, ModelInv
<1>4. TakenInv(result, AllModels, at, member)
  <2> SUFFICES ASSUME NEW d \in DataSetInfos(result), NEW i \in DOMAIN MembersIn(result, d),
                      d < 1 \/ (d = 1 /\ i < 0)
               PROVE  FALSE
    BY DEF Init, TakenInv
  <2>1. d \in Nat \ {0} /\ i \in Nat
    BY PlaceFacts DEF Init
  <2> QED BY <2>1
<1>5. LoopInv(result, stack, at, member)
  BY DEF Init, LoopInv
<1> QED BY <1>1, <1>2, <1>3, <1>4, <1>5 DEF AnalysisInv

\* The loops over infos and members, where no model is made.
LEMMA LoopsKeep ==
  ASSUME AnalysisInv, SkipInfo \/ EnterDataSet \/ IgnoreMember
  PROVE  StackInv' /\ ModelInv(result, AllModels)'
         /\ TakenInv(result, AllModels, at, member)' /\ LoopInv(result, stack, at, member)'
<1>1. UNCHANGED <<result, stack, AllModels>>
  BY DEF SkipInfo, EnterDataSet, IgnoreMember
<1>2. /\ result \in Results /\ at \in Nat /\ member \in Nat
      /\ TakenInv(result, AllModels, at, member)
      /\ LoopInv(result, stack, at, member)
  <2>1. Len(Infos) \in Nat
    BY HelperTypes DEF AnalysisInv, ITypes
  <2> QED BY <2>1 DEF AnalysisInv, ITypes, TypeOK
<1>3. StackInv' /\ ModelInv(result, AllModels)'
  BY <1>1 DEF AnalysisInv, StackInv
<1>4. CASE SkipInfo
  <2>1. at' = at + 1 /\ member' = member /\ member = 0 /\ at \notin DataSetInfos(result)
    BY <1>4 DEF SkipInfo, AtInfo, DataSetInfos, Infos
  <2>2. TakenInv(result, AllModels, at + 1, 0)
    BY <1>2, <2>1, InfoTaken
  <2>3. LoopInv(result, stack, at + 1, 0)
    BY <1>2, <2>1 DEF LoopInv
  <2> QED BY <1>1, <1>3, <2>1, <2>2, <2>3
<1>5. CASE EnterDataSet
  <2>1. at' = at /\ member' = 1 /\ member = 0 /\ at \in DataSetInfos(result)
    <3>1. at \in DOMAIN Infos
      <4>1. Infos \in Seq(ObjectSerializationInfo) /\ at <= Len(Infos) /\ at >= 1
        BY <1>5, HelperTypes DEF EnterDataSet, AtInfo, AnalysisInv, ITypes, TypeOK
      <4> QED BY <1>2, <4>1
    <3> QED BY <1>5, <3>1 DEF EnterDataSet, AtInfo, DataSetInfos, Infos
  <2>2. TakenInv(result, AllModels, at, 1)
    BY <1>2, <2>1, NoneTaken
  <2>3. LoopInv(result, stack, at, 1)
    <3>1. Len(MembersIn(result, at)) \in Nat
      BY <1>2, <2>1, PlaceFacts
    <3>2. stack = << >>
      BY <1>2, <2>1 DEF LoopInv
    <3> QED BY <2>1, <3>1, <3>2 DEF LoopInv
  <2> QED BY <1>1, <1>3, <2>1, <2>2, <2>3
<1>6. CASE IgnoreMember
  <2>1. /\ at' = at /\ member' = member + 1 /\ member > 0 /\ stack = << >>
        /\ member <= Len(MembersIn(result, at))
        /\ IsDescribed(result, MembersIn(result, at)[member].type)
        /\ IsIgnored(result, MembersIn(result, at)[member].type)
    BY <1>6 DEF IgnoreMember, AtMember, InDataSet, MemberType, MembersIn, Infos, IsIgnored
  <2>2. at \in DataSetInfos(result)
    BY <1>2, <2>1 DEF LoopInv
  <2>3. TakenInv(result, AllModels, at, member + 1)
    BY <1>2, <2>1, <2>2, MemberTaken DEF IsTaken
  <2>4. LoopInv(result, stack, at, member + 1)
    <3>1. Len(MembersIn(result, at)) \in Nat
      BY <1>2, <2>2, PlaceFacts
    <3> QED BY <1>2, <2>1, <2>2, <3>1 DEF LoopInv
  <2> QED BY <1>1, <1>3, <2>1, <2>3, <2>4
<1> QED BY <1>4, <1>5, <1>6

\* MakeDataSetModel makes the model of a member.
LEMMA MakeMemberModelKeeps ==
  ASSUME AnalysisInv, MakeMemberModel
  PROVE  StackInv' /\ ModelInv(result, AllModels)'
         /\ TakenInv(result, AllModels, at, member)' /\ LoopInv(result, stack, at, member)'
<1>1. /\ UNCHANGED <<result, at, member, AllModels>>
      /\ stack = << >> /\ member > 0 /\ member <= Len(MembersIn(result, at))
      /\ MemberType = MembersIn(result, at)[member].type
      /\ IsDescribed(result, MemberType) /\ ~IsIgnored(result, MemberType)
      /\ MakeStadModel(GetObjectInfo(result, MemberType), << >>)
  BY DEF MakeMemberModel, AtMember, InDataSet, MemberType, MembersIn, Infos, IsIgnored
<1>2. /\ result \in Results /\ member \in Nat /\ StackInv
      /\ ModelInv(result, AllModels) /\ TakenInv(result, AllModels, at, member)
      /\ LoopInv(result, stack, at, member)
  BY DEF AnalysisInv, ITypes, TypeOK
<1>3. ModelInv(result, AllModels)' /\ TakenInv(result, AllModels, at, member)'
  BY <1>1, <1>2
<1>4. at \in DataSetInfos(result)
  BY <1>1, <1>2 DEF LoopInv
<1>5. CASE stack' = stack
  BY <1>1, <1>2, <1>5 DEF StackInv
<1>6. CASE stack' # stack
  <2>1. MemberType \in ModelledTypes(result)
    <3>1. member \in DOMAIN MembersIn(result, at)
      BY <1>1, <1>2, <1>4, PlaceFacts
    <3>2. MemberType \in MemberTypes(result)
      BY <1>1, <1>4, <3>1 DEF MemberTypes
    <3> QED BY <1>1, <3>2 DEF ModelledTypes
  <2>2. stack' = Append(<< >>, NewFrame(GetObjectInfo(result, MemberType)))
    BY <1>1, <1>6 DEF MakeStadModel, NewFrame
  <2>3. MemberType \in ReachedTypes(result)
    BY <2>1, ReachedFacts
  <2>4. FrameInv(result, stack') /\ OpenedInv(stack') /\ PassedInv(result, AllModels, stack')
    <3>1. /\ << >> \in Seq(Frames)
          /\ Len(<< >>) > 0 => << >>[Len(<< >>)].next > 1 /\ MemberType = LastType(<< >>[Len(<< >>)])
      BY Len(<< >>) = 0
    <3> QED BY <1>1, <1>2, <2>2, <2>3, <3>1, NoFrames, PushKeeps
  <2>5. stack'[1].info.fullName = MemberType /\ stack' # << >>
    <3>1. GetObjectInfo(result, MemberType).fullName = MemberType
      BY <1>1, <1>2, GetObjectInfoFacts
    <3>2. stack'[1] = NewFrame(GetObjectInfo(result, MemberType)) /\ stack' # << >>
      <4> HIDE DEF NewFrame, GetObjectInfo
      <4> QED BY <2>2
    <3> QED BY <3>1, <3>2 DEF NewFrame
  <2>6. LoopInv(result, stack', at, member)
    BY <1>1, <1>2, <2>1, <2>5 DEF LoopInv
  <2> QED BY <1>1, <1>3, <2>4, <2>6 DEF StackInv
<1> QED BY <1>5, <1>6

\* MakeStadModel, one turn of its loop.
LEMMA DefineMemberKeeps ==
  ASSUME AnalysisInv, DefineMember
  PROVE  StackInv' /\ ModelInv(result, AllModels)'
         /\ TakenInv(result, AllModels, at, member)' /\ LoopInv(result, stack, at, member)'
<1> DEFINE type == EachMember.type
<1>1. /\ UNCHANGED <<result, at, member, AllModels>>
      /\ stack # << >> /\ AtEachMember /\ ~IsNotHandled(EachMember.attributes)
      /\ \/ IsDescribed(result, type) /\ MakeStadModel(GetObjectInfo(result, type), Advanced)
         \/ (HasModel(AllModels, type) \/ ~IsDescribed(result, type)) /\ stack' = Advanced
  BY DEF DefineMember, Advanced, AtEachMember, InModel
<1>2. /\ result \in Results /\ StackInv /\ TypeOK
      /\ ModelInv(result, AllModels) /\ TakenInv(result, AllModels, at, member)
      /\ LoopInv(result, stack, at, member)
  BY DEF AnalysisInv, ITypes, TypeOK
<1>3. ModelInv(result, AllModels)' /\ TakenInv(result, AllModels, at, member)'
  BY <1>1, <1>2
<1>4. /\ FrameInv(result, Advanced) /\ OpenedInv(Advanced)
      /\ PassedBefore(result, AllModels, Advanced)
      /\ HasModel(AllModels, type) \/ ~IsDescribed(result, type)
           => PassedInv(result, AllModels, Advanced)
      /\ Advanced[Len(Advanced)].next > 1 /\ LastType(Advanced[Len(Advanced)]) = type
      /\ Len(Advanced) > 0 /\ Advanced # << >> /\ Advanced[1].info = stack[1].info
      /\ type \in Described(result) => type \in ReachedTypes(result)
      /\ Advanced \in Seq(Frames)
  BY <1>1, <1>2, AdvanceKeeps, AdvancedFacts
<1> HIDE DEF type
<1>5. ASSUME NEW s, s # << >>, s[1].info = stack[1].info PROVE LoopInv(result, s, at, member)
  BY <1>1, <1>2, <1>5 DEF LoopInv
<1>6. CASE stack' = stack
  <2>1. StackInv' /\ LoopInv(result, stack, at, member)'
    BY <1>1, <1>2, <1>6 DEF StackInv
  <2> QED BY <1>3, <2>1
<1>7. CASE (HasModel(AllModels, type) \/ ~IsDescribed(result, type)) /\ stack' = Advanced
  <2>1. StackInv'
    BY <1>1, <1>4, <1>7 DEF StackInv
  <2>2. LoopInv(result, stack', at, member)
    BY <1>4, <1>5, <1>7
  <2> QED BY <1>1, <1>3, <2>1, <2>2
<1>8. CASE IsDescribed(result, type) /\ MakeStadModel(GetObjectInfo(result, type), Advanced)
           /\ stack' # stack
  <2>1. stack' = Append(Advanced, NewFrame(GetObjectInfo(result, type)))
    BY <1>8 DEF MakeStadModel, NewFrame
  <2>2. type \in ReachedTypes(result)
    BY <1>4, <1>8, DescribedFacts
  <2>3. FrameInv(result, stack') /\ OpenedInv(stack') /\ PassedInv(result, AllModels, stack')
    BY <1>2, <1>4, <1>8, <2>1, <2>2, PushKeeps
  <2>4. stack' # << >> /\ stack'[1].info = stack[1].info
    <3>1. GetObjectInfo(result, type) \in ObjectSerializationInfo
      BY <1>2, <1>8, GetObjectInfoFacts
    <3>2. /\ Len(stack') = Len(Advanced) + 1 /\ Len(Advanced) \in Nat
          /\ \A f \in 1..Len(Advanced) : stack'[f] = Advanced[f]
      BY <1>4, <2>1, <3>1, PushFacts
    <3>3. 1 \in 1..Len(Advanced) /\ stack' # << >>
      BY <1>4, <3>2, Len(<< >>) = 0
    <3> QED BY <1>4, <3>2, <3>3
  <2>5. LoopInv(result, stack', at, member)
    BY <1>5, <2>4
  <2> QED BY <1>1, <1>3, <2>3, <2>5 DEF StackInv
<1> QED BY <1>1, <1>6, <1>7, <1>8

\* A model is added.
LEMMA FinishModelKeeps ==
  ASSUME AnalysisInv, FinishModel
  PROVE  StackInv' /\ ModelInv(result, AllModels)'
         /\ TakenInv(result, AllModels, at, member)' /\ LoopInv(result, stack, at, member)'
<1>1. PICK m : /\ m = [type |-> Top.info.fullName, annotations |-> AnnotationInfo(Top.info.attributes),
                        members |-> Top.definitions]
               /\ AllModels' = Append(AllModels, m)
  BY DEF FinishModel
<1>2. m.type = Top.info.fullName /\ m.members = Top.definitions
  BY <1>1
<1>3. /\ UNCHANGED <<result, at>>
      /\ stack # << >> /\ Top.next > Len(Top.info.members)
      /\ ~IsNotHandled(Top.info.attributes) /\ stack' = Callers
      /\ \/ Len(stack) > 1 /\ member' = member
         \/ Len(stack) = 1 /\ member' = member + 1
  BY DEF FinishModel, InModel
<1>4. /\ result \in Results /\ StackInv /\ TypeOK /\ member \in Nat
      /\ ModelInv(result, AllModels) /\ TakenInv(result, AllModels, at, member)
      /\ LoopInv(result, stack, at, member)
      /\ AllModels \in Seq(StadModels)
  BY DEF AnalysisInv, ITypes, TypeOK
<1>5. ModelInv(result, AllModels')
  BY <1>1, <1>2, <1>3, <1>4, NewModelKeeps
<1>6. /\ \A t : HasModel(AllModels, t) => HasModel(AllModels', t)
      /\ HasModel(AllModels', Top.info.fullName)
  BY <1>1, <1>2, <1>4, MoreModels
<1>7. /\ FrameInv(result, Callers) /\ OpenedInv(Callers)
      /\ PassedInv(result, AllModels', Callers)
      /\ Callers # << >> <=> Len(stack) > 1
      /\ Callers # << >> => Callers[1].info = stack[1].info
  BY <1>3, <1>4, <1>6, PopKeeps
<1>8. TakenInv(result, AllModels', at, member)
  BY <1>4, <1>6, MoreTaken
<1>9. CASE Len(stack) > 1
  <2>1. member' = member
    <3>1. Len(stack) # 1
      BY <1>9, 1 > 1 <=> FALSE
    <3> QED BY <1>3, <3>1
  <2>2. LoopInv(result, Callers, at, member)
    BY <1>3, <1>4, <1>7, <1>9 DEF LoopInv
  <2> QED BY <1>3, <1>5, <1>7, <1>8, <2>1, <2>2 DEF StackInv
<1>10. CASE Len(stack) = 1
  <2>1. member' = member + 1 /\ Callers = << >>
    BY <1>3, <1>7, <1>10
  <2>2. /\ at \in DataSetInfos(result) /\ member > 0 /\ member <= Len(MembersIn(result, at))
        /\ MembersIn(result, at)[member].type = Top.info.fullName
        /\ MembersIn(result, at)[member].type \in ModelledTypes(result)
    BY <1>3, <1>4, <1>10 DEF LoopInv, Top
  <2>3. IsTaken(result, AllModels', MembersIn(result, at)[member].type)
    BY <1>6, <2>2 DEF IsTaken, ModelledTypes
  <2>4. TakenInv(result, AllModels', at, member + 1)
    BY <1>4, <1>8, <2>2, <2>3, MemberTaken
  <2>5. LoopInv(result, Callers, at, member + 1)
    <3>1. Len(MembersIn(result, at)) \in Nat
      BY <1>4, <2>2, PlaceFacts
    <3> QED BY <1>4, <2>1, <2>2, <3>1 DEF LoopInv
  <2> QED BY <1>3, <1>5, <1>7, <2>1, <2>4, <2>5 DEF StackInv
<1> QED BY <1>3, <1>9, <1>10

\* A data set is taken.
LEMMA LinkDataSetKeeps ==
  ASSUME AnalysisInv, LinkDataSet
  PROVE  StackInv' /\ ModelInv(result, AllModels)'
         /\ TakenInv(result, AllModels, at, member)' /\ LoopInv(result, stack, at, member)'
<1>1. /\ AllModels' = [i \in DOMAIN AllModels |-> Linked(AllModels, AllModels[i])]
      /\ UNCHANGED <<result, stack>> /\ at' = at + 1 /\ member' = 0
      /\ stack = << >> /\ member > Len(MembersIn(result, at))
  BY DEF LinkDataSet, InDataSet, MembersIn, Infos
<1>2. /\ result \in Results /\ at \in Nat /\ member \in Nat
      /\ ModelInv(result, AllModels) /\ TakenInv(result, AllModels, at, member)
      /\ AllModels \in Seq(StadModels)
  <2>1. Len(Infos) \in Nat
    BY HelperTypes DEF AnalysisInv, ITypes
  <2> QED BY <2>1 DEF AnalysisInv, ITypes, TypeOK
<1>3. ModelInv(result, AllModels') /\ \A t : HasModel(AllModels', t) <=> HasModel(AllModels, t)
  BY <1>1, <1>2, LinkedKeeps
<1>4. TakenInv(result, AllModels', at + 1, 0)
  <2>1. TakenInv(result, AllModels', at, member)
    BY <1>2, <1>3, MoreTaken
  <2> QED BY <1>1, <1>2, <2>1, InfoTaken
<1>5. StackInv'
  BY <1>1, NoFrames DEF StackInv
<1>6. LoopInv(result, stack, at, member)'
  BY <1>1 DEF LoopInv
<1> QED BY <1>1, <1>3, <1>4, <1>5, <1>6

\* Every step keeps the invariant.
LEMMA AnalysisNext == AnalysisInv /\ [Next]_vars => AnalysisInv'
<1> SUFFICES ASSUME AnalysisInv, [Next]_vars PROVE AnalysisInv'
  OBVIOUS
<1>1. ITypes'
  BY TypeNext DEF AnalysisInv
<1>2. CASE SkipInfo \/ EnterDataSet \/ IgnoreMember
  BY <1>1, <1>2, LoopsKeep DEF AnalysisInv
<1>3. CASE MakeMemberModel
  BY <1>1, <1>3, MakeMemberModelKeeps DEF AnalysisInv
<1>4. CASE DefineMember
  BY <1>1, <1>4, DefineMemberKeeps DEF AnalysisInv
<1>5. CASE FinishModel
  BY <1>1, <1>5, FinishModelKeeps DEF AnalysisInv
<1>6. CASE LinkDataSet
  BY <1>1, <1>6, LinkDataSetKeeps DEF AnalysisInv
<1>7. CASE MemberNotFound \/ MemberNotHandled \/ TypeNotHandled \/ ReturnRegistry \/ UNCHANGED vars
  <2>1. UNCHANGED <<result, at, member, stack, AllModels>>
    BY <1>7 DEF MemberNotFound, MemberNotHandled, TypeNotHandled, ReturnRegistry, Throw, loops, vars
  <2> QED BY <1>1, <2>1 DEF AnalysisInv, StackInv
<1> QED BY <1>2, <1>3, <1>4, <1>5, <1>6, <1>7 DEF Next

\* The invariant holds.
LEMMA Analysis == Spec => []AnalysisInv
BY AnalysisInit, AnalysisNext, PTL DEF Spec

-----------------------------------------------------------------------------
(* Theorems.                                                               *)

\* A data set taken: every described type of a member has a model by then, and a
\* model is of a described type, so that ModelOf finds exactly the described.
LEMMA LinkDataSetLinks ==
  ASSUME AnalysisInv, LinkDataSet
  PROVE  DescribedMembersLinked'
<1>1. /\ AllModels' = [i \in DOMAIN AllModels |-> Linked(AllModels, AllModels[i])]
      /\ result' = result /\ AllModels \in Seq(StadModels)
      /\ ModelInv(result, AllModels)
  BY DEF LinkDataSet, AnalysisInv, ITypes, TypeOK
<1>2. /\ DOMAIN AllModels' = DOMAIN AllModels
      /\ \A i \in DOMAIN AllModels : /\ AllModels'[i] = Linked(AllModels, AllModels[i])
                                     /\ AllModels[i] \in StadModels
  <2> HIDE DEF Linked, StadModels
  <2> QED BY <1>1
<1>3. \A i \in DOMAIN AllModels :
        /\ AllModels'[i].type = AllModels[i].type
        /\ DOMAIN AllModels'[i].members = DOMAIN AllModels[i].members
        /\ \A j \in DOMAIN AllModels[i].members :
             /\ AllModels'[i].members[j].type = AllModels[i].members[j].type
             /\ AllModels'[i].members[j].model = ModelOf(AllModels, AllModels[i].members[j].type)
  <2> HIDE DEF StadModels
  <2> QED BY <1>1, <1>2, LinkedTypes
<1>4. ASSUME NEW i \in DOMAIN AllModels', NEW j \in DOMAIN AllModels'[i].members
      PROVE  LET d == AllModels'[i].members[j] IN
             IF IsDescribed(result, d.type)
               THEN d.model \in DOMAIN AllModels' /\ AllModels'[d.model].type = d.type
               ELSE d.model = NoModel
  <2>1. PICK t : t = AllModels[i].members[j].type
    OBVIOUS
  <2>2. i \in DOMAIN AllModels /\ j \in DOMAIN AllModels[i].members
    BY <1>2, <1>3, <1>4
  <2>3. AllModels'[i].members[j].type = t /\ AllModels'[i].members[j].model = ModelOf(AllModels, t)
    BY <1>3, <2>1, <2>2
  <2>4. CASE IsDescribed(result, t)
    <3>1. HasModel(AllModels, t)
      BY <1>1, <2>1, <2>2, <2>4 DEF ModelInv, IsModel
    <3>2. ModelOf(AllModels, t) \in DOMAIN AllModels /\ AllModels[ModelOf(AllModels, t)].type = t
      BY <1>1, <3>1, ModelOfFacts
    <3>3. AllModels'[ModelOf(AllModels, t)].type = t
      BY <1>3, <3>2
    <3> QED BY <1>2, <2>3, <2>4, <3>2, <3>3
  <2>5. CASE ~IsDescribed(result, t)
    <3>1. ~HasModel(AllModels, t)
      BY <1>1, <2>5 DEF HasModel, ModelInv, IsModel
    <3>2. ModelOf(AllModels, t) = NoModel
      BY <1>1, <3>1, ModelOfFacts
    <3> QED BY <2>3, <2>5, <3>2
  <2> QED BY <2>4, <2>5
<1> QED BY <1>1, <1>4 DEF DescribedMembersLinked

\* Every step keeps the definitions linked.
LEMMA LinkedStep ==
  AnalysisInv /\ DescribedMembersLinked /\ [Next]_vars => DescribedMembersLinked'
<1> SUFFICES ASSUME AnalysisInv, DescribedMembersLinked, [Next]_vars, member' = 0
             PROVE  DescribedMembersLinked'
  BY DEF DescribedMembersLinked
<1>0. member \in Nat /\ (stack # << >> => member > 0)
  BY DEF AnalysisInv, ITypes, TypeOK, InLoop
<1>1. CASE LinkDataSet
  BY <1>1, LinkDataSetLinks
<1>2. CASE SkipInfo \/ MemberNotFound \/ MemberNotHandled \/ TypeNotHandled \/ ReturnRegistry
           \/ UNCHANGED vars
  BY <1>2 DEF SkipInfo, MemberNotFound, MemberNotHandled, TypeNotHandled, ReturnRegistry,
              Throw, loops, vars, DescribedMembersLinked
<1>3. CASE EnterDataSet \/ IgnoreMember \/ MakeMemberModel \/ DefineMember \/ FinishModel
  <2>1. member' > 0
    BY <1>0, <1>3 DEF EnterDataSet, IgnoreMember, MakeMemberModel, AtMember, InDataSet,
                      DefineMember, AtEachMember, InModel, FinishModel
  <2> QED BY <1>0, <2>1
<1> QED BY <1>1, <1>2, <1>3 DEF Next

\* For every collector result, once a data set is taken every member definition
\* has a model of its type exactly when the collector describes that type.
THEOREM MembersLinked == Spec => []DescribedMembersLinked
<1>1. Init => DescribedMembersLinked
  BY DEF Init, DescribedMembersLinked
<1> QED BY <1>1, LinkedStep, Analysis, PTL DEF Spec

\* Where MakeRegistry throws, something is not described or not handled.
LEMMA ThrowHasCause ==
  ASSUME AnalysisInv, MemberNotFound \/ MemberNotHandled \/ TypeNotHandled
  PROVE  \/ \E t \in MemberTypes(result) : ~IsDescribed(result, t)
         \/ \E t \in ReachedTypes(result) : HasUnhandled(GetObjectInfo(result, t))
<1>1. CASE MemberNotFound
  <2>1. /\ member > 0 /\ member <= Len(MembersIn(result, at))
        /\ MemberType = MembersIn(result, at)[member].type /\ ~IsDescribed(result, MemberType)
    BY <1>1 DEF MemberNotFound, AtMember, InDataSet, MemberType, MembersIn, Infos
  <2>2. result \in Results /\ at \in DataSetInfos(result) /\ member \in Nat
    BY <2>1 DEF AnalysisInv, LoopInv, ITypes, TypeOK
  <2>3. member \in DOMAIN MembersIn(result, at)
    BY <2>1, <2>2, PlaceFacts
  <2> QED BY <2>1, <2>2, <2>3 DEF MemberTypes
<1>2. CASE MemberNotHandled \/ TypeNotHandled
  <2>1. stack # << >> /\ TypeOK /\ FrameInv(result, stack)
    BY <1>2 DEF MemberNotHandled, AtEachMember, TypeNotHandled, InModel, AnalysisInv, ITypes,
                StackInv
  <2>2. /\ Top.info.fullName \in ReachedTypes(result)
        /\ Top.info = GetObjectInfo(result, Top.info.fullName)
    BY <2>1, TopTypes DEF FrameInv
  <2>3. HasUnhandled(Top.info)
    <3>1. CASE TypeNotHandled
      BY <3>1 DEF TypeNotHandled, HasUnhandled
    <3>2. CASE MemberNotHandled
      <4>1. Top.info.members \in Seq(MemberSerializationInfo) /\ Top.next \in Nat \ {0}
        BY <2>1, TopTypes DEF ObjectSerializationInfo, Frames
      <4>2. Top.next \in DOMAIN Top.info.members
        BY <3>2, <4>1 DEF MemberNotHandled, AtEachMember
      <4> QED BY <3>2, <4>2 DEF MemberNotHandled, EachMember, HasUnhandled
    <3> QED BY <1>2, <3>1, <3>2
  <2> QED BY <2>2, <2>3
<1> QED BY <1>1, <1>2

\* When MakeRegistry returns, the types that have a model hold those of the data
\* sets' members and lead nowhere else: they are all the types that are reached.
LEMMA ReturnFacts ==
  ASSUME AnalysisInv, ReturnRegistry
  PROVE  /\ \A t \in MemberTypes(result) : IsDescribed(result, t)
         /\ \A t \in ReachedTypes(result) : ~HasUnhandled(GetObjectInfo(result, t))
         /\ \A t \in ModelledTypes(result) : ~IsRecursive(result, t)
<1> DEFINE S == {t \in Described(result) : HasModel(AllModels, t)}
<1>1. \A t \in MemberTypes(result) : IsTaken(result, AllModels, t)
  <2> SUFFICES ASSUME NEW d \in DataSetInfos(result), NEW i \in DOMAIN MembersIn(result, d)
               PROVE  IsTaken(result, AllModels, MembersIn(result, d)[i].type)
    BY DEF MemberTypes
  <2>1. at > Len(Infos) /\ TakenInv(result, AllModels, at, member) /\ at \in Nat
        /\ Infos \in Seq(ObjectSerializationInfo)
    <3>1. Infos \in Seq(ObjectSerializationInfo)
      BY HelperTypes DEF AnalysisInv, ITypes
    <3> QED BY <3>1 DEF ReturnRegistry, AnalysisInv, ITypes, TypeOK
  <2>2. d \in DOMAIN Infos
    BY DEF DataSetInfos, Infos
  <2>3. d < at
    BY <2>1, <2>2
  <2> QED BY <2>1, <2>3 DEF TakenInv
<1>2. \A t \in MemberTypes(result) : IsDescribed(result, t)
  BY <1>1 DEF IsTaken
<1>3. ModelledTypes(result) \subseteq S
  BY <1>1, DescribedFacts DEF IsTaken, ModelledTypes
<1>4. \A u \in S : Mentions(result, u) \subseteq S
  BY DEF AnalysisInv, ModelInv, IsModel, HasModel, Mentions
<1>5. ReachedTypes(result) \subseteq S
  <2>1. S \in SUBSET Described(result)
    OBVIOUS
  <2> HIDE DEF S
  <2> QED BY <1>3, <1>4, <2>1 DEF ReachedTypes
<1>6. \A t \in S : ~HasUnhandled(GetObjectInfo(result, t)) /\ ~IsRecursive(result, t)
  BY DEF AnalysisInv, ModelInv, IsModel, HasModel
<1> QED BY <1>2, <1>3, <1>5, <1>6

\* Every step that throws or returns has its cause.
LEMMA CausesStep ==
  AnalysisInv /\ FailuresHaveACause /\ [Next]_vars => FailuresHaveACause'
<1> SUFFICES ASSUME AnalysisInv, FailuresHaveACause, [Next]_vars
             PROVE  FailuresHaveACause'
  OBVIOUS
<1>1. result' = result
  BY DEF Next, vars, loops, SkipInfo, EnterDataSet, MemberNotFound, IgnoreMember, MakeMemberModel,
         DefineMember, MemberNotHandled, FinishModel, TypeNotHandled, LinkDataSet,
         ReturnRegistry, Throw
<1>2. CASE MemberNotFound \/ MemberNotHandled \/ TypeNotHandled
  <2>1. status' = "threw"
    BY <1>2 DEF MemberNotFound, MemberNotHandled, TypeNotHandled, Throw
  <2> QED BY <1>1, <1>2, <2>1, ThrowHasCause DEF FailuresHaveACause
<1>3. CASE ReturnRegistry
  <2>1. status' = "returned"
    BY <1>3 DEF ReturnRegistry
  <2> QED BY <1>1, <1>3, <2>1, ReturnFacts DEF FailuresHaveACause
<1>4. CASE status' = status \/ status' = "overflowed"
  BY <1>1, <1>4 DEF FailuresHaveACause
<1> QED BY <1>2, <1>3, <1>4 DEF Next, vars, SkipInfo, EnterDataSet, IgnoreMember,
                                MakeMemberModel, MakeStadModel, DefineMember, FinishModel,
                                LinkDataSet

\* For every collector result, MakeRegistry throws only for a member of a data
\* set that is not described or an attribute that is not handled, and answers a
\* registry only when there is neither.
THEOREM HaveCauses == Spec => []FailuresHaveACause
<1>1. Init => FailuresHaveACause
  BY DEF Init, FailuresHaveACause
<1> QED BY <1>1, CausesStep, Analysis, PTL DEF Spec

\* The types of the frames, and the type a frame is wanted for: a path along
\* members, with more types than the result describes.
LEMMA OverflowFacts ==
  ASSUME AnalysisInv, DefineMember, status' = "overflowed"
  PROVE  \E t \in ModelledTypes(result) : IsRecursive(result, t)
<1>1. /\ TypeOK /\ result \in Results /\ StackInv /\ AtEachMember /\ stack # << >>
      /\ ~IsNotHandled(EachMember.attributes) /\ status = "running"
      /\ LoopInv(result, stack, at, member)
  BY DEF AnalysisInv, ITypes, TypeOK, DefineMember, AtEachMember, InModel, Running
<1>2. IsDescribed(result, EachMember.type) /\ ~(Len(Advanced) < MaxDepth)
  BY <1>1 DEF DefineMember, Advanced, MakeStadModel
<1>3. PICK s, type : s = Advanced /\ type = EachMember.type
  OBVIOUS
<1>4. /\ FrameInv(result, s) /\ OpenedInv(s) /\ s \in Seq(Frames)
      /\ s[Len(s)].next > 1 /\ LastType(s[Len(s)]) = type
      /\ \A f \in DOMAIN s : s[f].next \in 1..Len(s[f].info.members) + 1
  BY <1>1, <1>3, AdvanceKeeps, AdvancedFacts, AdvancedTypes
<1>5. PICK n \in Nat \ {0}, m \in Nat : n = MaxDepth /\ m = Len(s)
  BY <1>4, MaxDepthAssumption
<1>6. m >= n /\ DOMAIN s = 1..m
  BY <1>2, <1>3, <1>4, <1>5
<1>7. ASSUME NEW f \in 1..m, s[f].next > 1, LastType(s[f]) \in Described(result)
      PROVE  LastType(s[f]) \in Mentions(result, s[f].info.fullName)
  <2>1. s[f].info = GetObjectInfo(result, s[f].info.fullName)
    BY <1>4, <1>6 DEF FrameInv
  <2>2. s[f].next - 1 \in DOMAIN s[f].info.members
    <3>1. s[f].info.members \in Seq(MemberSerializationInfo)
      <4>1. s[f] \in Frames
        BY <1>4, <1>6
      <4> QED BY <4>1 DEF Frames, ObjectSerializationInfo
    <3>2. s[f].next \in 1..Len(s[f].info.members) + 1 /\ Len(s[f].info.members) \in Nat
      BY <1>4, <1>6, <3>1
    <3>3. \A a \in Nat : \A b \in 1..a + 1 : b > 1 => b - 1 \in 1..a
      OBVIOUS
    <3> QED BY <1>7, <3>1, <3>2, <3>3
  <2> QED BY <1>7, <2>1, <2>2 DEF LastType, Mentions
<1>8. \A f \in 1..m : s[f].info.fullName \in Described(result)
  BY <1>4, <1>6, DescribedFacts DEF FrameInv
<1>9. type \in Described(result)
  BY <1>2, <1>3, DescribedFacts
<1> DEFINE path == [k \in 1..(n + 1) |-> IF k <= m THEN s[k].info.fullName ELSE type]
<1>10. path \in [1..(n + 1) -> Described(result)]
  <2>1. ASSUME NEW k \in 1..(n + 1), k <= m PROVE s[k].info.fullName \in Described(result)
    <3>1. k \in 1..m
      BY <2>1
    <3> QED BY <1>8, <3>1
  <2> QED BY <1>9, <2>1
<1>11. ASSUME NEW k \in 1..(n + 1), k < n + 1
       PROVE  path[k + 1] \in Mentions(result, path[k])
  <2>1. k \in 1..m /\ k + 1 \in 1..(n + 1)
    BY <1>6, <1>11
  <2>2. path[k] = s[k].info.fullName /\ k <= m
    BY <2>1
  <2>3. CASE k < m
    <3>1. k + 1 \in 1..m /\ k + 1 <= m
      BY <2>1, <2>3
    <3>2. path[k + 1] = s[k + 1].info.fullName
      BY <2>1, <3>1
    <3>3. s[k].next > 1 /\ s[k + 1].info.fullName = LastType(s[k])
      BY <1>4, <1>6, <2>1, <3>1 DEF OpenedInv
    <3>4. LastType(s[k]) \in Described(result)
      BY <1>8, <3>1, <3>3
    <3> HIDE DEF path
    <3> QED BY <1>7, <2>1, <2>2, <3>2, <3>3, <3>4
  <2>4. CASE k = m
    <3>1. path[k + 1] = type
      BY <2>1, <2>4
    <3>2. s[k].next > 1 /\ LastType(s[k]) = type
      BY <1>4, <1>5, <2>4
    <3> HIDE DEF path
    <3> QED BY <1>7, <1>9, <2>1, <2>2, <3>1, <3>2
  <2> QED BY <2>1, <2>3, <2>4
<1>12. path[1] \in ModelledTypes(result)
  <2>1. path[1] = s[1].info.fullName
    BY <1>5, <1>6
  <2>2. s[1].info = stack[1].info
    BY <1>1, <1>3, AdvanceKeeps
  <2>3. stack[1].info.fullName \in ModelledTypes(result)
    BY <1>1 DEF LoopInv
  <2> QED BY <2>1, <2>2, <2>3
<1> HIDE DEF path
<1>13. PICK i, j \in 1..(n + 1) : i < j /\ path[i] = path[j]
  BY <1>1, <1>5, <1>10, LongPath
<1>14. n + 1 \in Nat
  OBVIOUS
<1>15. IsRecursive(result, path[1])
  BY <1>10, <1>11, <1>13, <1>14, PathIsRecursive
<1> QED BY <1>12, <1>15

\* Every step that overflows or returns has its cause.
LEMMA RecursionStep ==
  AnalysisInv /\ RecursionEndsUnlessRecursive /\ [Next]_vars => RecursionEndsUnlessRecursive'
<1> SUFFICES ASSUME AnalysisInv, RecursionEndsUnlessRecursive, [Next]_vars
             PROVE  RecursionEndsUnlessRecursive'
  OBVIOUS
<1>1. result' = result
  BY DEF Next, vars, loops, SkipInfo, EnterDataSet, MemberNotFound, IgnoreMember, MakeMemberModel,
         DefineMember, MemberNotHandled, FinishModel, TypeNotHandled, LinkDataSet,
         ReturnRegistry, Throw
<1>2. CASE ReturnRegistry
  <2>1. status' = "returned"
    BY <1>2 DEF ReturnRegistry
  <2> QED BY <1>1, <1>2, <2>1, ReturnFacts DEF RecursionEndsUnlessRecursive
<1>3. CASE MakeMemberModel
  <2>1. Len(<< >>) < MaxDepth
    BY MaxDepthAssumption, Len(<< >>) = 0
  <2>2. status' = status
    BY <1>3, <2>1 DEF MakeMemberModel, MakeStadModel
  <2> QED BY <1>1, <2>2 DEF RecursionEndsUnlessRecursive
<1>4. CASE DefineMember /\ status' = "overflowed"
  BY <1>1, <1>4, OverflowFacts DEF RecursionEndsUnlessRecursive
<1>5. CASE status' = status \/ status' = "threw"
  BY <1>1, <1>5 DEF RecursionEndsUnlessRecursive
<1> QED BY <1>2, <1>3, <1>4, <1>5 DEF Next, vars, SkipInfo, EnterDataSet, IgnoreMember,
                MemberNotFound, MemberNotHandled, TypeNotHandled, Throw,
                MakeStadModel, DefineMember, FinishModel, LinkDataSet

\* For every collector result, MakeRegistry overflows the stack only for a data
\* set with a member of recursive type, and never returns for one.
THEOREM RecursionEnds == Spec => []RecursionEndsUnlessRecursive
<1>1. Init => RecursionEndsUnlessRecursive
  BY DEF Init, RecursionEndsUnlessRecursive
<1> QED BY <1>1, RecursionStep, Analysis, PTL DEF Spec

-----------------------------------------------------------------------------
(* What a registry holds.                                                  *)

\* The members of a data set before place k that are not ignored, and those of
\* them that are collections.
MadeMembers(r, d, k) ==
  {i \in DOMAIN MembersIn(r, d) : i < k /\ ~IsIgnored(r, MembersIn(r, d)[i].type)}
Collections(r, d, k) ==
  {i \in MadeMembers(r, d, k) : MembersIn(r, d)[i].type \in KeyValueCollections}

\* A list has one model, of the type of the member, for each of these members.
Files(r, models, filed, d, made) ==
  \E h \in [DOMAIN filed -> made] :
    /\ \A i \in made : \E x \in DOMAIN filed : h[x] = i
    /\ \A x, y \in DOMAIN filed : h[x] = h[y] => x = y
    /\ \A x \in DOMAIN filed :
         /\ filed[x] \in DOMAIN models
         /\ models[filed[x]].type = MembersIn(r, d)[h[x]].type
FilesBoth(r, models, lists, singles, d, k) ==
  /\ Files(r, models, lists, d, Collections(r, d, k))
  /\ Files(r, models, singles, d, MadeMembers(r, d, k) \ Collections(r, d, k))

\* The registry has the data sets that the loop has passed, in their order, each
\* with the models of all its members.
DataSetModels == [name : Nat, listModels : Seq(Nat), singleModels : Seq(Nat)]
RegistryInv(r, models, sets, a) ==
  /\ sets \in Seq(DataSetModels)
  /\ \E g \in [DOMAIN sets -> {d \in DataSetInfos(r) : d < a}] :
       /\ \A d \in DataSetInfos(r) : d < a => \E x \in DOMAIN sets : g[x] = d
       /\ \A x, y \in DOMAIN sets : x < y => g[x] < g[y]
       /\ \A x \in DOMAIN sets :
            /\ sets[x].name = r.CollectedObjectInfo[g[x]].fullName
            /\ FilesBoth(r, models, sets[x].listModels, sets[x].singleModels, g[x],
                         Len(MembersIn(r, g[x])) + 1)

FilingInv ==
  /\ member > 0 => FilesBoth(result, AllModels, listModels, singleModels, at, member)
  /\ RegistryInv(result, AllModels, dataSetModels, at)
  /\ status = "returned" => member = 0 /\ at > Len(Infos)

\* Models stay where they are and of the type they are.
KeepsTypes(models, new) ==
  \A i \in DOMAIN models : i \in DOMAIN new /\ new[i].type = models[i].type

LEMMA FilesStay ==
  ASSUME NEW r, NEW models, NEW new, KeepsTypes(models, new)
  PROVE  /\ \A filed, d, made : Files(r, models, filed, d, made) => Files(r, new, filed, d, made)
         /\ \A lists, singles, d, k :
              FilesBoth(r, models, lists, singles, d, k) => FilesBoth(r, new, lists, singles, d, k)
         /\ \A sets, a : RegistryInv(r, models, sets, a) => RegistryInv(r, new, sets, a)
<1>1. ASSUME NEW filed, NEW d, NEW made, Files(r, models, filed, d, made)
      PROVE  Files(r, new, filed, d, made)
  <2>1. PICK h \in [DOMAIN filed -> made] :
          /\ \A i \in made : \E x \in DOMAIN filed : h[x] = i
          /\ \A x, y \in DOMAIN filed : h[x] = h[y] => x = y
          /\ \A x \in DOMAIN filed :
               /\ filed[x] \in DOMAIN models
               /\ models[filed[x]].type = MembersIn(r, d)[h[x]].type
    BY <1>1 DEF Files
  <2>2. \A x \in DOMAIN filed :
               /\ filed[x] \in DOMAIN new
               /\ new[filed[x]].type = MembersIn(r, d)[h[x]].type
    BY <2>1 DEF KeepsTypes
  <2> QED BY <2>1, <2>2 DEF Files
<1>2. \A lists, singles, d, k :
        FilesBoth(r, models, lists, singles, d, k) => FilesBoth(r, new, lists, singles, d, k)
  BY <1>1 DEF FilesBoth
<1>3. \A sets, a : RegistryInv(r, models, sets, a) => RegistryInv(r, new, sets, a)
  BY <1>2 DEF RegistryInv
<1> QED BY <1>1, <1>2, <1>3

\* The model of one more member is filed.
LEMMA FilesGrow ==
  ASSUME NEW r, NEW models, NEW filed \in Seq(Nat), NEW d, NEW made, Files(r, models, filed, d, made),
         NEW i, i \notin made, NEW p \in Nat, p \in DOMAIN models,
         models[p].type = MembersIn(r, d)[i].type
  PROVE  Files(r, models, Append(filed, p), d, made \cup {i})
<1> DEFINE more == Append(filed, p)
           last == Len(filed) + 1
<1>1. PICK h \in [DOMAIN filed -> made] :
        /\ \A j \in made : \E x \in DOMAIN filed : h[x] = j
        /\ \A x, y \in DOMAIN filed : h[x] = h[y] => x = y
        /\ \A x \in DOMAIN filed :
             /\ filed[x] \in DOMAIN models
             /\ models[filed[x]].type = MembersIn(r, d)[h[x]].type
  BY DEF Files
<1>2. /\ DOMAIN more = DOMAIN filed \cup {last} /\ last \notin DOMAIN filed
      /\ \A x \in DOMAIN filed : more[x] = filed[x]
      /\ more[last] = p
  OBVIOUS
<1> DEFINE g == [x \in DOMAIN more |-> IF x = last THEN i ELSE h[x]]
<1> HIDE DEF more, last
<1>3. /\ g \in [DOMAIN more -> made \cup {i}]
      /\ g[last] = i
      /\ \A x \in DOMAIN filed : g[x] = h[x]
  BY <1>2
<1> HIDE DEF g
<1>4. \A j \in made \cup {i} : \E x \in DOMAIN more : g[x] = j
  BY <1>1, <1>2, <1>3
<1>5. \A x, y \in DOMAIN more : g[x] = g[y] => x = y
  BY <1>1, <1>2, <1>3
<1>6. \A x \in DOMAIN more :
        more[x] \in DOMAIN models /\ models[more[x]].type = MembersIn(r, d)[g[x]].type
  BY <1>1, <1>2, <1>3
<1> QED BY <1>3, <1>4, <1>5, <1>6 DEF Files, more

\* The members before the next place.
LEMMA MadeNext ==
  ASSUME NEW r \in Results, NEW d \in DataSetInfos(r), NEW k \in Nat \ {0}, k <= Len(MembersIn(r, d))
  PROVE  /\ k \notin MadeMembers(r, d, k)
         /\ MadeMembers(r, d, k + 1) = MadeMembers(r, d, k) \cup
              (IF IsIgnored(r, MembersIn(r, d)[k].type) THEN {} ELSE {k})
<1>1. DOMAIN MembersIn(r, d) = 1..Len(MembersIn(r, d)) /\ Len(MembersIn(r, d)) \in Nat
  BY PlaceFacts
<1>2. k \in DOMAIN MembersIn(r, d)
  BY <1>1
<1>3. \A i \in DOMAIN MembersIn(r, d) : i < k + 1 <=> i < k \/ i = k
  BY <1>1
<1>4. ~(k < k)
  OBVIOUS
<1> QED BY <1>2, <1>3, <1>4 DEF MadeMembers

\* A member that is ignored is passed, or one that is not and has its model.
LEMMA MemberFiled ==
  ASSUME NEW r \in Results, NEW models, NEW lists \in Seq(Nat), NEW singles \in Seq(Nat),
         NEW d \in DataSetInfos(r), NEW k \in Nat \ {0}, k <= Len(MembersIn(r, d)),
         FilesBoth(r, models, lists, singles, d, k)
  PROVE  /\ IsIgnored(r, MembersIn(r, d)[k].type)
              => FilesBoth(r, models, lists, singles, d, k + 1)
         /\ ~IsIgnored(r, MembersIn(r, d)[k].type) =>
              \A p \in Nat : p \in DOMAIN models /\ models[p].type = MembersIn(r, d)[k].type =>
                IF MembersIn(r, d)[k].type \in KeyValueCollections
                  THEN FilesBoth(r, models, Append(lists, p), singles, d, k + 1)
                  ELSE FilesBoth(r, models, lists, Append(singles, p), d, k + 1)
<1> DEFINE made == MadeMembers(r, d, k)
           next == MadeMembers(r, d, k + 1)
           all  == Collections(r, d, k)
<1>1. k \notin made /\ all \subseteq made
  BY MadeNext DEF Collections
<1>2. Files(r, models, lists, d, all) /\ Files(r, models, singles, d, made \ all)
  BY DEF FilesBoth
<1>3. CASE IsIgnored(r, MembersIn(r, d)[k].type)
  <2>1. next = made
    <3>1. next = made \cup (IF IsIgnored(r, MembersIn(r, d)[k].type) THEN {} ELSE {k})
      BY MadeNext
    <3> HIDE DEF next, made
    <3> QED BY <1>3, <3>1
  <2>2. Collections(r, d, k + 1) = all
    BY <2>1 DEF Collections
  <2> QED BY <1>2, <1>3, <2>1, <2>2 DEF FilesBoth
<1>4. CASE ~IsIgnored(r, MembersIn(r, d)[k].type)
  <2>1. next = made \cup {k}
    BY <1>4, MadeNext
  <2> SUFFICES ASSUME NEW p \in Nat, p \in DOMAIN models,
                      models[p].type = MembersIn(r, d)[k].type
               PROVE  IF MembersIn(r, d)[k].type \in KeyValueCollections
                        THEN FilesBoth(r, models, Append(lists, p), singles, d, k + 1)
                        ELSE FilesBoth(r, models, lists, Append(singles, p), d, k + 1)
    BY <1>4
  <2>2. CASE MembersIn(r, d)[k].type \in KeyValueCollections
    <3>1. Collections(r, d, k + 1) = all \cup {k}
      BY <2>1, <2>2 DEF Collections
    <3>2. next \ (all \cup {k}) = made \ all
      BY <1>1, <2>1
    <3>3. Files(r, models, Append(lists, p), d, all \cup {k})
      <4>1. k \notin all
        BY <1>1
      <4> HIDE DEF all, made
      <4> QED BY <1>2, <4>1, FilesGrow
    <3>4. next \ Collections(r, d, k + 1) = made \ all
      BY <3>1, <3>2
    <3>5. FilesBoth(r, models, Append(lists, p), singles, d, k + 1)
      BY <1>2, <3>1, <3>3, <3>4 DEF FilesBoth
    <3> QED BY <2>2, <3>5
  <2>3. CASE MembersIn(r, d)[k].type \notin KeyValueCollections
    <3>1. Collections(r, d, k + 1) = all
      BY <2>1, <2>3 DEF Collections
    <3>2. next \ all = (made \ all) \cup {k}
      BY <1>1, <2>1
    <3>3. Files(r, models, Append(singles, p), d, (made \ all) \cup {k})
      <4>1. k \notin made \ all
        BY <1>1
      <4> HIDE DEF all, made
      <4> QED BY <1>2, <4>1, FilesGrow
    <3>4. FilesBoth(r, models, lists, Append(singles, p), d, k + 1)
      BY <1>2, <3>1, <3>2, <3>3 DEF FilesBoth
    <3> QED BY <2>3, <3>4
  <2> QED BY <2>2, <2>3
<1> QED BY <1>3, <1>4

\* The lists of a data set are empty while none of its members is passed.
LEMMA NoneFiled ==
  ASSUME NEW r \in Results, NEW models, NEW d \in DataSetInfos(r)
  PROVE  FilesBoth(r, models, << >>, << >>, d, 1)
<1>1. MadeMembers(r, d, 1) = {}
  BY PlaceFacts DEF MadeMembers
<1>2. Collections(r, d, 1) = {}
  BY <1>1 DEF Collections
<1>3. DOMAIN << >> = {} /\ [x \in {} |-> x] \in [{} -> {}]
  OBVIOUS
<1>4. Files(r, models, << >>, d, {})
  BY <1>3 DEF Files
<1> QED BY <1>1, <1>2, <1>4 DEF FilesBoth

\* The loop passes an info that defines no data set, or one whose models are
\* added to the registry.
LEMMA RegistryGrows ==
  ASSUME NEW r \in Results, NEW models, NEW sets, NEW a \in Nat, RegistryInv(r, models, sets, a)
  PROVE  /\ a \notin DataSetInfos(r) => RegistryInv(r, models, sets, a + 1)
         /\ a \in DataSetInfos(r) =>
              \A new \in DataSetModels :
                /\ new.name = r.CollectedObjectInfo[a].fullName
                /\ FilesBoth(r, models, new.listModels, new.singleModels, a,
                             Len(MembersIn(r, a)) + 1)
                => RegistryInv(r, models, Append(sets, new), a + 1)
<1> DEFINE Past(b) == {d \in DataSetInfos(r) : d < b}
<1>1. \A d \in DataSetInfos(r) : d < a + 1 <=> d < a \/ d = a
  BY PlaceFacts
<1>2. sets \in Seq(DataSetModels)
  BY DEF RegistryInv
<1>3. PICK g \in [DOMAIN sets -> Past(a)] :
       /\ \A d \in DataSetInfos(r) : d < a => \E x \in DOMAIN sets : g[x] = d
       /\ \A x, y \in DOMAIN sets : x < y => g[x] < g[y]
       /\ \A x \in DOMAIN sets :
            /\ sets[x].name = r.CollectedObjectInfo[g[x]].fullName
            /\ FilesBoth(r, models, sets[x].listModels, sets[x].singleModels, g[x],
                         Len(MembersIn(r, g[x])) + 1)
  BY DEF RegistryInv
<1>4. CASE a \notin DataSetInfos(r)
  <2>1. Past(a + 1) = Past(a)
    BY <1>1, <1>4
  <2>2. \A d \in DataSetInfos(r) : d < a + 1 => d < a
    BY <1>1, <1>4
  <2> HIDE DEF Past
  <2>3. g \in [DOMAIN sets -> Past(a + 1)]
    BY <2>1
  <2>4. RegistryInv(r, models, sets, a + 1)
    BY <1>2, <1>3, <2>2, <2>3 DEF RegistryInv, Past
  <2> QED BY <1>4, <2>4
<1>5. CASE a \in DataSetInfos(r)
  <2> SUFFICES ASSUME NEW new \in DataSetModels,
                      new.name = r.CollectedObjectInfo[a].fullName,
                      FilesBoth(r, models, new.listModels, new.singleModels, a,
                                Len(MembersIn(r, a)) + 1)
               PROVE  RegistryInv(r, models, Append(sets, new), a + 1)
    BY <1>5
  <2> DEFINE more == Append(sets, new)
             last == Len(sets) + 1
  <2>1. /\ DOMAIN more = DOMAIN sets \cup {last} /\ last \notin DOMAIN sets
        /\ \A x \in DOMAIN sets : more[x] = sets[x] /\ x < last /\ ~(last < x)
        /\ more[last] = new /\ more \in Seq(DataSetModels) /\ ~(last < last)
    <3> HIDE DEF DataSetModels
    <3> QED BY <1>2
  <2> DEFINE h == [x \in DOMAIN more |-> IF x = last THEN a ELSE g[x]]
  <2> HIDE DEF more, last
  <2>2. /\ \A x \in DOMAIN sets : h[x] = g[x] /\ h[x] \in Past(a)
        /\ h[last] = a /\ DOMAIN h = DOMAIN more
    BY <2>1
  <2>3. h \in [DOMAIN more -> Past(a + 1)]
    <3>1. \A x \in DOMAIN more : h[x] \in Past(a + 1)
      BY <1>1, <1>5, <2>1, <2>2
    <3>2. h = [x \in DOMAIN more |-> h[x]]
      OBVIOUS
    <3> HIDE DEF h, Past
    <3> QED BY <3>1, <3>2
  <2> HIDE DEF h
  <2>4. \A d \in DataSetInfos(r) : d < a + 1 => \E x \in DOMAIN more : h[x] = d
    BY <1>1, <1>3, <2>1, <2>2
  <2>5. \A x, y \in DOMAIN more : x < y => h[x] < h[y]
    BY <1>3, <2>1, <2>2
  <2>6. \A x \in DOMAIN more :
          /\ more[x].name = r.CollectedObjectInfo[h[x]].fullName
          /\ FilesBoth(r, models, more[x].listModels, more[x].singleModels, h[x],
                       Len(MembersIn(r, h[x])) + 1)
    BY <1>3, <2>1, <2>2
  <2> QED BY <2>1, <2>3, <2>4, <2>5, <2>6 DEF RegistryInv, Past, more
<1> QED BY <1>4, <1>5

\* Nothing is filed initially.
LEMMA FilingInit == Init => FilingInv
<1> SUFFICES ASSUME Init PROVE FilingInv
  OBVIOUS
<1>1. at = 1 /\ member = 0 /\ dataSetModels = << >> /\ status = "running" /\ result \in Results
  BY DEF Init
<1>2. RegistryInv(result, AllModels, << >>, 1)
  <2>1. \A d \in DataSetInfos(result) : ~(d < 1)
    BY <1>1, PlaceFacts
  <2>2. {d \in DataSetInfos(result) : d < 1} = {}
    BY <2>1
  <2>3. DOMAIN << >> = {} /\ [x \in {} |-> x] \in [{} -> {}] /\ << >> \in Seq(DataSetModels)
    OBVIOUS
  <2> QED BY <2>1, <2>2, <2>3 DEF RegistryInv
<1> QED BY <1>1, <1>2 DEF FilingInv

\* Every step files what it passes.
LEMMA FilingStep == AnalysisInv /\ FilingInv /\ [Next]_vars => FilingInv'
<1> SUFFICES ASSUME AnalysisInv, FilingInv, [Next]_vars PROVE FilingInv'
  OBVIOUS
<1>0. /\ result \in Results /\ at \in Nat /\ member \in Nat
      /\ AllModels \in Seq(StadModels)
      /\ listModels \in Seq(Nat) /\ singleModels \in Seq(Nat)
      /\ LoopInv(result, stack, at, member)
      /\ RegistryInv(result, AllModels, dataSetModels, at)
  <2>1. Len(Infos) \in Nat
    BY HelperTypes DEF AnalysisInv, ITypes
  <2>2. DOMAIN AllModels \subseteq Nat
    BY DEF AnalysisInv, ITypes, TypeOK
  <2>3. \A s \in Seq(DOMAIN AllModels) : s \in Seq(Nat)
    BY <2>2, SeqMonotonic
  <2> QED BY <2>1, <2>3 DEF AnalysisInv, ITypes, TypeOK, FilingInv
<1>1. CASE SkipInfo
  <2>1. /\ at' = at + 1 /\ at \notin DataSetInfos(result)
        /\ UNCHANGED <<result, AllModels, dataSetModels>>
        /\ status' = "running" /\ member' = 0
    BY <1>1 DEF SkipInfo, AtInfo, Running, DataSetInfos, Infos
  <2>2. RegistryInv(result, AllModels, dataSetModels, at + 1)
    BY <1>0, <2>1, RegistryGrows
  <2> QED BY <2>1, <2>2 DEF FilingInv
<1>2. CASE EnterDataSet
  <2>1. /\ at' = at /\ at \in DataSetInfos(result) /\ status' = "running" /\ member' = 1
        /\ UNCHANGED <<result, AllModels, dataSetModels>>
        /\ listModels' = << >> /\ singleModels' = << >>
    <3>1. at \in DOMAIN Infos
      <4>1. Infos \in Seq(ObjectSerializationInfo) /\ at <= Len(Infos) /\ at >= 1
        BY <1>2, HelperTypes DEF EnterDataSet, AtInfo, AnalysisInv, ITypes, TypeOK
      <4> QED BY <1>0, <4>1
    <3> QED BY <1>2, <3>1 DEF EnterDataSet, AtInfo, Running, DataSetInfos, Infos
  <2>2. FilesBoth(result, AllModels, << >>, << >>, at, 1)
    BY <1>0, <2>1, NoneFiled
  <2> QED BY <1>0, <2>1, <2>2 DEF FilingInv
<1>3. CASE IgnoreMember
  <2>1. /\ UNCHANGED <<result, at, AllModels, listModels, singleModels, dataSetModels>>
        /\ member' = member + 1 /\ member > 0 /\ status' = "running"
        /\ member <= Len(MembersIn(result, at))
        /\ IsIgnored(result, MembersIn(result, at)[member].type)
    BY <1>3 DEF IgnoreMember, AtMember, InDataSet, Running, MemberType, MembersIn, Infos, IsIgnored
  <2>2. at \in DataSetInfos(result) /\ member \in Nat \ {0}
    BY <1>0, <2>1 DEF LoopInv
  <2>3. FilesBoth(result, AllModels, listModels, singleModels, at, member + 1)
    BY <1>0, <2>1, <2>2, MemberFiled DEF FilingInv
  <2> QED BY <1>0, <2>1, <2>3 DEF FilingInv
<1>4. CASE FinishModel
  <2>1. PICK m : /\ m.type = Top.info.fullName
                 /\ AllModels' = Append(AllModels, m)
    BY <1>4 DEF FinishModel
  <2>2. /\ UNCHANGED <<result, at, dataSetModels>> /\ status' = "running" /\ stack # << >>
        /\ \/ Len(stack) > 1 /\ UNCHANGED <<member, listModels, singleModels>>
           \/ /\ Len(stack) = 1 /\ member' = member + 1
              /\ IF Top.info.fullName \in KeyValueCollections
                   THEN /\ listModels' = Append(listModels, Len(AllModels'))
                        /\ singleModels' = singleModels
                   ELSE /\ singleModels' = Append(singleModels, Len(AllModels'))
                        /\ listModels' = listModels
    BY <1>4 DEF FinishModel, InModel, Running
  <2>3. /\ KeepsTypes(AllModels, AllModels')
        /\ Len(AllModels') \in Nat /\ Len(AllModels') \in DOMAIN AllModels'
        /\ AllModels'[Len(AllModels')].type = Top.info.fullName
    <3>1. /\ DOMAIN AllModels' = 1..(Len(AllModels) + 1) /\ Len(AllModels) \in Nat
          /\ DOMAIN AllModels = 1..Len(AllModels)
          /\ AllModels'[Len(AllModels) + 1] = m
          /\ \A i \in 1..Len(AllModels) : AllModels'[i] = AllModels[i]
      BY <1>0, <2>1, MoreModels
    <3>2. Len(AllModels') = Len(AllModels) + 1
      <4> HIDE DEF StadModels
      <4> QED BY <1>0, <2>1
    <3>3. \A i \in 1..Len(AllModels) : i \in 1..(Len(AllModels) + 1)
      BY <3>1
    <3>4. Len(AllModels) + 1 \in 1..(Len(AllModels) + 1) /\ Len(AllModels) + 1 \in Nat
      BY <3>1
    <3> QED BY <2>1, <3>1, <3>2, <3>3, <3>4 DEF KeepsTypes
  <2>4. RegistryInv(result, AllModels', dataSetModels, at)
    BY <1>0, <2>3, FilesStay
  <2>5. /\ member > 0 /\ at \in DataSetInfos(result)
        /\ member <= Len(MembersIn(result, at))
        /\ stack[1].info.fullName = MembersIn(result, at)[member].type
        /\ MembersIn(result, at)[member].type \in ModelledTypes(result)
    BY <1>0, <2>2 DEF LoopInv
  <2>6. FilesBoth(result, AllModels', listModels, singleModels, at, member)
    BY <2>3, <2>5, FilesStay DEF FilingInv
  <2>7. CASE Len(stack) > 1 /\ UNCHANGED <<member, listModels, singleModels>>
    BY <2>2, <2>4, <2>6, <2>7 DEF FilingInv
  <2>8. CASE /\ Len(stack) = 1 /\ member' = member + 1
             /\ IF Top.info.fullName \in KeyValueCollections
                  THEN /\ listModels' = Append(listModels, Len(AllModels'))
                       /\ singleModels' = singleModels
                  ELSE /\ singleModels' = Append(singleModels, Len(AllModels'))
                       /\ listModels' = listModels
    <3>1. Top.info.fullName = MembersIn(result, at)[member].type
      BY <2>5, <2>8 DEF Top
    <3>2. ~IsIgnored(result, MembersIn(result, at)[member].type) /\ member \in Nat \ {0}
      BY <1>0, <2>5 DEF ModelledTypes
    <3>3. PICK p \in Nat : p = Len(AllModels')
      BY <2>3
    <3>4. p \in DOMAIN AllModels' /\ AllModels'[p].type = MembersIn(result, at)[member].type
      BY <2>3, <3>1, <3>3
    <3>5. IF MembersIn(result, at)[member].type \in KeyValueCollections
            THEN FilesBoth(result, AllModels', Append(listModels, p), singleModels, at, member + 1)
            ELSE FilesBoth(result, AllModels', listModels, Append(singleModels, p), at, member + 1)
      <4>1. PICK models : models = AllModels'
        OBVIOUS
      <4>2. FilesBoth(result, models, listModels, singleModels, at, member)
        BY <2>6, <4>1
      <4>3. p \in DOMAIN models /\ models[p].type = MembersIn(result, at)[member].type
        BY <3>4, <4>1
      <4> QED BY <1>0, <2>5, <3>2, <4>1, <4>2, <4>3, MemberFiled
    <3>6. FilesBoth(result, AllModels', listModels', singleModels', at, member + 1)
      BY <2>8, <3>1, <3>3, <3>5
    <3> QED BY <2>2, <2>4, <2>8, <3>6 DEF FilingInv
  <2> QED BY <2>2, <2>7, <2>8
<1>5. CASE LinkDataSet
  <2> DEFINE new == [name |-> Infos[at].fullName, listModels |-> listModels,
                     singleModels |-> singleModels]
  <2>1. /\ AllModels' = [i \in DOMAIN AllModels |-> Linked(AllModels, AllModels[i])]
        /\ dataSetModels' = Append(dataSetModels, new)
        /\ UNCHANGED result /\ at' = at + 1 /\ member' = 0 /\ status' = "running"
        /\ member > 0 /\ member > Len(MembersIn(result, at))
    BY <1>5 DEF LinkDataSet, InDataSet, Running, MembersIn, Infos
  <2>2. KeepsTypes(AllModels, AllModels')
    <3>1. \A i \in DOMAIN AllModels :
            i \in DOMAIN AllModels' /\ AllModels'[i] = Linked(AllModels, AllModels[i])
      <4> HIDE DEF Linked
      <4> QED BY <2>1
    <3>2. \A i \in DOMAIN AllModels : AllModels[i] \in StadModels
      <4> HIDE DEF StadModels
      <4> QED BY <1>0
    <3>3. \A i \in DOMAIN AllModels : Linked(AllModels, AllModels[i]).type = AllModels[i].type
      BY <1>0, <3>2, LinkedTypes
    <3> QED BY <3>1, <3>3 DEF KeepsTypes
  <2>3. at \in DataSetInfos(result) /\ member = Len(MembersIn(result, at)) + 1
    <3>1. at \in DataSetInfos(result) /\ member <= Len(MembersIn(result, at)) + 1
      BY <1>0, <2>1 DEF LoopInv
    <3>2. Len(MembersIn(result, at)) \in Nat
      BY <1>0, <3>1, PlaceFacts
    <3> QED BY <1>0, <2>1, <3>1, <3>2
  <2>4. FilesBoth(result, AllModels', listModels, singleModels, at, Len(MembersIn(result, at)) + 1)
    BY <2>1, <2>2, <2>3, FilesStay DEF FilingInv
  <2>5. new \in DataSetModels /\ new.name = result.CollectedObjectInfo[at].fullName
        /\ new.listModels = listModels /\ new.singleModels = singleModels
    <3>1. Infos[at].fullName \in Nat
      <4>1. Infos \in Seq(ObjectSerializationInfo) /\ at \in DOMAIN Infos
        BY <2>3, HelperTypes DEF AnalysisInv, ITypes, DataSetInfos, Infos
      <4>2. Infos[at] \in ObjectSerializationInfo
        <5> HIDE DEF ObjectSerializationInfo
        <5> QED BY <4>1
      <4> QED BY <4>2 DEF ObjectSerializationInfo
    <3> QED BY <1>0, <3>1 DEF DataSetModels, Infos
  <2> HIDE DEF new
  <2>6. RegistryInv(result, AllModels', dataSetModels, at)
    BY <1>0, <2>2, FilesStay
  <2>7. RegistryInv(result, AllModels', Append(dataSetModels, new), at + 1)
    <3>1. PICK models : models = AllModels'
      OBVIOUS
    <3>2. /\ RegistryInv(result, models, dataSetModels, at)
          /\ FilesBoth(result, models, new.listModels, new.singleModels, at,
                       Len(MembersIn(result, at)) + 1)
      BY <2>4, <2>5, <2>6, <3>1
    <3>3. RegistryInv(result, models, Append(dataSetModels, new), at + 1)
      BY <1>0, <2>3, <2>5, <3>2, RegistryGrows
    <3> QED BY <3>1, <3>3
  <2> QED BY <2>1, <2>7 DEF FilingInv
<1>6. CASE ReturnRegistry
  BY <1>6 DEF ReturnRegistry, loops, FilingInv, Infos
<1>7. CASE MakeMemberModel \/ DefineMember
  <2>1. /\ UNCHANGED <<result, at, member, AllModels, listModels, singleModels, dataSetModels>>
        /\ status' \in {status, "overflowed"} /\ status = "running"
    BY <1>7 DEF MakeMemberModel, AtMember, InDataSet, DefineMember, AtEachMember, InModel, Running,
                MakeStadModel
  <2>2. status' # "returned"
    BY <2>1
  <2> QED BY <2>1, <2>2 DEF FilingInv
<1>8. CASE MemberNotFound \/ MemberNotHandled \/ TypeNotHandled
  <2>1. /\ UNCHANGED <<result, at, member, AllModels, listModels, singleModels, dataSetModels>>
        /\ status' = "threw"
    BY <1>8 DEF MemberNotFound, MemberNotHandled, TypeNotHandled, Throw, loops
  <2> QED BY <2>1 DEF FilingInv
<1>9. CASE UNCHANGED vars
  BY <1>9 DEF vars, loops, FilingInv, Infos
<1> QED BY <1>1, <1>2, <1>3, <1>4, <1>5, <1>6, <1>7, <1>8, <1>9 DEF Next

\* For every collector result, what is passed is filed.
LEMMA Filing == Spec => []FilingInv
BY FilingInit, FilingStep, Analysis, PTL DEF Spec
=============================================================================
