------------------------- MODULE CompilationProofs -------------------------
(***************************************************************************)
(* Proofs about TypeCollectorForCompilation, for every compilation whose   *)
(* containers and base types are acyclic.                                  *)
(***************************************************************************)
EXTENDS TypeCollectorForCompilation, FiniteSetTheorems, SequenceTheorems,
        WellFoundedInduction, TLAPS

-----------------------------------------------------------------------------
(* The members of a type and of its base types.                            *)

(* Sets of naturals that hold 0 and, with a number, the next, hold all.    *)
LEMMA NatSetInduction ==
  ASSUME NEW P, 0 \in P, \A n \in Nat : n \in P => n + 1 \in P
  PROVE  Nat \subseteq P
<1> DEFINE M == {n \in Nat : n \notin P}
<1> SUFFICES ASSUME M # {} PROVE FALSE
  OBVIOUS
<1>1. PICK i \in M : \A j \in M : ~(<<j, i>> \in OpToRel(<, Nat))
  <2>1. M \subseteq Nat
    OBVIOUS
  <2> HIDE DEF M
  <2> QED BY <2>1, NatLessThanWellFounded, WFMin
<1>2. i - 1 \in Nat /\ i - 1 < i /\ i - 1 + 1 = i
  OBVIOUS
<1>3. i - 1 \notin M
  BY <1>1, <1>2 DEF OpToRel
<1> QED BY <1>2, <1>3

Inherits(all, members, above) ==
  all = [t \in Types |-> members[t] \o (IF above[t] = None THEN << >> ELSE all[above[t]])]

(* A base type has a lower rank, so the recursion of GetAllMembers has an  *)
(* answer: the function it defines exists.                                 *)
LEMMA AllMembersExist ==
  ASSUME NEW S, NEW above \in [Types -> Types \cup {None}], Acyclic(above),
         NEW members \in [Types -> Seq(S)]
  PROVE  \E all \in [Types -> Seq(S)] : Inherits(all, members, above)
<1>1. PICK rank \in [Types -> 1..Cardinality(Types)] :
        \A t \in Types : above[t] # None => rank[above[t]] < rank[t]
  BY DEF Acyclic
<1>2. PICK n \in Nat : n = Cardinality(Types)
  BY TypesAssumption, FS_CardinalityType
<1>3. \A t \in Types : rank[t] \in 1..n /\ rank[t] \in Nat
  BY <1>1, <1>2
<1> DEFINE Below(k) == {t \in Types : rank[t] <= k}
           IsSolution(f, k) ==
             \A t \in Below(k) :
               f[t] = members[t] \o (IF above[t] = None THEN << >> ELSE f[above[t]])
           P == {k \in Nat : \E f \in [Below(k) -> Seq(S)] : IsSolution(f, k)}
<1>4. 0 \in P
  <2>1. Below(0) = {}
    BY <1>3
  <2>2. [t \in {} |-> << >>] \in [Below(0) -> Seq(S)]
    BY <2>1
  <2> QED BY <2>1, <2>2
<1>5. ASSUME NEW k \in Nat, k \in P PROVE k + 1 \in P
  <2>1. PICK f \in [Below(k) -> Seq(S)] : IsSolution(f, k)
    BY <1>5
  <2> DEFINE rest(t) == IF above[t] = None THEN << >> ELSE f[above[t]]
             g == [t \in Below(k + 1) |-> IF t \in Below(k) THEN f[t] ELSE members[t] \o rest(t)]
  <2>2. \A t \in Below(k + 1) : above[t] # None => above[t] \in Below(k)
    <3> SUFFICES ASSUME NEW t \in Below(k + 1), above[t] # None PROVE above[t] \in Below(k)
      OBVIOUS
    <3>1. above[t] \in Types /\ rank[above[t]] < rank[t] /\ rank[t] <= k + 1
      BY <1>1
    <3>2. rank[above[t]] \in Nat /\ rank[t] \in Nat
      BY <1>3, <3>1
    <3> QED BY <3>1, <3>2
  <2>3. \A t \in Below(k + 1) : rest(t) \in Seq(S)
    BY <2>1, <2>2
  <2>4. Below(k) \subseteq Below(k + 1)
    BY <1>3
  <2>5. \A t \in Below(k + 1) : members[t] \o rest(t) \in Seq(S)
    <3> HIDE DEF rest
    <3> QED BY <2>3, ConcatProperties
  <2>6. g \in [Below(k + 1) -> Seq(S)]
    <3> HIDE DEF rest
    <3> QED BY <2>1, <2>5
  <2>7. \A t \in Below(k + 1) : g[t] = members[t] \o rest(t)
    <3> SUFFICES ASSUME NEW t \in Below(k + 1) PROVE g[t] = members[t] \o rest(t)
      OBVIOUS
    <3>1. CASE t \in Below(k)
      BY <2>1, <3>1
    <3>2. CASE t \notin Below(k)
      BY <3>2
    <3> QED BY <3>1, <3>2
  <2>8. \A t \in Below(k + 1) :
          rest(t) = IF above[t] = None THEN << >> ELSE g[above[t]]
    BY <2>2, <2>4
  <2>9. IsSolution(g, k + 1)
    <3> HIDE DEF rest, g
    <3> QED BY <2>7, <2>8
  <2>10. \E h \in [Below(k + 1) -> Seq(S)] : IsSolution(h, k + 1)
    <3> HIDE DEF g, IsSolution, Below
    <3> QED BY <2>6, <2>9
  <2>11. k + 1 \in Nat
    OBVIOUS
  <2> HIDE DEF g, IsSolution, Below
  <2> QED BY <2>10, <2>11
<1>6. n \in P
  <2> HIDE DEF P
  <2> QED BY <1>4, <1>5, NatSetInduction
<1>7. Below(n) = Types
  BY <1>3
<1>8. PICK all \in [Types -> Seq(S)] : IsSolution(all, n)
  BY <1>6, <1>7
<1>9. all = [t \in Types |-> all[t]]
  BY <1>8
<1>10. \A t \in Types :
         all[t] = members[t] \o (IF above[t] = None THEN << >> ELSE all[above[t]])
  BY <1>7, <1>8
<1>11. [t \in Types |-> all[t]]
         = [t \in Types |-> members[t] \o (IF above[t] = None THEN << >> ELSE all[above[t]])]
  BY <1>10
<1>12. Inherits(all, members, above)
  BY <1>9, <1>11 DEF Inherits
<1> QED BY <1>8, <1>12

(* GetAllMembers is a solution of its equation, and answers sequences.     *)
LEMMA AllMembersType ==
  ASSUME NEW S, NEW c \in Compilations, NEW members \in [Types -> Seq(S)], NEW t \in Types
  PROVE  GetAllMembers(c, members)[t] \in Seq(S)
<1>1. c.base \in [Types -> Types \cup {None}] /\ Acyclic(c.base)
  BY CompilationsAssumption DEF Compilation
<1>2. \E all : Inherits(all, members, c.base)
  BY <1>1, AllMembersExist
<1> DEFINE all == GetAllMembers(c, members)
<1>3. Inherits(all, members, c.base)
  <2>1. all = CHOOSE f : Inherits(f, members, c.base)
    BY DEF GetAllMembers, Inherits
  <2> HIDE DEF all
  <2> QED BY <1>2, <2>1
<1>4. all = [u \in Types |-> members[u] \o (IF c.base[u] = None THEN << >> ELSE all[c.base[u]])]
  BY <1>3 DEF Inherits
<1> HIDE DEF all
<1>5. PICK rank \in [Types -> 1..Cardinality(Types)] :
        \A u \in Types : c.base[u] # None => rank[c.base[u]] < rank[u]
  BY <1>1 DEF Acyclic
<1>6. Cardinality(Types) \in Nat
  BY TypesAssumption, FS_CardinalityType
<1>7. \A u \in Types : rank[u] \in Nat /\ rank[u] # 0
  BY <1>5, <1>6
<1> DEFINE P == {k \in Nat : \A u \in Types : rank[u] <= k => all[u] \in Seq(S)}
<1>8. 0 \in P
  BY <1>7
<1>9. ASSUME NEW k \in Nat, k \in P PROVE k + 1 \in P
  <2> SUFFICES ASSUME NEW u \in Types, rank[u] <= k + 1 PROVE all[u] \in Seq(S)
    OBVIOUS
  <2>1. CASE c.base[u] = None
    <3>1. all[u] = members[u] \o << >> /\ << >> \in Seq(S)
      BY <1>4, <2>1
    <3> QED BY <3>1, ConcatProperties
  <2>2. CASE c.base[u] # None
    <3>1. c.base[u] \in Types /\ all[u] = members[u] \o all[c.base[u]]
      BY <1>1, <1>4, <2>2
    <3>2. rank[c.base[u]] <= k
      <4>1. rank[c.base[u]] < rank[u] /\ rank[c.base[u]] \in Nat /\ rank[u] \in Nat
        BY <1>5, <1>7, <2>2, <3>1
      <4> QED BY <4>1
    <3>3. all[c.base[u]] \in Seq(S)
      BY <1>9, <3>1, <3>2
    <3> QED BY <3>1, <3>3, ConcatProperties
  <2> QED BY <2>1, <2>2
<1>10. rank[t] \in P
  <2>1. Nat \subseteq P
    <3> HIDE DEF P
    <3> QED BY <1>8, <1>9, NatSetInduction
  <2> QED BY <1>7, <2>1
<1>11. all[t] \in Seq(S)
  BY <1>7, <1>10
<1> QED BY <1>11 DEF all

-----------------------------------------------------------------------------
(* The targets are public types.                                           *)

IsSelection(f, n, add) == f = [k \in 0..n |-> IF k = 0 THEN << >> ELSE f[k - 1] \o add[k]]

LEMMA SelectionExists ==
  ASSUME NEW S, NEW n \in Nat, NEW add \in [1..n -> Seq(S)]
  PROVE  \E f : IsSelection(f, n, add)
<1> DEFINE IsStart(f, m) == \A k \in 0..m : f[k] = IF k = 0 THEN << >> ELSE f[k - 1] \o add[k]
           P == {m \in Nat : \E f : f = [k \in 0..m |-> f[k]] /\ IsStart(f, m)}
<1>1. 0 \in P
  <2>1. PICK f : f = [k \in 0..0 |-> << >>]
    OBVIOUS
  <2>2. f = [k \in 0..0 |-> f[k]] /\ IsStart(f, 0)
    BY <2>1
  <2> HIDE DEF IsStart
  <2> QED BY <2>2
<1>2. ASSUME NEW m \in Nat, m \in P PROVE m + 1 \in P
  <2>1. PICK f : IsStart(f, m)
    BY <1>2
  <2>2. PICK g : g = [k \in 0..m + 1 |-> IF k \in 0..m THEN f[k] ELSE f[m] \o add[m + 1]]
    OBVIOUS
  <2>3. g = [k \in 0..m + 1 |-> g[k]]
    BY <2>2
  <2>4. IsStart(g, m + 1)
    <3> SUFFICES ASSUME NEW k \in 0..m + 1
                 PROVE  g[k] = IF k = 0 THEN << >> ELSE g[k - 1] \o add[k]
      OBVIOUS
    <3>1. CASE k \in 0..m
      <4>1. g[k] = f[k] /\ (k # 0 => k - 1 \in 0..m /\ k - 1 \in 0..m + 1)
        BY <2>2, <3>1
      <4>2. k # 0 => g[k - 1] = f[k - 1]
        BY <2>2, <4>1
      <4> QED BY <2>1, <3>1, <4>1, <4>2
    <3>2. CASE k = m + 1
      <4>1. k # 0 /\ k - 1 = m /\ m \in 0..m /\ m \in 0..m + 1 /\ k \notin 0..m
        BY <3>2
      <4>2. g[k] = f[m] \o add[m + 1] /\ g[m] = f[m]
        BY <2>2, <4>1
      <4> QED BY <3>2, <4>1, <4>2
    <3> QED BY <3>1, <3>2
  <2>5. m + 1 \in Nat
    OBVIOUS
  <2> HIDE DEF IsStart
  <2> QED BY <2>3, <2>4, <2>5
<1>3. n \in P
  <2> HIDE DEF P
  <2> QED BY <1>1, <1>2, NatSetInduction
<1>4. PICK f : f = [k \in 0..n |-> f[k]] /\ IsStart(f, n)
  BY <1>3
<1>5. [k \in 0..n |-> f[k]] = [k \in 0..n |-> IF k = 0 THEN << >> ELSE f[k - 1] \o add[k]]
  BY <1>4
<1> QED BY <1>4, <1>5 DEF IsSelection

LEMMA SelectionType ==
  ASSUME NEW S, NEW n \in Nat, NEW add \in [1..n -> Seq(S)], NEW f, IsSelection(f, n, add)
  PROVE  f[n] \in Seq(S)
<1> DEFINE P == {m \in Nat : m <= n => f[m] \in Seq(S)}
<1>1. \A k \in 0..n : f[k] = IF k = 0 THEN << >> ELSE f[k - 1] \o add[k]
  BY DEF IsSelection
<1>2. 0 \in P
  <2>1. 0 \in 0..n /\ << >> \in Seq(S)
    OBVIOUS
  <2>2. f[0] = << >>
    BY <1>1, <2>1
  <2> QED BY <2>1, <2>2
<1>3. ASSUME NEW m \in Nat, m \in P PROVE m + 1 \in P
  <2> SUFFICES ASSUME m + 1 <= n PROVE f[m + 1] \in Seq(S)
    OBVIOUS
  <2>1. f[m] \in Seq(S) /\ add[m + 1] \in Seq(S)
    BY <1>3
  <2>2. f[m + 1] = f[m] \o add[m + 1]
    <3>1. m + 1 \in 0..n /\ m + 1 # 0 /\ m + 1 - 1 = m
      OBVIOUS
    <3>2. PICK k \in 0..n : k = m + 1
      BY <3>1
    <3>3. f[k] = f[k - 1] \o add[k]
      BY <1>1, <3>1, <3>2
    <3>4. k - 1 = m
      BY <3>2
    <3> QED BY <3>2, <3>3, <3>4, Zenon
  <2> QED BY <2>1, <2>2, ConcatProperties
<1>4. n \in P
  <2> HIDE DEF P
  <2> QED BY <1>2, <1>3, NatSetInduction
<1> QED BY <1>4

LEMMA TargetsType ==
  ASSUME NEW c \in Compilation
  PROVE  TargetTypes(c) \in Seq({t \in Types : c.public[t]})
<1> DEFINE n == Len(c.declared)
           S == {t \in Types : c.public[t]}
           add == [k \in 1..n |-> IF c.public[c.declared[k]] THEN <<c.declared[k]>> ELSE << >>]
<1>1. c.declared \in Seq(Types) /\ n \in Nat
  BY LenProperties DEF Compilation
<1>2. add \in [1..n -> Seq(S)]
  <2> SUFFICES ASSUME NEW k \in 1..n
               PROVE  (IF c.public[c.declared[k]] THEN <<c.declared[k]>> ELSE << >>) \in Seq(S)
    OBVIOUS
  <2>1. c.declared[k] \in Types /\ << >> \in Seq(S)
    BY <1>1, ElementOfSeq
  <2>2. c.public[c.declared[k]] => <<c.declared[k]>> \in Seq(S)
    <3> SUFFICES ASSUME c.public[c.declared[k]] PROVE <<c.declared[k]>> \in Seq(S)
      OBVIOUS
    <3>1. c.declared[k] \in S
      BY <2>1
    <3> HIDE DEF S
    <3> QED BY <3>1
  <2> HIDE DEF S
  <2> QED BY <2>1, <2>2
<1>3. TargetTypes(c) = (CHOOSE f : IsSelection(f, n, add))[n]
  <2>1. \A f : IsSelection(f, n, add)
          <=> f = [k \in 0..n |-> IF k = 0 THEN << >>
                    ELSE f[k - 1] \o (IF c.public[c.declared[k]] THEN <<c.declared[k]>> ELSE << >>)]
    <3>1. \A k \in 0..n : k # 0 =>
            add[k] = IF c.public[c.declared[k]] THEN <<c.declared[k]>> ELSE << >>
      BY <1>1
    <3> HIDE DEF add
    <3> QED BY <3>1 DEF IsSelection
  <2> QED BY <2>1 DEF TargetTypes
<1> HIDE DEF n, S, add
<1>4. IsSelection(CHOOSE f : IsSelection(f, n, add), n, add)
  BY <1>1, <1>2, SelectionExists
<1>5. TargetTypes(c) \in Seq(S)
  BY <1>1, <1>2, <1>3, <1>4, SelectionType
<1> QED BY <1>5 DEF S

-----------------------------------------------------------------------------
(* Types.                                                                  *)

(* TypeOK, for one of the compilations there are.                          *)
Typed == comp \in Compilations /\ TypeOK

UseRecords ==
  {u \in [via : {"argument", "property", "field"}, type : Types, readable : BOOLEAN,
          writable : BOOLEAN, name : Names \cup {None}, attributes : Nat \cup {None}] :
     u.via # "argument" => u.name \in Names}

(* The uses of a type are in a set when what it is made of is.             *)
LEMMA UsesIn ==
  ASSUME NEW c \in Compilations, NEW t \in Types, NEW S,
         \A u \in Types : ArgumentUse(u) \in S,
         \A p \in PropertySymbol : PropertyUse(c, p) \in S,
         \A f \in FieldSymbol : FieldUse(f) \in S
  PROVE  Uses(c, t) \in Seq(S)
<1> DEFINE properties == GetAllMembers(c, c.properties)[t]
           fields == GetAllMembers(c, c.fields)[t]
           A1 == IF c.shape[t] = "generic"
                   THEN [i \in 1..Len(c.arguments[t]) |-> ArgumentUse(c.arguments[t][i])]
                   ELSE << >>
           P1 == [i \in 1..Len(properties) |-> PropertyUse(c, properties[i])]
           F1 == [i \in 1..Len(fields) |-> FieldUse(fields[i])]
<1>1. c \in Compilation
  BY CompilationsAssumption
<1>2. /\ c.arguments[t] \in Seq(Types)
      /\ c.properties \in [Types -> Seq(PropertySymbol)]
      /\ c.fields \in [Types -> Seq(FieldSymbol)]
  BY <1>1 DEF Compilation
<1>3. properties \in Seq(PropertySymbol) /\ fields \in Seq(FieldSymbol)
  BY <1>2, AllMembersType
<1>4. Uses(c, t) = A1 \o P1 \o F1
  BY DEF Uses
<1> HIDE DEF properties, fields
<1>5. /\ \A i \in 1..Len(c.arguments[t]) : c.arguments[t][i] \in Types
      /\ \A i \in 1..Len(properties) : properties[i] \in PropertySymbol
      /\ \A i \in 1..Len(fields) : fields[i] \in FieldSymbol
  BY <1>2, <1>3, ElementOfSeq
<1>6. /\ Len(c.arguments[t]) \in Nat
      /\ Len(properties) \in Nat
      /\ Len(fields) \in Nat
  BY <1>2, <1>3, LenProperties
<1>7. A1 \in Seq(S)
  BY <1>5, <1>6
<1>8. P1 \in Seq(S)
  BY <1>5, <1>6
<1>9. F1 \in Seq(S)
  BY <1>5, <1>6
<1> HIDE DEF A1, P1, F1
<1> QED BY <1>4, <1>7, <1>8, <1>9, ConcatProperties

(* The uses of a type are well-formed records, and a type argument is      *)
(* always collected: the test of members is not for it.                    *)
LEMMA UsesType ==
  ASSUME NEW c \in Compilations, NEW t \in Types
  PROVE  /\ Uses(c, t) \in Seq(UseRecords)
         /\ \A i \in DOMAIN Uses(c, t) :
              Uses(c, t)[i].via = "argument"
                => IsIncluded(Uses(c, t)[i]) /\ Uses(c, t)[i].attributes = None
<1> DEFINE Good == {u \in UseRecords :
                      u.via = "argument" => IsIncluded(u) /\ u.attributes = None}
<1>1. \A u \in Types : ArgumentUse(u) \in Good
  BY DEF ArgumentUse, UseRecords, IsIncluded
<1>2. \A p \in PropertySymbol : PropertyUse(c, p) \in Good
  <2> SUFFICES ASSUME NEW p \in PropertySymbol PROVE PropertyUse(c, p) \in Good
    OBVIOUS
  <2>1. c.attributes[p.type] \in Nat
    BY CompilationsAssumption DEF Compilation, PropertySymbol
  <2> QED BY <2>1 DEF PropertyUse, PropertySymbol, UseRecords
<1>3. \A f \in FieldSymbol : FieldUse(f) \in Good
  BY DEF FieldUse, FieldSymbol, UseRecords
<1>4. Uses(c, t) \in Seq(Good)
  <2> HIDE DEF Good
  <2> QED BY <1>1, <1>2, <1>3, UsesIn
<1>5. \A i \in DOMAIN Uses(c, t) : Uses(c, t)[i] \in Good
  <2> HIDE DEF Good
  <2> QED BY <1>4, ElementOfSeq, LenProperties
<1>6. Uses(c, t) \in Seq(UseRecords)
  <2>1. Good \subseteq UseRecords
    OBVIOUS
  <2> HIDE DEF Good
  <2> QED BY <1>4, <2>1, SeqMonotonic
<1> QED BY <1>5, <1>6

(* The stack is the frames of the callers and the innermost frame.         *)
LEMMA TopType ==
  ASSUME Typed, stack # << >>
  PROVE  /\ Top \in Frames
         /\ Callers \in Seq(Frames)
         /\ Len(Callers) = Len(stack) - 1
         /\ \A i \in 1..Len(Callers) : Callers[i] = stack[i]
         /\ Len(stack) \in 1..Len(stack)
<1>1. stack \in Seq(Frames) /\ Len(stack) \in Nat /\ Len(stack) # 0
  BY EmptySeq, LenProperties DEF Typed, TypeOK
<1>2. Len(stack) \in 1..Len(stack)
  BY <1>1
<1>3. Top \in Frames
  BY <1>1, <1>2, ElementOfSeq DEF Top
<1>4. /\ Callers \in Seq(Frames)
      /\ Len(Callers) = Len(stack) - 1
      /\ \A i \in 1..Len(Callers) : Callers[i] = stack[i]
  <2> DEFINE n == Len(stack) - 1
  <2>1. n \in Nat /\ n \in Int /\ 1 \in Int
    BY <1>1
  <2>2. \A i \in 1..n : stack[i] \in Frames
    BY <1>1, <2>1, ElementOfSeq
  <2>3. /\ SubSeq(stack, 1, n) \in Seq(Frames)
        /\ Len(SubSeq(stack, 1, n)) = IF 1 <= n THEN n - 1 + 1 ELSE 0
        /\ \A i \in 1..n - 1 + 1 : SubSeq(stack, 1, n)[i] = stack[1 + i - 1]
    <3> HIDE DEF n
    <3> QED BY <2>1, <2>2, SubSeqProperties
  <2>4. /\ n - 1 + 1 = n
        /\ (IF 1 <= n THEN n - 1 + 1 ELSE 0) = n
        /\ \A i \in 1..n : 1 + i - 1 = i
    <3> HIDE DEF n
    <3> QED BY <2>1
  <2> QED BY <2>3, <2>4 DEF Callers
<1> QED BY <1>2, <1>3, <1>4

(* What the innermost frame meets next, and that frame one turn later.     *)
LEMMA TopUseType ==
  ASSUME Typed, InUse, NEW members \in Seq(Members)
  PROVE  /\ Top \in Frames
         /\ TopUse \in UseRecords
         /\ TopUse.via = "argument" => IsIncluded(TopUse) /\ IsReadable(comp, TopUse)
         /\ Advanced(members) \in Seq(Frames)
         /\ Uses(comp, Top.type) \in Seq(UseRecords)
         /\ Top.next \in DOMAIN Uses(comp, Top.type)
<1>1. Top \in Frames /\ Callers \in Seq(Frames)
  BY TopType DEF InUse
<1>2. /\ Uses(comp, Top.type) \in Seq(UseRecords)
      /\ \A i \in DOMAIN Uses(comp, Top.type) :
           Uses(comp, Top.type)[i].via = "argument"
             => IsIncluded(Uses(comp, Top.type)[i]) /\ IsReadable(comp, Uses(comp, Top.type)[i])
  BY <1>1, UsesType DEF Typed, Frames, IsReadable
<1>3. Top.next \in 1..Len(Uses(comp, Top.type))
  BY <1>1, <1>2 DEF InUse, Frames
<1>4. [type |-> Top.type, next |-> Top.next + 1, members |-> members] \in Frames
  BY <1>1 DEF Frames
<1>5. Advanced(members) \in Seq(Frames)
  BY <1>1, <1>4, AppendProperties DEF Advanced
<1>6. Top.next \in DOMAIN Uses(comp, Top.type)
  BY <1>2, <1>3, LenProperties
<1> QED BY <1>1, <1>2, <1>3, <1>5, <1>6, ElementOfSeq DEF TopUse

LEMMA MemberType ==
  ASSUME NEW c \in Compilation, NEW u \in UseRecords, u.via # "argument"
  PROVE  MemberSerializationInfo(c, u) \in Members
<1>1. u.type \in Types /\ u.name \in Names /\ u.attributes \in Nat \cup {None}
  BY DEF UseRecords
<1>2. c.fullName[u.type] \in Nat
  BY <1>1 DEF Compilation
<1> QED BY <1>1, <1>2 DEF MemberSerializationInfo, Members

LEMMA TargetType ==
  ASSUME Typed
  PROVE  /\ TargetTypes(comp) \in Seq(Types)
         /\ DOMAIN TargetTypes(comp) = 1..Len(TargetTypes(comp))
         /\ Len(TargetTypes(comp)) \in Nat
         /\ \A i \in 1..Len(TargetTypes(comp)) : TargetTypes(comp)[i] \in Types
         /\ target \in Nat \ {0}
<1>1. TargetTypes(comp) \in Seq(Types)
  <2>1. TargetTypes(comp) \in Seq({t \in Types : comp.public[t]})
    BY TargetsType DEF Typed, TypeOK
  <2>2. {t \in Types : comp.public[t]} \subseteq Types
    OBVIOUS
  <2> QED BY <2>1, <2>2, SeqMonotonic
<1> QED BY <1>1, LenProperties, ElementOfSeq DEF Typed, TypeOK

(* A throw ends the walk: nothing is open then, and at most the type        *)
(* CollectCore was called with has been marked.                            *)
LEMMA ThrowEffect ==
  ASSUME Throw
  PROVE  /\ phase = "walking" /\ phase' = "threw" /\ stack' = << >>
         /\ UNCHANGED <<comp, target, collectedObjectInfo, collectedEnumInfo,
                        collectedClosedTypeGenericInfo, result>>
         /\ \/ alreadyCollected' = alreadyCollected
            \/ \E t \in Types : Calls(t) /\ alreadyCollected' = alreadyCollected \cup {t}
BY DEF Throw, EnumThrows, MemberThrows, InfoThrows, Unwind, InUse

(* CollectCore leaves the workspace well formed.                           *)
LEMMA CollectCoreType ==
  ASSUME Typed, NEW t \in Types, NEW callers \in Seq(Frames), CollectCore(t, callers)
  PROVE  /\ stack' \in Seq(Frames)
         /\ alreadyCollected' \subseteq Types
         /\ collectedEnumInfo' \in Seq(EnumInfos)
<1>1. [type |-> t, next |-> 1, members |-> << >>] \in Frames
  BY DEF Frames
<1>2. EnumSerializationInfo(comp, t) \in EnumInfos
  BY DEF EnumSerializationInfo, EnumInfos, Typed, TypeOK, Compilation
<1>3. /\ Append(callers, [type |-> t, next |-> 1, members |-> << >>]) \in Seq(Frames)
      /\ Append(collectedEnumInfo, EnumSerializationInfo(comp, t)) \in Seq(EnumInfos)
  BY <1>1, <1>2, AppendProperties DEF Typed, TypeOK
<1> QED BY <1>3 DEF CollectCore, Typed, TypeOK

Sorted == INSTANCE TypeCollectorProofs WITH
  Attributes <- {}, Throwing <- {}, Unset <- None, Assemblies <- {}, MaxCollects <- 0,
  asm <- comp, results <- << >>

(* OrderByFullName permutes a list of descriptions.                        *)
LEMMA OrderFacts ==
  ASSUME NEW S, \A e \in S : e.fullName \in Nat, NEW s \in Seq(S)
  PROVE  /\ OrderByFullName(s) \in Seq(S)
         /\ ElementsOf(OrderByFullName(s)) = ElementsOf(s)
<1>1. {} \subseteq Sorted!Assembly /\ 0 \in Nat
  OBVIOUS
<1>2. /\ Sorted!OrderByFullName(s) \in Seq(S)
      /\ Sorted!ElementsOf(Sorted!OrderByFullName(s)) = Sorted!ElementsOf(s)
  BY <1>1, Sorted!OrderFacts
<1>3. Sorted!OrderByFullName(s) = OrderByFullName(s)
  BY DEF OrderByFullName, Precedes, Cardinality, Sorted!OrderByFullName, Sorted!Precedes,
         Sorted!Cardinality
<1>4. \A q : Sorted!ElementsOf(q) = ElementsOf(q)
  BY DEF ElementsOf, Sorted!ElementsOf
<1> QED BY <1>2, <1>3, <1>4

(* Typed holds initially and every step preserves it.                      *)
LEMMA TypedInit == Init => Typed
<1> SUFFICES ASSUME Init PROVE Typed
  OBVIOUS
<1>1. comp \in Compilations /\ comp \in Compilation
  BY CompilationsAssumption DEF Init
<1> QED BY <1>1 DEF Init, Typed, TypeOK

LEMMA TypedStep == Typed /\ [Next]_vars => Typed'
<1> SUFFICES ASSUME Typed, [Next]_vars PROVE Typed'
  OBVIOUS
<1>1. CASE Collect
  BY <1>1 DEF Typed, TypeOK, Collect
<1>2. CASE CollectTarget
  <2>1. TargetTypes(comp)[target] \in Types /\ target + 1 \in Nat \ {0}
    BY <1>2, TargetType DEF CollectTarget
  <2>2. << >> \in Seq(Frames)
    OBVIOUS
  <2>3. /\ stack' \in Seq(Frames)
        /\ alreadyCollected' \subseteq Types
        /\ collectedEnumInfo' \in Seq(EnumInfos)
    BY <1>2, <2>1, <2>2, CollectCoreType DEF CollectTarget
  <2> QED BY <1>2, <2>1, <2>3 DEF CollectTarget, Typed, TypeOK
<1>3. CASE CollectArgument
  <2>1. TopUse \in UseRecords /\ Advanced(Top.members) \in Seq(Frames)
    BY <1>3, TopType, TopUseType DEF CollectArgument, InUse, Frames
  <2>2. /\ stack' \in Seq(Frames)
        /\ alreadyCollected' \subseteq Types
        /\ collectedEnumInfo' \in Seq(EnumInfos)
    BY <1>3, <2>1, CollectCoreType DEF CollectArgument, UseRecords
  <2> QED BY <1>3, <2>2 DEF CollectArgument, Typed, TypeOK
<1>4. CASE SkipMember
  <2>1. Advanced(Top.members) \in Seq(Frames)
    BY <1>4, TopType, TopUseType DEF SkipMember, InUse, Frames
  <2> QED BY <1>4, <2>1 DEF SkipMember, Typed, TypeOK, workspace
<1>5. CASE CollectMember
  <2>1. Top.members \in Seq(Members)
    BY <1>5, TopType DEF CollectMember, InUse, Frames
  <2>2. TopUse \in UseRecords /\ TopUse.via # "argument"
    BY <1>5, <2>1, TopUseType DEF CollectMember
  <2>3. Append(Top.members, MemberSerializationInfo(comp, TopUse)) \in Seq(Members)
    BY <2>1, <2>2, MemberType, AppendProperties DEF Typed, TypeOK
  <2>4. Advanced(Append(Top.members, MemberSerializationInfo(comp, TopUse))) \in Seq(Frames)
    BY <1>5, <2>3, TopUseType DEF CollectMember
  <2>5. /\ stack' \in Seq(Frames)
        /\ alreadyCollected' \subseteq Types
        /\ collectedEnumInfo' \in Seq(EnumInfos)
    BY <1>5, <2>2, <2>4, CollectCoreType DEF CollectMember, UseRecords
  <2> QED BY <1>5, <2>5 DEF CollectMember, Typed, TypeOK
<1>6. CASE FinishType
  <2> DEFINE info == ObjectSerializationInfo(comp, Top.type, Top.members)
  <2>1. Top \in Frames /\ Callers \in Seq(Frames)
    BY <1>6, TopType DEF FinishType
  <2>2. info \in ObjectInfos
    BY <2>1 DEF ObjectSerializationInfo, ObjectInfos, Frames, Typed, TypeOK, Compilation
  <2>3. /\ Append(collectedObjectInfo, info) \in Seq(ObjectInfos)
        /\ Append(collectedClosedTypeGenericInfo, info) \in Seq(ObjectInfos)
    BY <2>2, AppendProperties DEF Typed, TypeOK
  <2>4. /\ collectedObjectInfo' \in Seq(ObjectInfos)
        /\ collectedClosedTypeGenericInfo' \in Seq(ObjectInfos)
    BY <1>6, <2>3 DEF FinishType, Typed, TypeOK
  <2> QED BY <1>6, <2>1, <2>4 DEF FinishType, Typed, TypeOK
<1>7. CASE ReturnResult
  <2>1. /\ OrderByFullName(collectedObjectInfo) \in Seq(ObjectInfos)
        /\ OrderByFullName(collectedEnumInfo) \in Seq(EnumInfos)
        /\ OrderByFullName(collectedClosedTypeGenericInfo) \in Seq(ObjectInfos)
    <3>1. /\ \A i \in ObjectInfos : i.fullName \in Nat
          /\ \A i \in EnumInfos : i.fullName \in Nat
      BY DEF ObjectInfos, EnumInfos
    <3> QED BY <3>1, OrderFacts DEF Typed, TypeOK
  <2>2. result' \in Results
    BY <1>7, <2>1 DEF ReturnResult, Results
  <2> QED BY <1>7, <2>2 DEF ReturnResult, Typed, TypeOK, workspace
<1>8. CASE Throw
  BY <1>8, ThrowEffect DEF Typed, TypeOK
<1>9. CASE UNCHANGED vars
  BY <1>9 DEF Typed, TypeOK, vars, workspace
<1> QED BY <1>1, <1>2, <1>3, <1>4, <1>5, <1>6, <1>7, <1>8, <1>9 DEF Next, Walk

(* The workspace, the recursion, the loop of Collect and its result keep   *)
(* their types in every compilation, after any number of steps.            *)
THEOREM TypeCorrect == Spec => []TypeOK
<1>1. Typed => TypeOK
  BY DEF Typed
<1> QED BY <1>1, TypedInit, TypedStep, PTL DEF Spec

-----------------------------------------------------------------------------
(* The walk implements the abstract collection.                            *)

(* A frame belongs to a type that is known and described, and what its     *)
(* loop has passed could be read and is known.                             *)
HasMet(f, known) ==
  /\ f.type \in known
  /\ IsDescribed(comp, f.type) /\ comp.shape[f.type] # "enum"
  /\ \A j \in DOMAIN Uses(comp, f.type) :
       j < f.next => /\ IsReadable(comp, Uses(comp, f.type)[j])
                     /\ IsIncluded(Uses(comp, f.type)[j]) => Uses(comp, f.type)[j].type \in known

FramesHaveMet == \A i \in DOMAIN stack : HasMet(stack[i], alreadyCollected)
(* t is dropped, or its description is finished.                           *)
IsFinished(t) ==
  /\ UsedTypes(comp, t) \subseteq alreadyCollected
  /\ IsDescribed(comp, t) => IsDescribable(comp, t)

FinishedOrOpen ==
  phase # "threw" =>
    \A t \in alreadyCollected : IsFinished(t) \/ \E i \in DOMAIN stack : stack[i].type = t
ThrownOverCollected ==
  phase = "threw" =>
    \E t \in alreadyCollected : IsDescribed(comp, t) /\ ~IsDescribable(comp, t)
TargetsMet ==
  \A k \in DOMAIN TargetTypes(comp) : k < target => TargetTypes(comp)[k] \in alreadyCollected
WalkOver ==
  /\ phase # "walking" => stack = << >>
  /\ phase = "returned" => target > Len(TargetTypes(comp))

WalkInv ==
  /\ FramesHaveMet /\ FinishedOrOpen /\ ThrownOverCollected /\ TargetsMet /\ WalkOver

(* What a call of CollectCore does to the set of types and to the stack.   *)
LEMMA CollectCoreEffect ==
  ASSUME NEW t, NEW callers, CollectCore(t, callers)
  PROVE  /\ alreadyCollected' = alreadyCollected \cup {t}
         /\ \/ /\ stack' = callers
               /\ \/ t \in alreadyCollected
                  \/ ~IsDescribed(comp, t)
                  \/ comp.shape[t] = "enum" /\ Converts(comp, t)
            \/ /\ stack' = Append(callers, [type |-> t, next |-> 1, members |-> << >>])
               /\ IsDescribed(comp, t) /\ comp.shape[t] # "enum"
BY DEF CollectCore

(* A call of CollectCore keeps the frames in order when those of the       *)
(* callers are.                                                            *)
LEMMA CollectCoreKeepsInv ==
  ASSUME Typed, FinishedOrOpen, comp' = comp, phase = "walking",
         NEW t \in Types, NEW callers \in Seq(Frames), CollectCore(t, callers),
         \A i \in DOMAIN callers : HasMet(callers[i], alreadyCollected \cup {t}),
         \A i \in DOMAIN stack : \E k \in DOMAIN callers : callers[k].type = stack[i].type
  PROVE  FramesHaveMet' /\ FinishedOrOpen'
<1> DEFINE frame == [type |-> t, next |-> 1, members |-> << >>]
<1>1. /\ alreadyCollected' = alreadyCollected \cup {t}
      /\ \/ /\ stack' = callers
            /\ \/ t \in alreadyCollected
               \/ ~IsDescribed(comp, t)
               \/ comp.shape[t] = "enum" /\ Converts(comp, t)
         \/ /\ stack' = Append(callers, frame)
            /\ IsDescribed(comp, t) /\ comp.shape[t] # "enum"
  BY CollectCoreEffect
<1>2. frame \in Frames
  BY DEF Frames
<1>3. /\ Append(callers, frame) \in Seq(Frames)
      /\ Len(Append(callers, frame)) = Len(callers) + 1
      /\ \A i \in 1..Len(callers) : Append(callers, frame)[i] = callers[i]
      /\ Append(callers, frame)[Len(callers) + 1] = frame
      /\ DOMAIN Append(callers, frame) = 1..Len(callers) + 1
      /\ DOMAIN callers = 1..Len(callers)
      /\ Len(callers) \in Nat
  BY <1>2, AppendProperties, LenProperties
<1>4. \A i \in DOMAIN callers :
        \E k \in DOMAIN stack' : stack'[k] = callers[i]
  <2> SUFFICES ASSUME NEW i \in DOMAIN callers
               PROVE  \E k \in DOMAIN stack' : stack'[k] = callers[i]
    OBVIOUS
  <2> HIDE DEF frame
  <2>1. CASE stack' = callers
    BY <2>1
  <2>2. CASE stack' = Append(callers, frame)
    <3>1. i \in DOMAIN stack' /\ stack'[i] = callers[i]
      BY <1>3, <2>2
    <3> QED BY <3>1
  <2> QED BY <1>1, <2>1, <2>2
<1>6. FramesHaveMet'
  <2>1. \A f : HasMet(f, alreadyCollected)' <=> HasMet(f, alreadyCollected \cup {t})
    BY <1>1 DEF HasMet, IsReadable, Converts
  <2>2. \/ HasMet(frame, alreadyCollected \cup {t})
        \/ ~IsDescribed(comp, t) \/ comp.shape[t] = "enum"
    <3>1. \A j \in DOMAIN Uses(comp, t) : ~(j < 1)
      BY UsesType, LenProperties DEF Typed, TypeOK
    <3>2. frame.type = t /\ frame.next = 1
      OBVIOUS
    <3> HIDE DEF frame
    <3> QED BY <3>1, <3>2 DEF HasMet
  <2>3. CASE stack' = callers
    BY <2>1, <2>3 DEF FramesHaveMet
  <2>4. CASE /\ stack' = Append(callers, frame)
             /\ IsDescribed(comp, t) /\ comp.shape[t] # "enum"
    <3> SUFFICES ASSUME NEW i \in DOMAIN stack' PROVE HasMet(stack'[i], alreadyCollected \cup {t})
      BY <2>1 DEF FramesHaveMet
    <3>1. i \in DOMAIN callers \/ i = Len(callers) + 1
      <4> HIDE DEF frame
      <4> QED BY <1>3, <2>4
    <3>2. CASE i \in DOMAIN callers
      <4>1. stack'[i] = callers[i]
        BY <1>3, <2>4, <3>2
      <4> QED BY <3>2, <4>1
    <3>3. CASE i = Len(callers) + 1
      <4>1. stack'[i] = frame
        BY <1>3, <2>4, <3>3
      <4> QED BY <2>2, <2>4, <4>1
    <3> QED BY <3>1, <3>2, <3>3
  <2> QED BY <1>1, <2>3, <2>4
<1>7. FinishedOrOpen'
  <2>0. \A u : IsFinished(u)' <=> /\ UsedTypes(comp, u) \subseteq alreadyCollected'
                                  /\ IsDescribed(comp, u) => IsDescribable(comp, u)
    BY DEF IsFinished, UsedTypes, IsDescribed, IsDescribable
  <2> SUFFICES ASSUME NEW u \in alreadyCollected'
               PROVE  \/ /\ UsedTypes(comp, u) \subseteq alreadyCollected'
                         /\ IsDescribed(comp, u) => IsDescribable(comp, u)
                      \/ \E k \in DOMAIN stack' : stack'[k].type = u
    BY <2>0 DEF FinishedOrOpen
  <2>1. CASE u \in alreadyCollected
    <3>1. CASE IsFinished(u)
      BY <1>1, <3>1 DEF IsFinished
    <3>2. CASE \E i \in DOMAIN stack : stack[i].type = u
      BY <1>4, <3>2
    <3> QED BY <2>1, <3>1, <3>2 DEF FinishedOrOpen
  <2>2. CASE u \notin alreadyCollected
    <3>1. u = t
      BY <1>1, <2>2
    <3>2. CASE ~IsDescribed(comp, t) \/ comp.shape[t] = "enum"
      BY <1>1, <2>2, <3>1, <3>2 DEF UsedTypes, IsDescribable
    <3>3. CASE IsDescribed(comp, t) /\ comp.shape[t] # "enum"
      <4>1. stack' = Append(callers, frame)
        BY <1>1, <2>2, <3>1, <3>3
      <4>2. Len(callers) + 1 \in DOMAIN stack' /\ stack'[Len(callers) + 1] = frame
        <5> HIDE DEF frame
        <5> QED BY <1>3, <4>1
      <4> QED BY <3>1, <4>2
    <3> QED BY <3>2, <3>3
  <2> QED BY <2>1, <2>2
<1> QED BY <1>6, <1>7

(* The use the innermost loop has come to is one of the types its type uses.*)
LEMMA TopUseUsed ==
  ASSUME Typed, FramesHaveMet, InUse, IsIncluded(TopUse)
  PROVE  /\ Top.type \in alreadyCollected
         /\ TopUse.type \in UsedTypes(comp, Top.type)
<1>1. HasMet(Top, alreadyCollected)
  <2>1. Len(stack) \in DOMAIN stack
    BY TopType, LenProperties DEF InUse, Typed, TypeOK
  <2> QED BY <2>1 DEF FramesHaveMet, Top
<1>2. << >> \in Seq(Members)
  OBVIOUS
<1>3. Top.next \in DOMAIN Uses(comp, Top.type)
  BY <1>2, TopUseType
<1> QED BY <1>1, <1>3 DEF HasMet, UsedTypes, TopUse

(* The stack one turn later is in order once the use it passed is known.   *)
LEMMA AdvancedHasMet ==
  ASSUME Typed, FramesHaveMet, InUse, NEW members \in Seq(Members),
         NEW known, alreadyCollected \subseteq known, IsReadable(comp, TopUse),
         IsIncluded(TopUse) => TopUse.type \in known
  PROVE  /\ \A i \in DOMAIN Advanced(members) : HasMet(Advanced(members)[i], known)
         /\ \A i \in DOMAIN stack :
              \E k \in DOMAIN Advanced(members) : Advanced(members)[k].type = stack[i].type
<1> DEFINE top == [type |-> Top.type, next |-> Top.next + 1, members |-> members]
<1>1. /\ Top \in Frames /\ Callers \in Seq(Frames)
      /\ Len(Callers) = Len(stack) - 1
      /\ \A i \in 1..Len(Callers) : Callers[i] = stack[i]
      /\ Len(stack) \in 1..Len(stack)
      /\ DOMAIN stack = 1..Len(stack)
  BY TopType, LenProperties DEF InUse, Typed, TypeOK
<1>2. top \in Frames /\ top.type = Top.type /\ top.next = Top.next + 1 /\ Top.next \in Nat
  BY <1>1 DEF Frames
<1>3. Advanced(members) = Append(Callers, top)
  BY DEF Advanced
<1>4. Top = stack[Len(stack)]
  BY DEF Top
<1>5. HasMet(Top, alreadyCollected)
  BY <1>1, <1>4 DEF FramesHaveMet
<1>6. Top.next \in DOMAIN Uses(comp, Top.type) /\ DOMAIN Uses(comp, Top.type) \subseteq Nat
  <2>1. Top.type \in Types /\ comp \in Compilations /\ Top.members \in Seq(Members)
    BY <1>1 DEF Frames, Typed, TypeOK
  <2>2. Uses(comp, Top.type) \in Seq(UseRecords)
    BY <2>1, UsesType
  <2>3. DOMAIN Uses(comp, Top.type) = 1..Len(Uses(comp, Top.type))
        /\ Len(Uses(comp, Top.type)) \in Nat
    BY <2>2, LenProperties
  <2>4. Top.next \in DOMAIN Uses(comp, Top.type)
    BY <2>1, TopUseType
  <2> QED BY <2>3, <2>4
<1> HIDE DEF top
<1>7. /\ DOMAIN Advanced(members) = DOMAIN stack
      /\ \A i \in DOMAIN stack : i # Len(stack) => Advanced(members)[i] = stack[i]
      /\ Advanced(members)[Len(stack)] = top
  BY <1>1, <1>2, <1>3, AppendProperties, LenProperties
<1>8. HasMet(top, known)
  <2>1. ASSUME NEW j \in DOMAIN Uses(comp, Top.type), j < Top.next + 1
        PROVE  /\ IsReadable(comp, Uses(comp, Top.type)[j])
               /\ IsIncluded(Uses(comp, Top.type)[j]) => Uses(comp, Top.type)[j].type \in known
    <3>1. j < Top.next \/ j = Top.next
      BY <1>2, <1>6, <2>1
    <3>2. CASE j < Top.next
      BY <1>5, <2>1, <3>2 DEF HasMet
    <3>3. CASE j = Top.next
      BY <2>1, <3>3 DEF TopUse
    <3> QED BY <3>1, <3>2, <3>3
  <2> QED BY <1>2, <1>5, <2>1 DEF HasMet
<1>9. \A i \in DOMAIN stack : HasMet(stack[i], known)
  BY DEF FramesHaveMet, HasMet
<1>10. \A i \in DOMAIN stack : Advanced(members)[i].type = stack[i].type
  BY <1>1, <1>2, <1>4, <1>7
<1>11. ASSUME NEW i \in DOMAIN Advanced(members)
       PROVE  HasMet(Advanced(members)[i], known)
  <2>1. CASE i = Len(stack)
    BY <1>7, <1>8, <2>1
  <2>2. CASE i # Len(stack)
    <3>1. i \in DOMAIN stack /\ Advanced(members)[i] = stack[i]
      BY <1>7, <1>11, <2>2
    <3> QED BY <1>9, <3>1
  <2> QED BY <2>1, <2>2
<1>12. ASSUME NEW i \in DOMAIN stack
       PROVE  \E k \in DOMAIN Advanced(members) : Advanced(members)[k].type = stack[i].type
  BY <1>7, <1>10
<1> QED BY <1>11, <1>12

(* One turn of a loop of CollectGeneric or GetObjectInfo that collects.    *)
LEMMA CollectUseKeepsInv ==
  ASSUME Typed, WalkInv, InUse, IsIncluded(TopUse), IsReadable(comp, TopUse),
         NEW members \in Seq(Members),
         CollectCore(TopUse.type, Advanced(members)),
         UNCHANGED <<comp, phase, target>>
  PROVE  WalkInv'
<1>1. TopUse.type \in Types /\ Advanced(members) \in Seq(Frames)
  BY TopUseType DEF UseRecords
<1>3. /\ \A i \in DOMAIN Advanced(members) :
            HasMet(Advanced(members)[i], alreadyCollected \cup {TopUse.type})
      /\ \A i \in DOMAIN stack :
           \E k \in DOMAIN Advanced(members) : Advanced(members)[k].type = stack[i].type
  <2> DEFINE known == alreadyCollected \cup {TopUse.type}
  <2>1. alreadyCollected \subseteq known /\ TopUse.type \in known
    OBVIOUS
  <2>2. FramesHaveMet
    BY DEF WalkInv
  <2> HIDE DEF known
  <2>3. /\ \A i \in DOMAIN Advanced(members) : HasMet(Advanced(members)[i], known)
        /\ \A i \in DOMAIN stack :
             \E k \in DOMAIN Advanced(members) : Advanced(members)[k].type = stack[i].type
    BY <2>1, <2>2, AdvancedHasMet
  <2> QED BY <2>3 DEF known
<1>4. FramesHaveMet' /\ FinishedOrOpen'
  BY <1>1, <1>3, CollectCoreKeepsInv DEF WalkInv, InUse
<1>5. TargetsMet'
  BY CollectCoreEffect DEF WalkInv, TargetsMet
<1>6. WalkOver' /\ ThrownOverCollected'
  BY DEF InUse, WalkOver, ThrownOverCollected
<1> QED BY <1>4, <1>5, <1>6 DEF WalkInv

(* A throw is over a type that is marked, and described, by then.          *)
LEMMA ThrowsOverCollected ==
  ASSUME Typed, WalkInv, Throw
  PROVE  \E t \in alreadyCollected' : IsDescribed(comp, t) /\ ~IsDescribable(comp, t)
<1>1. CASE EnumThrows
  BY <1>1 DEF EnumThrows, IsDescribable
<1>2. ASSUME stack # << >>
      PROVE  /\ Top.type \in alreadyCollected
             /\ IsDescribed(comp, Top.type) /\ comp.shape[Top.type] # "enum"
  <2>1. Len(stack) \in DOMAIN stack
    BY <1>2, TopType, LenProperties DEF Typed, TypeOK
  <2> QED BY <2>1 DEF WalkInv, FramesHaveMet, HasMet, Top
<1>3. CASE MemberThrows
  <2>1. /\ Top.type \in alreadyCollected'
        /\ IsDescribed(comp, Top.type) /\ comp.shape[Top.type] # "enum"
    BY <1>2, <1>3 DEF MemberThrows, InUse
  <2>2. Top.next \in DOMAIN Uses(comp, Top.type)
    <3>1. << >> \in Seq(Members)
      OBVIOUS
    <3> QED BY <1>3, <3>1, TopUseType DEF MemberThrows
  <2> QED BY <1>3, <2>1, <2>2 DEF MemberThrows, IsDescribable, TopUse
<1>4. CASE InfoThrows
  BY <1>2, <1>4 DEF InfoThrows, IsDescribable
<1> QED BY <1>1, <1>3, <1>4 DEF Throw

(* WalkInv holds initially and every step preserves it.                    *)
LEMMA WalkInvInit == Init => WalkInv
<1> SUFFICES ASSUME Init PROVE WalkInv
  OBVIOUS
<1>1. TargetsMet
  <2>1. DOMAIN TargetTypes(comp) = 1..Len(TargetTypes(comp))
    BY TypedInit, TargetType
  <2> QED BY <2>1 DEF Init, TargetsMet
<1> QED BY <1>1 DEF Init, WalkInv, FramesHaveMet, FinishedOrOpen, ThrownOverCollected, WalkOver

LEMMA WalkInvStep == Typed /\ WalkInv /\ [Next]_vars => WalkInv'
<1> SUFFICES ASSUME Typed, WalkInv, [Next]_vars PROVE WalkInv'
  OBVIOUS
<1>a. /\ comp' = comp
      /\ DOMAIN TargetTypes(comp) = 1..Len(TargetTypes(comp))
  <2>1. comp' = comp
    BY ThrowEffect DEF Next, Walk, Collect, CollectTarget, CollectArgument, SkipMember,
                       CollectMember, FinishType, ReturnResult, vars
  <2> QED BY <2>1, TargetType
<1>1. CASE Collect
  <2>1. stack' = << >> /\ alreadyCollected' = {} /\ target' = 1 /\ phase' = "walking"
    BY <1>1 DEF Collect, WalkInv, WalkOver
  <2>2. TargetsMet'
    BY <1>a, <2>1 DEF TargetsMet
  <2> QED BY <2>1, <2>2 DEF WalkInv, FramesHaveMet, FinishedOrOpen, ThrownOverCollected, WalkOver
<1>2. CASE CollectTarget
  <2> DEFINE t == TargetTypes(comp)[target]
  <2>1. target \in DOMAIN TargetTypes(comp) /\ t \in Types
    BY <1>2, TargetType DEF CollectTarget
  <2>2. << >> \in Seq(Frames) /\ stack = << >> /\ CollectCore(t, << >>) /\ phase = "walking"
    BY <1>2 DEF CollectTarget
  <2>3. FramesHaveMet' /\ FinishedOrOpen'
    <3> HIDE DEF t
    <3>1. /\ \A i \in DOMAIN << >> : HasMet(<< >>[i], alreadyCollected \cup {t})
          /\ \A i \in DOMAIN stack : \E k \in DOMAIN << >> : << >>[k].type = stack[i].type
      BY <2>2
    <3> QED BY <1>a, <2>1, <2>2, <3>1, CollectCoreKeepsInv DEF WalkInv
  <2>4. TargetsMet'
    <3>1. alreadyCollected' = alreadyCollected \cup {t}
      BY <2>2, CollectCoreEffect
    <3>2. \A k \in DOMAIN TargetTypes(comp) : k < target + 1 => k < target \/ k = target
      BY <1>a, <2>1
    <3> QED BY <1>2, <1>a, <3>1, <3>2 DEF CollectTarget, TargetsMet, WalkInv
  <2>5. WalkOver' /\ ThrownOverCollected'
    BY <1>2 DEF CollectTarget, WalkOver, ThrownOverCollected
  <2> QED BY <2>3, <2>4, <2>5 DEF WalkInv
<1>3. CASE CollectArgument
  <2>1. InUse /\ UNCHANGED <<comp, phase, target>>
    BY <1>3 DEF CollectArgument
  <2>2. Top.members \in Seq(Members)
    BY <2>1, TopType DEF InUse, Frames
  <2>3. IsIncluded(TopUse) /\ IsReadable(comp, TopUse)
    BY <1>3, <2>1, <2>2, TopUseType DEF CollectArgument
  <2> QED BY <1>3, <2>1, <2>2, <2>3, CollectUseKeepsInv DEF CollectArgument
<1>4. CASE SkipMember
  <2>1. InUse /\ ~IsIncluded(TopUse) /\ stack' = Advanced(Top.members)
        /\ IsReadable(comp, TopUse) /\ UNCHANGED <<phase, target, alreadyCollected>>
    BY <1>4 DEF SkipMember, workspace
  <2>2. Top.members \in Seq(Members)
    BY <2>1, TopType DEF InUse, Frames
  <2>3. /\ \A i \in DOMAIN stack' : HasMet(stack'[i], alreadyCollected)
        /\ \A i \in DOMAIN stack : \E k \in DOMAIN stack' : stack'[k].type = stack[i].type
    BY <2>1, <2>2, AdvancedHasMet DEF WalkInv
  <2>4. FramesHaveMet'
    BY <1>a, <2>1, <2>3 DEF FramesHaveMet, HasMet
  <2>5. FinishedOrOpen'
    <3> SUFFICES ASSUME NEW u \in alreadyCollected
                 PROVE  IsFinished(u) \/ \E k \in DOMAIN stack' : stack'[k].type = u
      BY <1>a, <2>1 DEF FinishedOrOpen, IsFinished
    <3> QED BY <2>1, <2>3 DEF FinishedOrOpen, WalkInv, InUse
  <2>6. TargetsMet' /\ WalkOver' /\ ThrownOverCollected'
    BY <1>a, <2>1 DEF WalkInv, TargetsMet, WalkOver, ThrownOverCollected, InUse
  <2> QED BY <2>4, <2>5, <2>6 DEF WalkInv
<1>5. CASE CollectMember
  <2>1. InUse /\ IsIncluded(TopUse) /\ TopUse.via # "argument"
        /\ IsReadable(comp, TopUse) /\ UNCHANGED <<comp, phase, target>>
    BY <1>5 DEF CollectMember
  <2>2. Top.members \in Seq(Members)
    BY <2>1, TopType DEF InUse, Frames
  <2>3. Append(Top.members, MemberSerializationInfo(comp, TopUse)) \in Seq(Members)
    BY <2>1, <2>2, TopUseType, MemberType, AppendProperties DEF Typed, TypeOK
  <2> QED BY <1>5, <2>1, <2>3, CollectUseKeepsInv DEF CollectMember
<1>6. CASE FinishType
  <2>1. stack # << >> /\ stack' = Callers /\ Top.next > Len(Uses(comp, Top.type))
        /\ phase = "walking" /\ Converts(comp, Top.type)
        /\ UNCHANGED <<phase, target, alreadyCollected>>
    BY <1>6 DEF FinishType
  <2>2. /\ Top \in Frames /\ Callers \in Seq(Frames)
        /\ DOMAIN Callers = 1..Len(stack) - 1
        /\ \A i \in DOMAIN Callers : Callers[i] = stack[i] /\ i \in DOMAIN stack
        /\ DOMAIN stack = 1..Len(stack)
        /\ Len(stack) \in DOMAIN stack /\ Len(stack) \in Nat
    <3>1. /\ Top \in Frames /\ Callers \in Seq(Frames)
          /\ Len(Callers) = Len(stack) - 1
          /\ \A i \in 1..Len(Callers) : Callers[i] = stack[i]
          /\ Len(stack) \in 1..Len(stack)
      BY <2>1, TopType
    <3>2. DOMAIN stack = 1..Len(stack) /\ Len(stack) \in Nat /\ DOMAIN Callers = 1..Len(Callers)
      BY <3>1, LenProperties DEF Typed, TypeOK
    <3> QED BY <3>1, <3>2
  <2>3. IsFinished(Top.type)
    <3>1. Top.type \in Types /\ Uses(comp, Top.type) \in Seq(UseRecords) /\ Top.next \in Nat
      BY <2>2, UsesType DEF Frames, Typed
    <3>2. \A j \in DOMAIN Uses(comp, Top.type) : j < Top.next
      BY <2>1, <3>1, LenProperties
    <3>3. HasMet(Top, alreadyCollected)
      BY <2>2 DEF WalkInv, FramesHaveMet, Top
    <3> QED BY <2>1, <3>2, <3>3 DEF HasMet, UsedTypes, IsFinished, IsDescribable
  <2>4. FramesHaveMet'
    BY <1>a, <2>1, <2>2 DEF WalkInv, FramesHaveMet, HasMet
  <2>5. FinishedOrOpen'
    <3> SUFFICES ASSUME NEW u \in alreadyCollected, ~IsFinished(u)
                 PROVE  \E k \in DOMAIN Callers : Callers[k].type = u
      BY <1>a, <2>1 DEF FinishedOrOpen, IsFinished
    <3>1. PICK i \in DOMAIN stack : stack[i].type = u
      BY <2>1 DEF FinishedOrOpen, WalkInv
    <3>2. i # Len(stack)
      BY <2>3, <3>1 DEF Top
    <3>3. i \in DOMAIN Callers
      BY <2>2, <3>1, <3>2
    <3> QED BY <2>2, <3>1, <3>3
  <2>6. TargetsMet' /\ WalkOver' /\ ThrownOverCollected'
    BY <1>a, <2>1 DEF WalkInv, TargetsMet, WalkOver, ThrownOverCollected
  <2> QED BY <2>4, <2>5, <2>6 DEF WalkInv
<1>7. CASE ReturnResult
  <2>1. /\ phase = "walking" /\ phase' = "returned" /\ stack = << >> /\ target > Len(TargetTypes(comp))
        /\ UNCHANGED <<target, stack, alreadyCollected>>
    BY <1>7 DEF ReturnResult, workspace
  <2>2. FinishedOrOpen'
    BY <1>a, <2>1 DEF WalkInv, FinishedOrOpen, IsFinished
  <2> QED BY <1>a, <2>1, <2>2 DEF WalkInv, FramesHaveMet, ThrownOverCollected, TargetsMet, WalkOver
<1>8. CASE Throw
  <2>1. ThrownOverCollected'
    <3>1. \E t \in alreadyCollected' : IsDescribed(comp, t) /\ ~IsDescribable(comp, t)
      BY <1>8, ThrowsOverCollected
    <3> QED BY <1>8, <3>1, ThrowEffect DEF ThrownOverCollected
  <2> QED BY <1>8, <1>a, <2>1, ThrowEffect DEF WalkInv, FramesHaveMet, FinishedOrOpen, TargetsMet,
                                              WalkOver
<1>9. CASE UNCHANGED vars
  BY <1>9 DEF vars, workspace, WalkInv, FramesHaveMet, HasMet, IsFinished,
              FinishedOrOpen, ThrownOverCollected, TargetsMet, WalkOver
<1> QED BY <1>1, <1>2, <1>3, <1>4, <1>5, <1>6, <1>7, <1>8, <1>9 DEF Next, Walk

(* A finished walk has collected a closed set.                             *)
LEMMA ClosedAtReturn ==
  ASSUME Typed, WalkInv, stack = << >>, target > Len(TargetTypes(comp)), phase # "threw"
  PROVE  /\ Closure!IsClosed(alreadyCollected)
         /\ \A t \in alreadyCollected : IsDescribed(comp, t) => IsDescribable(comp, t)
<1>1. ElementsOf(TargetTypes(comp)) \subseteq alreadyCollected
  <2>1. \A k \in DOMAIN TargetTypes(comp) : k < target
    BY TargetType
  <2> QED BY <2>1 DEF WalkInv, TargetsMet, ElementsOf
<1>2. \A t \in alreadyCollected : t \in Types /\ IsFinished(t)
  BY DEF Typed, TypeOK, WalkInv, FinishedOrOpen
<1> QED BY <1>1, <1>2 DEF Closure!IsClosed, IsFinished

LEMMA UsedTypesType ==
  ASSUME NEW c \in Compilations, NEW t \in Types
  PROVE  UsedTypes(c, t) \subseteq Types
<1>1. Uses(c, t) \in Seq(UseRecords)
  BY UsesType
<1>2. \A i \in DOMAIN Uses(c, t) : Uses(c, t)[i].type \in Types
  <2>1. \A i \in DOMAIN Uses(c, t) : Uses(c, t)[i] \in UseRecords
    BY <1>1, ElementOfSeq, LenProperties
  <2> QED BY <2>1 DEF UseRecords
<1> QED BY <1>2 DEF UsedTypes

(* A call of CollectCore discovers a type of the frontier, or none.        *)
LEMMA CollectCoreDiscovers ==
  ASSUME NEW t, NEW callers, CollectCore(t, callers), phase = "walking",
         UNCHANGED <<comp, phase>>,
         \/ t \in ElementsOf(TargetTypes(comp))
         \/ \E u \in alreadyCollected : u \in Types /\ t \in UsedTypes(comp, u)
  PROVE  [Closure!Next]_(Closure!vars)
<1>1. alreadyCollected' = alreadyCollected \cup {t}
  BY CollectCoreEffect
<1>2. CASE t \in alreadyCollected
  BY <1>1, <1>2 DEF Closure!vars
<1>3. CASE t \notin alreadyCollected
  <2>1. t \in Closure!Frontier
    BY <1>3 DEF Closure!Frontier
  <2> QED BY <1>1, <2>1 DEF Closure!Next, Closure!Discover
<1> QED BY <1>2, <1>3

(* CollectCore is called with a target or a type that a marked one uses.   *)
LEMMA CalledIsUsed ==
  ASSUME Typed, WalkInv, NEW t \in Types, Calls(t)
  PROVE  \/ t \in ElementsOf(TargetTypes(comp))
         \/ \E u \in alreadyCollected : u \in Types /\ t \in UsedTypes(comp, u)
<1>1. CASE /\ stack = << >> /\ target <= Len(TargetTypes(comp))
           /\ t = TargetTypes(comp)[target]
  <2>1. target \in DOMAIN TargetTypes(comp)
    BY <1>1, TargetType
  <2> QED BY <1>1, <2>1 DEF ElementsOf
<1>2. CASE InUse /\ IsIncluded(TopUse) /\ t = TopUse.type
  <2>1. Top.type \in alreadyCollected /\ t \in UsedTypes(comp, Top.type)
    BY <1>2, TopUseUsed DEF WalkInv
  <2> QED BY <2>1 DEF Typed, TypeOK
<1> QED BY <1>1, <1>2 DEF Calls

(* What a step of the walk is in the abstract collection.                  *)
LEMMA ClosureInit == Init => Closure!Init
<1> SUFFICES ASSUME Init PROVE Closure!Init
  OBVIOUS
<1>1. ElementsOf(TargetTypes(comp)) \subseteq Types
  BY TypedInit, TargetType DEF ElementsOf
<1>2. [t \in Types |-> UsedTypes(comp, t)] \in [Types -> SUBSET Types]
  BY UsedTypesType DEF Init
<1> QED BY <1>1, <1>2 DEF Init, Closure!Init

LEMMA ClosureStep == Typed /\ WalkInv /\ [Next]_vars => [Closure!Next]_(Closure!vars)
<1> SUFFICES ASSUME Typed, WalkInv, [Next]_vars PROVE [Closure!Next]_(Closure!vars)
  OBVIOUS
<1>1. CASE Collect
  BY <1>1 DEF Collect, Closure!Next, Closure!Start
<1>2. CASE CollectTarget
  <2>1. target \in DOMAIN TargetTypes(comp)
    BY <1>2, TargetType DEF CollectTarget
  <2>2. TargetTypes(comp)[target] \in ElementsOf(TargetTypes(comp))
    BY <2>1 DEF ElementsOf
  <2> QED BY <1>2, <2>2, CollectCoreDiscovers DEF CollectTarget
<1>3. ASSUME InUse, IsIncluded(TopUse), NEW callers, CollectCore(TopUse.type, callers),
             UNCHANGED <<comp, phase>>
      PROVE  [Closure!Next]_(Closure!vars)
  <2>1. Top.type \in alreadyCollected /\ TopUse.type \in UsedTypes(comp, Top.type)
    BY <1>3, TopUseUsed DEF WalkInv
  <2>2. Top.type \in Types /\ phase = "walking"
    BY <1>3, <2>1 DEF Typed, TypeOK, InUse
  <2> QED BY <1>3, <2>1, <2>2, CollectCoreDiscovers
<1>4. CASE CollectArgument
  <2>1. InUse /\ Top.members \in Seq(Members)
    BY <1>4, TopType DEF CollectArgument, InUse, Frames
  <2>2. IsIncluded(TopUse)
    BY <1>4, <2>1, TopUseType DEF CollectArgument
  <2> QED BY <1>3, <1>4, <2>2 DEF CollectArgument
<1>5. CASE SkipMember
  BY <1>5 DEF SkipMember, workspace, Closure!vars
<1>6. CASE CollectMember
  BY <1>3, <1>6 DEF CollectMember
<1>7. CASE FinishType
  BY <1>7 DEF FinishType, Closure!vars
<1>8. CASE ReturnResult
  <2>1. Closure!IsClosed(alreadyCollected)
    BY <1>8, ClosedAtReturn DEF ReturnResult
  <2> QED BY <1>8, <2>1 DEF ReturnResult, workspace, Closure!Next, Closure!Return
<1>9. CASE Throw
  <2>1. ASSUME NEW t \in Types, Calls(t), alreadyCollected' = alreadyCollected \cup {t}
        PROVE  alreadyCollected' = alreadyCollected \/ t \in Closure!Frontier
    BY <2>1, CalledIsUsed DEF Closure!Frontier
  <2>2. /\ phase = "walking" /\ phase' = "threw" /\ comp' = comp
        /\ \/ alreadyCollected' = alreadyCollected
           \/ \E t \in Closure!Frontier : alreadyCollected' = alreadyCollected \cup {t}
    BY <1>9, <2>1, ThrowEffect
  <2> QED BY <2>2 DEF Closure!Next, Closure!Fail
<1>10. CASE UNCHANGED vars
  BY <1>10 DEF vars, workspace, Closure!vars
<1> QED BY <1>1, <1>2, <1>4, <1>5, <1>6, <1>7, <1>8, <1>9, <1>10 DEF Next, Walk

(* Every execution of the collector over a compilation is one of the       *)
(* abstract collection: it marks one more type that a target leads to, not *)
(* through a dropped one, and Collect returns when no such type is left.   *)
THEOREM WalkImplementsClosure == Spec => ImplementsTypeClosure
BY ClosureInit, ClosureStep, TypedInit, TypedStep, WalkInvInit, WalkInvStep, PTL
   DEF Spec, ImplementsTypeClosure, Closure!Spec

(* Every closed set of types holds what has been marked.                   *)
OnlyReachable ==
  \A S \in SUBSET Types : Closure!IsClosed(S) => alreadyCollected \subseteq S

LEMMA ReachableStep ==
  OnlyReachable /\ comp' = comp /\ [Closure!Next]_(Closure!vars) => OnlyReachable'
<1> SUFFICES ASSUME OnlyReachable, comp' = comp, [Closure!Next]_(Closure!vars)
             PROVE  OnlyReachable'
  OBVIOUS
<1>1. \A S : Closure!IsClosed(S)' <=> Closure!IsClosed(S)
  BY DEF Closure!IsClosed, UsedTypes
<1>2. alreadyCollected' \subseteq alreadyCollected \cup Closure!Frontier
  BY DEF Closure!Next, Closure!Start, Closure!Discover, Closure!Return, Closure!Fail, Closure!vars
<1>3. \A S \in SUBSET Types : Closure!IsClosed(S) => Closure!Frontier \subseteq S
  BY DEF OnlyReachable, Closure!Frontier, Closure!IsClosed
<1> QED BY <1>1, <1>2, <1>3 DEF OnlyReachable

(* Over every compilation: Collect throws only when a description needs an *)
(* attribute with an array argument, and never answers when one does.      *)
THEOREM ThrowsCaused == Spec => []ThrowsHaveCause
<1>1. Typed /\ WalkInv /\ OnlyReachable => ThrowsHaveCause
  <2> SUFFICES ASSUME Typed, WalkInv, OnlyReachable PROVE ThrowsHaveCause
    OBVIOUS
  <2>1. alreadyCollected \subseteq Closure!Reachable
    BY DEF Typed, TypeOK, OnlyReachable, Closure!Reachable
  <2>2. phase = "threw" =>
          \E t \in Closure!Reachable : IsDescribed(comp, t) /\ ~IsDescribable(comp, t)
    BY <2>1 DEF WalkInv, ThrownOverCollected
  <2>3. ASSUME phase = "returned", NEW t \in Closure!Reachable, IsDescribed(comp, t)
        PROVE  IsDescribable(comp, t)
    <3>1. /\ Closure!IsClosed(alreadyCollected)
          /\ \A u \in alreadyCollected : IsDescribed(comp, u) => IsDescribable(comp, u)
      BY <2>3, ClosedAtReturn DEF WalkInv, WalkOver
    <3>2. t \in alreadyCollected
      BY <3>1 DEF Closure!Reachable, Typed, TypeOK
    <3> QED BY <2>3, <3>1, <3>2
  <2> QED BY <2>2, <2>3 DEF ThrowsHaveCause
<1>2. Init => OnlyReachable
  BY DEF Init, OnlyReachable
<1>3. [Next]_vars => comp' = comp
  BY ThrowEffect DEF Next, Walk, Collect, CollectTarget, CollectArgument, SkipMember,
                     CollectMember, FinishType, ReturnResult, vars
<1> QED BY <1>1, <1>2, <1>3, ClosureStep, ReachableStep, TypedInit, TypedStep, WalkInvInit,
           WalkInvStep, PTL DEF Spec

-----------------------------------------------------------------------------
(* Each type met has one description or one open frame, or is dropped.     *)

TypeSet(s) == {s[i].type : i \in DOMAIN s}
DescribedTypes == {t \in alreadyCollected : IsDescribed(comp, t)}

(* DescribedOnce without the concatenation of the four lists.              *)
AllCounted ==
  /\ TypeSet(collectedObjectInfo) \cup TypeSet(collectedEnumInfo)
       \cup TypeSet(collectedClosedTypeGenericInfo) \cup TypeSet(stack) = DescribedTypes
  /\ IsFiniteSet(DescribedTypes)
  /\ Cardinality(DescribedTypes) =
       Len(collectedObjectInfo) + Len(collectedEnumInfo)
         + Len(collectedClosedTypeGenericInfo) + Len(stack)
Counted == phase # "threw" => AllCounted

LEMMA TypeSetAppend ==
  ASSUME NEW S, NEW s \in Seq(S), NEW e \in S
  PROVE  /\ TypeSet(Append(s, e)) = TypeSet(s) \cup {e.type}
         /\ Len(Append(s, e)) = Len(s) + 1
<1>1. {} \subseteq Sorted!Assembly /\ 0 \in Nat
  OBVIOUS
<1> QED BY <1>1, Sorted!TypeSetAppend DEF TypeSet, Sorted!TypeSet

(* The types of the frames, seen from the innermost one.                   *)
LEMMA TypeSetStack ==
  ASSUME Typed, stack # << >>
  PROVE  /\ TypeSet(stack) = TypeSet(Callers) \cup {Top.type}
         /\ Len(stack) = Len(Callers) + 1 /\ Len(Callers) \in Nat
<1>1. /\ Top \in Frames /\ Callers \in Seq(Frames)
      /\ Len(Callers) = Len(stack) - 1
      /\ \A i \in 1..Len(Callers) : Callers[i] = stack[i]
      /\ Len(stack) \in 1..Len(stack)
  BY TopType
<1>2. /\ DOMAIN stack = 1..Len(stack) /\ Len(stack) \in Nat
      /\ DOMAIN Callers = 1..Len(Callers) /\ Len(Callers) \in Nat
  BY <1>1, LenProperties DEF Typed, TypeOK
<1>3. Len(stack) = Len(Callers) + 1 /\ stack[Len(stack)] = Top
  BY <1>1, <1>2 DEF Top
<1>4. \A i \in DOMAIN stack : i \in DOMAIN Callers \/ i = Len(stack)
  BY <1>2, <1>3
<1>5. TypeSet(stack) \subseteq TypeSet(Callers) \cup {Top.type}
  BY <1>1, <1>2, <1>3, <1>4 DEF TypeSet
<1>6. TypeSet(Callers) \subseteq TypeSet(stack)
  BY <1>1, <1>2 DEF TypeSet
<1>7. Top.type \in TypeSet(stack)
  BY <1>1, <1>2, <1>3 DEF TypeSet
<1> QED BY <1>2, <1>3, <1>5, <1>6, <1>7

LEMMA TypeSetAdvanced ==
  ASSUME Typed, InUse, NEW members \in Seq(Members)
  PROVE  TypeSet(Advanced(members)) = TypeSet(stack) /\ Len(Advanced(members)) = Len(stack)
<1> DEFINE top == [type |-> Top.type, next |-> Top.next + 1, members |-> members]
<1>1. Top \in Frames /\ Callers \in Seq(Frames)
  BY TopType DEF InUse
<1>2. top \in Frames /\ top.type = Top.type
  BY <1>1 DEF Frames
<1>3. Advanced(members) = Append(Callers, top)
  BY DEF Advanced
<1> HIDE DEF top
<1>4. /\ TypeSet(Advanced(members)) = TypeSet(Callers) \cup {top.type}
      /\ Len(Advanced(members)) = Len(Callers) + 1
  BY <1>1, <1>2, <1>3, TypeSetAppend
<1> QED BY <1>2, <1>4, TypeSetStack DEF InUse

(* A call of CollectCore adds its type once to the set of described types  *)
(* and to one list, or to none.                                            *)
LEMMA CollectCoreCounts ==
  ASSUME Typed, AllCounted, NEW t \in Types, NEW callers \in Seq(Frames),
         TypeSet(callers) = TypeSet(stack), Len(callers) = Len(stack),
         CollectCore(t, callers), comp' = comp,
         UNCHANGED <<collectedObjectInfo, collectedClosedTypeGenericInfo>>
  PROVE  AllCounted'
<1> DEFINE frame == [type |-> t, next |-> 1, members |-> << >>]
           info == EnumSerializationInfo(comp, t)
<1>1. frame \in Frames /\ frame.type = t /\ info.type = t
  BY DEF Frames, EnumSerializationInfo
<1>2. info \in EnumInfos
  BY DEF EnumSerializationInfo, EnumInfos, Typed, TypeOK, Compilation
<1>3. /\ Len(collectedObjectInfo) \in Nat /\ Len(collectedEnumInfo) \in Nat
      /\ Len(collectedClosedTypeGenericInfo) \in Nat /\ Len(stack) \in Nat
  BY LenProperties DEF Typed, TypeOK
<1>4. alreadyCollected' = alreadyCollected \cup {t}
  BY DEF CollectCore
<1>5. ASSUME t \in alreadyCollected \/ ~IsDescribed(comp, t)
      PROVE  AllCounted'
  <2>1. DescribedTypes' = DescribedTypes
    BY <1>4, <1>5 DEF DescribedTypes
  <2>2. stack' = callers /\ UNCHANGED collectedEnumInfo
    BY <1>5 DEF CollectCore
  <2> QED BY <2>1, <2>2 DEF AllCounted, TypeSet
<1>6. ASSUME t \notin alreadyCollected, IsDescribed(comp, t)
      PROVE  /\ DescribedTypes' = DescribedTypes \cup {t}
             /\ IsFiniteSet(DescribedTypes')
             /\ Cardinality(DescribedTypes') = Cardinality(DescribedTypes) + 1
  <2>1. DescribedTypes' = DescribedTypes \cup {t} /\ t \notin DescribedTypes
    BY <1>4, <1>6 DEF DescribedTypes
  <2> QED BY <2>1, FS_AddElement DEF AllCounted
<1>7. /\ TypeSet(collectedObjectInfo)' = TypeSet(collectedObjectInfo)
      /\ TypeSet(collectedClosedTypeGenericInfo)' = TypeSet(collectedClosedTypeGenericInfo)
  BY DEF TypeSet
<1>8. CASE t \notin alreadyCollected /\ IsDescribed(comp, t) /\ comp.shape[t] = "enum"
  <2>1. stack' = callers /\ collectedEnumInfo' = Append(collectedEnumInfo, info)
    BY <1>8 DEF CollectCore
  <2> HIDE DEF info, frame
  <2>2. /\ TypeSet(collectedEnumInfo)' = TypeSet(collectedEnumInfo) \cup {t}
        /\ Len(collectedEnumInfo') = Len(collectedEnumInfo) + 1
    <3>1. collectedEnumInfo \in Seq(EnumInfos)
      BY DEF Typed, TypeOK
    <3>2. /\ TypeSet(Append(collectedEnumInfo, info)) = TypeSet(collectedEnumInfo) \cup {info.type}
          /\ Len(Append(collectedEnumInfo, info)) = Len(collectedEnumInfo) + 1
      BY <1>2, <3>1, TypeSetAppend
    <3>3. TypeSet(collectedEnumInfo)' = TypeSet(collectedEnumInfo')
      BY DEF TypeSet
    <3> QED BY <1>1, <2>1, <3>2, <3>3
  <2>3. TypeSet(stack)' = TypeSet(stack) /\ Len(stack') = Len(stack)
    BY <2>1 DEF TypeSet
  <2> QED BY <1>3, <1>6, <1>7, <1>8, <2>2, <2>3 DEF AllCounted
<1>9. CASE t \notin alreadyCollected /\ IsDescribed(comp, t) /\ comp.shape[t] # "enum"
  <2>1. stack' = Append(callers, frame) /\ collectedEnumInfo' = collectedEnumInfo
    BY <1>9 DEF CollectCore
  <2> HIDE DEF info, frame
  <2>2. TypeSet(stack)' = TypeSet(stack) \cup {t} /\ Len(stack') = Len(stack) + 1
    <3>1. /\ TypeSet(Append(callers, frame)) = TypeSet(callers) \cup {frame.type}
          /\ Len(Append(callers, frame)) = Len(callers) + 1
      BY <1>1, TypeSetAppend
    <3>2. TypeSet(stack)' = TypeSet(stack')
      BY DEF TypeSet
    <3> QED BY <1>1, <2>1, <3>1, <3>2
  <2>3. TypeSet(collectedEnumInfo)' = TypeSet(collectedEnumInfo)
    BY <2>1 DEF TypeSet
  <2> QED BY <1>3, <1>6, <1>7, <1>9, <2>1, <2>2, <2>3 DEF AllCounted
<1> QED BY <1>5, <1>8, <1>9

LEMMA CountedStep == Typed /\ WalkOver /\ Counted /\ [Next]_vars => Counted'
<1> SUFFICES ASSUME Typed, WalkOver, Counted, [Next]_vars PROVE Counted'
  OBVIOUS
<1>0. Walk \/ ReturnResult => AllCounted
  BY DEF Counted, Walk, CollectTarget, CollectArgument, SkipMember, CollectMember, FinishType,
         InUse, ReturnResult
<1>1. CASE Collect
  <2>1. /\ alreadyCollected' = {} /\ collectedObjectInfo' = << >> /\ collectedEnumInfo' = << >>
        /\ collectedClosedTypeGenericInfo' = << >> /\ stack' = << >>
    BY <1>1 DEF Collect, WalkOver
  <2>2. DescribedTypes' = {}
    BY <2>1 DEF DescribedTypes
  <2> QED BY <2>1, <2>2, FS_EmptySet DEF Counted, AllCounted, TypeSet
<1>2. CASE CollectTarget
  <2>1. TargetTypes(comp)[target] \in Types
    BY <1>2, TargetType DEF CollectTarget
  <2>2. stack = << >> /\ << >> \in Seq(Frames)
    BY <1>2 DEF CollectTarget
  <2> QED BY <1>0, <1>2, <2>1, <2>2, CollectCoreCounts DEF CollectTarget, Walk, Counted
<1>3. CASE CollectArgument
  <2>1. InUse /\ Top.members \in Seq(Members)
    BY <1>3, TopType DEF CollectArgument, InUse, Frames
  <2>2. TopUse.type \in Types /\ Advanced(Top.members) \in Seq(Frames)
    BY <2>1, TopUseType DEF UseRecords
  <2> QED BY <1>0, <1>3, <2>1, <2>2, TypeSetAdvanced, CollectCoreCounts
      DEF CollectArgument, Walk, Counted
<1>4. CASE SkipMember
  <2>1. InUse /\ Top.members \in Seq(Members)
    BY <1>4, TopType DEF SkipMember, InUse, Frames
  <2>2. TypeSet(stack') = TypeSet(stack) /\ Len(stack') = Len(stack)
    BY <1>4, <2>1, TypeSetAdvanced DEF SkipMember
  <2> QED BY <1>0, <1>4, <2>2 DEF SkipMember, workspace, Counted, AllCounted, DescribedTypes, TypeSet, Walk
<1>5. CASE CollectMember
  <2> DEFINE members == Append(Top.members, MemberSerializationInfo(comp, TopUse))
  <2>1. InUse /\ Top.members \in Seq(Members)
    BY <1>5, TopType DEF CollectMember, InUse, Frames
  <2>2. TopUse \in UseRecords /\ TopUse.type \in Types /\ TopUse.via # "argument"
    BY <1>5, <2>1, TopUseType DEF UseRecords, CollectMember
  <2>3. members \in Seq(Members)
    BY <2>1, <2>2, MemberType, AppendProperties DEF Typed, TypeOK
  <2>4. CollectCore(TopUse.type, Advanced(members))
        /\ UNCHANGED <<comp, collectedObjectInfo, collectedClosedTypeGenericInfo>>
    BY <1>5 DEF CollectMember
  <2> HIDE DEF members
  <2>5. Advanced(members) \in Seq(Frames)
    BY <2>1, <2>3, TopUseType
  <2>6. AllCounted
    BY <1>0, <1>5 DEF Walk
  <2> QED BY <2>1, <2>2, <2>3, <2>4, <2>5, <2>6, TypeSetAdvanced, CollectCoreCounts DEF Counted
<1>6. CASE FinishType
  <2> DEFINE info == ObjectSerializationInfo(comp, Top.type, Top.members)
  <2>1. /\ stack # << >> /\ stack' = Callers /\ AllCounted
        /\ UNCHANGED <<DescribedTypes, collectedEnumInfo>>
    BY <1>0, <1>6 DEF FinishType, DescribedTypes, Walk
  <2>2. /\ TypeSet(stack) = TypeSet(stack') \cup {Top.type}
        /\ Len(stack) = Len(stack') + 1 /\ Len(stack') \in Nat
    BY <2>1, TypeSetStack
  <2>3. info \in ObjectInfos /\ info.type = Top.type
    BY <2>1, TopType DEF ObjectSerializationInfo, ObjectInfos, Frames, Typed, TypeOK, Compilation
  <2>4. /\ Len(collectedObjectInfo) \in Nat /\ Len(collectedEnumInfo) \in Nat
        /\ Len(collectedClosedTypeGenericInfo) \in Nat
    BY LenProperties DEF Typed, TypeOK
  <2>5. \/ /\ collectedObjectInfo' = Append(collectedObjectInfo, info)
           /\ UNCHANGED collectedClosedTypeGenericInfo
        \/ /\ collectedClosedTypeGenericInfo' = Append(collectedClosedTypeGenericInfo, info)
           /\ UNCHANGED collectedObjectInfo
    BY <1>6 DEF FinishType
  <2> HIDE DEF info
  <2>6. /\ TypeSet(collectedObjectInfo') \cup TypeSet(collectedClosedTypeGenericInfo')
             = TypeSet(collectedObjectInfo) \cup TypeSet(collectedClosedTypeGenericInfo)
                 \cup {Top.type}
        /\ Len(collectedObjectInfo') + Len(collectedClosedTypeGenericInfo')
             = Len(collectedObjectInfo) + Len(collectedClosedTypeGenericInfo) + 1
        /\ Len(collectedObjectInfo') \in Nat /\ Len(collectedClosedTypeGenericInfo') \in Nat
    <3>1. /\ collectedObjectInfo \in Seq(ObjectInfos)
          /\ collectedClosedTypeGenericInfo \in Seq(ObjectInfos)
      BY DEF Typed, TypeOK
    <3>2. /\ TypeSet(Append(collectedObjectInfo, info)) = TypeSet(collectedObjectInfo) \cup {info.type}
          /\ Len(Append(collectedObjectInfo, info)) = Len(collectedObjectInfo) + 1
          /\ TypeSet(Append(collectedClosedTypeGenericInfo, info))
               = TypeSet(collectedClosedTypeGenericInfo) \cup {info.type}
          /\ Len(Append(collectedClosedTypeGenericInfo, info))
               = Len(collectedClosedTypeGenericInfo) + 1
      BY <2>3, <3>1, TypeSetAppend
    <3>3. CASE /\ collectedObjectInfo' = Append(collectedObjectInfo, info)
               /\ UNCHANGED collectedClosedTypeGenericInfo
      BY <2>3, <2>4, <3>2, <3>3
    <3>4. CASE /\ collectedClosedTypeGenericInfo' = Append(collectedClosedTypeGenericInfo, info)
               /\ UNCHANGED collectedObjectInfo
      BY <2>3, <2>4, <3>2, <3>4
    <3> QED BY <2>5, <3>3, <3>4
  <2>7. Cardinality(DescribedTypes') =
          Len(collectedObjectInfo') + Len(collectedEnumInfo')
            + Len(collectedClosedTypeGenericInfo') + Len(stack')
    BY <2>1, <2>2, <2>4, <2>6 DEF AllCounted
  <2>8. TypeSet(collectedObjectInfo') \cup TypeSet(collectedEnumInfo')
          \cup TypeSet(collectedClosedTypeGenericInfo') \cup TypeSet(stack') = DescribedTypes'
    BY <2>1, <2>2, <2>6 DEF AllCounted
  <2>9. IsFiniteSet(DescribedTypes')
    BY <2>1 DEF AllCounted
  <2> QED BY <2>7, <2>8, <2>9 DEF Counted, AllCounted, TypeSet
<1>7. CASE ReturnResult
  BY <1>0, <1>7 DEF ReturnResult, workspace, Counted, AllCounted, DescribedTypes, TypeSet
<1>8. CASE Throw
  BY <1>8, ThrowEffect DEF Counted
<1>9. CASE UNCHANGED vars
  BY <1>9 DEF vars, workspace, Counted, AllCounted, DescribedTypes, TypeSet
<1> QED BY <1>1, <1>2, <1>3, <1>4, <1>5, <1>6, <1>7, <1>8, <1>9 DEF Next, Walk

LEMMA ConcatFacts ==
  ASSUME NEW s1 \in Seq(Types), NEW s2 \in Seq(Types)
  PROVE  /\ s1 \o s2 \in Seq(Types)
         /\ Len(s1 \o s2) = Len(s1) + Len(s2)
         /\ ElementsOf(s1 \o s2) = ElementsOf(s1) \cup ElementsOf(s2)
<1>1. {} \subseteq Sorted!Assembly /\ 0 \in Nat
  OBVIOUS
<1> QED BY <1>1, Sorted!ConcatFacts DEF ElementsOf, Sorted!ElementsOf

LEMMA TypesOfProperties ==
  ASSUME NEW S, NEW s \in Seq(S), \A e \in S : e.type \in Types
  PROVE  /\ TypesOf(s) \in Seq(Types)
         /\ Len(TypesOf(s)) = Len(s)
         /\ ElementsOf(TypesOf(s)) = TypeSet(s)
<1>1. {} \subseteq Sorted!Assembly /\ 0 \in Nat
  OBVIOUS
<1>2. TypesOf(s) = Sorted!TypesOf(s) /\ TypeSet(s) = Sorted!TypeSet(s)
      /\ ElementsOf(TypesOf(s)) = Sorted!ElementsOf(Sorted!TypesOf(s))
  BY DEF TypesOf, TypeSet, ElementsOf, Sorted!TypesOf, Sorted!TypeSet, Sorted!ElementsOf
<1> QED BY <1>1, <1>2, Sorted!TypesOfProperties

(* At every moment a type that Collect has met is dropped, or is described *)
(* exactly once, or has exactly one activation of GetObjectInfo open,      *)
(* however the compilation's types refer to each other.                    *)
THEOREM DescribesOnce == Spec => []DescribedOnce
<1>1. Init => Counted
  <2>1. Init => DescribedTypes = {}
    BY DEF Init, DescribedTypes
  <2> QED BY <2>1, FS_EmptySet DEF Init, Counted, AllCounted, TypeSet
<1>2. Typed /\ Counted => DescribedOnce
  <2> SUFFICES ASSUME Typed, AllCounted, phase # "threw" PROVE DescribedOnce
    BY DEF Counted, DescribedOnce
  <2> DEFINE o == TypesOf(collectedObjectInfo)
             e == TypesOf(collectedEnumInfo)
             g == TypesOf(collectedClosedTypeGenericInfo)
             f == TypesOf(stack)
  <2>1. /\ collectedObjectInfo \in Seq(ObjectInfos) /\ collectedEnumInfo \in Seq(EnumInfos)
        /\ collectedClosedTypeGenericInfo \in Seq(ObjectInfos) /\ stack \in Seq(Frames)
    BY DEF Typed, TypeOK
  <2>2. /\ \A i \in ObjectInfos : i.type \in Types
        /\ \A i \in EnumInfos : i.type \in Types
        /\ \A i \in Frames : i.type \in Types
    BY DEF ObjectInfos, EnumInfos, Frames
  <2>3. /\ o \in Seq(Types) /\ Len(o) = Len(collectedObjectInfo)
        /\ ElementsOf(o) = TypeSet(collectedObjectInfo)
        /\ e \in Seq(Types) /\ Len(e) = Len(collectedEnumInfo)
        /\ ElementsOf(e) = TypeSet(collectedEnumInfo)
        /\ g \in Seq(Types) /\ Len(g) = Len(collectedClosedTypeGenericInfo)
        /\ ElementsOf(g) = TypeSet(collectedClosedTypeGenericInfo)
        /\ f \in Seq(Types) /\ Len(f) = Len(stack) /\ ElementsOf(f) = TypeSet(stack)
    BY <2>1, <2>2, TypesOfProperties
  <2>4. DescribedOnce <=> /\ ElementsOf(o \o e \o g \o f) = DescribedTypes
                          /\ Len(o \o e \o g \o f) = Cardinality(DescribedTypes)
    BY DEF DescribedOnce, DescribedTypes
  <2> HIDE DEF o, e, g, f
  <2>5. /\ o \o e \in Seq(Types) /\ Len(o \o e) = Len(o) + Len(e)
        /\ ElementsOf(o \o e) = ElementsOf(o) \cup ElementsOf(e)
    <3>1. o \in Seq(Types) /\ e \in Seq(Types)
      BY <2>3
    <3> QED BY <3>1, ConcatFacts, Zenon
  <2>6. /\ o \o e \o g \in Seq(Types) /\ Len(o \o e \o g) = Len(o \o e) + Len(g)
        /\ ElementsOf(o \o e \o g) = ElementsOf(o \o e) \cup ElementsOf(g)
    <3>1. o \o e \in Seq(Types) /\ g \in Seq(Types)
      BY <2>3, <2>5
    <3> QED BY <3>1, ConcatFacts, Zenon
  <2>7. /\ Len(o \o e \o g \o f) = Len(o \o e \o g) + Len(f)
        /\ ElementsOf(o \o e \o g \o f) = ElementsOf(o \o e \o g) \cup ElementsOf(f)
    <3>1. o \o e \o g \in Seq(Types) /\ f \in Seq(Types)
      BY <2>3, <2>6
    <3> QED BY <3>1, ConcatFacts, Zenon
  <2> QED BY <2>3, <2>4, <2>5, <2>6, <2>7 DEF AllCounted
<1>3. WalkInv => WalkOver
  BY DEF WalkInv
<1> QED
  BY <1>1, <1>2, <1>3, TypedInit, TypedStep, WalkInvInit, WalkInvStep, CountedStep, PTL DEF Spec

-----------------------------------------------------------------------------
(* What is described while the walk goes on.                               *)

(* Members, frames and descriptions whose members name types of `known',   *)
(* the descriptions under their own names.                                 *)
MembersOf(a, known) == {m \in Members : \E t \in known : m.type = a.fullName[t]}
FramesOf(a, known) == {f \in Frames : f.members \in Seq(MembersOf(a, known))}
InfosOf(a, known) ==
  {i \in ObjectInfos : /\ i.members \in Seq(MembersOf(a, known))
                       /\ i.fullName = a.fullName[i.type]}
NamedEnums(a) == {e \in EnumInfos : e.fullName = a.fullName[e.type]}

DescriptionInv ==
  /\ stack \in Seq(FramesOf(comp, alreadyCollected))
  /\ collectedObjectInfo \in Seq(InfosOf(comp, alreadyCollected))
  /\ collectedClosedTypeGenericInfo \in Seq(InfosOf(comp, alreadyCollected))
  /\ collectedEnumInfo \in Seq(NamedEnums(comp))

(* What names collected types goes on to when more are collected.          *)
LEMMA KnownGrows ==
  ASSUME NEW a, NEW known, NEW more, known \subseteq more
  PROVE  /\ Seq(MembersOf(a, known)) \subseteq Seq(MembersOf(a, more))
         /\ Seq(FramesOf(a, known)) \subseteq Seq(FramesOf(a, more))
         /\ Seq(InfosOf(a, known)) \subseteq Seq(InfosOf(a, more))
<1>1. MembersOf(a, known) \subseteq MembersOf(a, more)
  BY DEF MembersOf
<1>2. Seq(MembersOf(a, known)) \subseteq Seq(MembersOf(a, more))
  BY <1>1, SeqMonotonic
<1>3. /\ FramesOf(a, known) \subseteq FramesOf(a, more)
      /\ InfosOf(a, known) \subseteq InfosOf(a, more)
  BY <1>2 DEF FramesOf, InfosOf
<1> QED BY <1>2, <1>3, SeqMonotonic

(* The innermost frame and its callers have members that are known.        *)
LEMMA TopDescribed ==
  ASSUME Typed, DescriptionInv, stack # << >>
  PROVE  /\ Top \in FramesOf(comp, alreadyCollected)
         /\ Callers \in Seq(FramesOf(comp, alreadyCollected))
<1> DEFINE F == FramesOf(comp, alreadyCollected)
<1>1. /\ Callers \in Seq(Frames) /\ Len(Callers) = Len(stack) - 1
      /\ \A i \in 1..Len(Callers) : Callers[i] = stack[i]
      /\ Len(stack) \in 1..Len(stack)
  BY TopType
<1>2. stack \in Seq(F) /\ Len(stack) \in Nat
  BY LenProperties DEF DescriptionInv
<1>3. Len(Callers) \in Nat /\ Callers = [i \in 1..Len(Callers) |-> Callers[i]]
  BY <1>1, LenProperties
<1> HIDE DEF F
<1>4. \A i \in 1..Len(stack) : stack[i] \in F
  BY <1>2, ElementOfSeq
<1>5. \A i \in 1..Len(Callers) : Callers[i] \in F
  BY <1>1, <1>2, <1>3, <1>4
<1>6. Callers \in Seq(F)
  BY <1>3, <1>5
<1>7. Top \in F
  BY <1>1, <1>4 DEF Top
<1> QED BY <1>6, <1>7 DEF F

(* A call of CollectCore keeps what is described, and the frame it opens   *)
(* has no members yet.                                                     *)
LEMMA CollectCoreDescribes ==
  ASSUME Typed, DescriptionInv, NEW t \in Types, NEW callers, CollectCore(t, callers),
         callers \in Seq(FramesOf(comp, alreadyCollected \cup {t})), comp' = comp,
         UNCHANGED <<collectedObjectInfo, collectedClosedTypeGenericInfo>>
  PROVE  DescriptionInv'
<1> DEFINE known == alreadyCollected \cup {t}
           frame == [type |-> t, next |-> 1, members |-> << >>]
           info == EnumSerializationInfo(comp, t)
<1>1. alreadyCollected' = known
  BY CollectCoreEffect
<1>2. frame \in FramesOf(comp, known)
  <2>1. frame \in Frames /\ frame.members = << >>
    BY DEF Frames
  <2>2. << >> \in Seq(MembersOf(comp, known))
    BY EmptySeq
  <2> HIDE DEF frame, known
  <2> QED BY <2>1, <2>2 DEF FramesOf
<1>3. info \in NamedEnums(comp)
  BY DEF EnumSerializationInfo, EnumInfos, NamedEnums, Typed, TypeOK, Compilation
<1>4. /\ collectedEnumInfo \in Seq(NamedEnums(comp))
      /\ Append(collectedEnumInfo, info) \in Seq(NamedEnums(comp))
      /\ Append(callers, frame) \in Seq(FramesOf(comp, known))
  BY <1>2, <1>3, AppendProperties DEF DescriptionInv
<1>5. /\ collectedObjectInfo \in Seq(InfosOf(comp, known))
      /\ collectedClosedTypeGenericInfo \in Seq(InfosOf(comp, known))
  BY KnownGrows DEF DescriptionInv
<1>6. stack' \in {callers, Append(callers, frame)}
  BY CollectCoreEffect
<1>7. collectedEnumInfo' \in {collectedEnumInfo, Append(collectedEnumInfo, info)}
  BY DEF CollectCore
<1> HIDE DEF known, frame, info
<1> QED BY <1>1, <1>4, <1>5, <1>6, <1>7 DEF DescriptionInv, known

(* The innermost frame one turn later, with members that are known.        *)
LEMMA AdvancedDescribed ==
  ASSUME Typed, DescriptionInv, InUse, NEW known, alreadyCollected \subseteq known,
         NEW members \in Seq(MembersOf(comp, known)), members \in Seq(Members)
  PROVE  Advanced(members) \in Seq(FramesOf(comp, known))
<1> DEFINE top == [type |-> Top.type, next |-> Top.next + 1, members |-> members]
<1>1. Top \in Frames /\ stack # << >>
  BY TopType DEF InUse
<1>2. top \in FramesOf(comp, known)
  BY <1>1 DEF Frames, FramesOf
<1>3. Callers \in Seq(FramesOf(comp, known))
  BY <1>1, TopDescribed, KnownGrows
<1> QED BY <1>2, <1>3, AppendProperties DEF Advanced

LEMMA DescriptionStep ==
  Typed /\ WalkOver /\ DescriptionInv /\ [Next]_vars => DescriptionInv'
<1> SUFFICES ASSUME Typed, WalkOver, DescriptionInv, [Next]_vars PROVE DescriptionInv'
  OBVIOUS
<1>1. CASE Collect
  <2>1. /\ collectedObjectInfo' = << >> /\ collectedEnumInfo' = << >>
        /\ collectedClosedTypeGenericInfo' = << >> /\ stack' = << >>
    BY <1>1 DEF Collect, WalkOver
  <2> QED BY <2>1 DEF DescriptionInv
<1>2. CASE CollectTarget
  <2>1. TargetTypes(comp)[target] \in Types
    BY <1>2, TargetType DEF CollectTarget
  <2>2. << >> \in Seq(FramesOf(comp, alreadyCollected \cup {TargetTypes(comp)[target]}))
    OBVIOUS
  <2> QED BY <1>2, <2>1, <2>2, CollectCoreDescribes DEF CollectTarget
<1>3. CASE CollectArgument
  <2> DEFINE known == alreadyCollected \cup {TopUse.type}
  <2>1. InUse /\ Top \in FramesOf(comp, alreadyCollected)
    BY <1>3, TopDescribed DEF CollectArgument, InUse
  <2>2. Top.members \in Seq(Members) /\ Top.members \in Seq(MembersOf(comp, known))
    BY <2>1, KnownGrows DEF FramesOf, Frames
  <2>3. TopUse.type \in Types
    BY <2>1, <2>2, TopUseType DEF UseRecords
  <2>4. Advanced(Top.members) \in Seq(FramesOf(comp, known))
    BY <2>1, <2>2, AdvancedDescribed
  <2> QED BY <1>3, <2>3, <2>4, CollectCoreDescribes DEF CollectArgument
<1>4. CASE SkipMember
  <2>1. InUse /\ Top \in FramesOf(comp, alreadyCollected)
    BY <1>4, TopDescribed DEF SkipMember, InUse
  <2>2. Advanced(Top.members) \in Seq(FramesOf(comp, alreadyCollected))
    BY <2>1, AdvancedDescribed DEF FramesOf, Frames
  <2> QED BY <1>4, <2>2 DEF SkipMember, workspace, DescriptionInv
<1>5. CASE CollectMember
  <2> DEFINE known == alreadyCollected \cup {TopUse.type}
             info == MemberSerializationInfo(comp, TopUse)
             members == Append(Top.members, info)
  <2>1. InUse /\ Top \in FramesOf(comp, alreadyCollected)
    BY <1>5, TopDescribed DEF CollectMember, InUse
  <2>2. Top.members \in Seq(Members) /\ Top.members \in Seq(MembersOf(comp, known))
    BY <2>1, KnownGrows DEF FramesOf, Frames
  <2>3. TopUse \in UseRecords /\ TopUse.type \in Types /\ TopUse.via # "argument"
    BY <1>5, <2>1, <2>2, TopUseType DEF UseRecords, CollectMember
  <2>4. info \in Members /\ info \in MembersOf(comp, known)
    BY <2>3, MemberType DEF Typed, TypeOK, MembersOf, MemberSerializationInfo
  <2>5. members \in Seq(Members) /\ members \in Seq(MembersOf(comp, known))
    BY <2>2, <2>4, AppendProperties
  <2>6. /\ CollectCore(TopUse.type, Advanced(members)) /\ comp' = comp
        /\ UNCHANGED <<collectedObjectInfo, collectedClosedTypeGenericInfo>>
    BY <1>5 DEF CollectMember
  <2> HIDE DEF members, info
  <2>7. Advanced(members) \in Seq(FramesOf(comp, known))
    BY <2>1, <2>5, AdvancedDescribed
  <2> QED BY <2>3, <2>6, <2>7, CollectCoreDescribes
<1>6. CASE FinishType
  <2> DEFINE info == ObjectSerializationInfo(comp, Top.type, Top.members)
             infos == Seq(InfosOf(comp, alreadyCollected))
  <2>1. stack # << >>
    BY <1>6 DEF FinishType
  <2>2. /\ Top \in FramesOf(comp, alreadyCollected)
        /\ Callers \in Seq(FramesOf(comp, alreadyCollected))
    BY <2>1, TopDescribed
  <2>3. info \in InfosOf(comp, alreadyCollected)
    BY <2>2 DEF ObjectSerializationInfo, ObjectInfos, InfosOf, FramesOf, Frames, Typed, TypeOK, Compilation
  <2>4. /\ Append(collectedObjectInfo, info) \in infos
        /\ Append(collectedClosedTypeGenericInfo, info) \in infos
    BY <2>3, AppendProperties DEF DescriptionInv
  <2>5. collectedObjectInfo' \in infos /\ collectedClosedTypeGenericInfo' \in infos
    BY <1>6, <2>4 DEF FinishType, DescriptionInv
  <2> QED BY <1>6, <2>2, <2>5 DEF FinishType, DescriptionInv
<1>7. CASE ReturnResult
  BY <1>7 DEF ReturnResult, workspace, DescriptionInv
<1>8. CASE Throw
  <2>1. alreadyCollected \subseteq alreadyCollected'
    BY <1>8, ThrowEffect
  <2>2. /\ collectedObjectInfo \in Seq(InfosOf(comp, alreadyCollected'))
        /\ collectedClosedTypeGenericInfo \in Seq(InfosOf(comp, alreadyCollected'))
    BY <2>1, KnownGrows DEF DescriptionInv
  <2>3. /\ comp' = comp /\ stack' = << >> /\ collectedEnumInfo' = collectedEnumInfo
        /\ collectedObjectInfo' = collectedObjectInfo
        /\ collectedClosedTypeGenericInfo' = collectedClosedTypeGenericInfo
    BY <1>8, ThrowEffect
  <2> QED BY <2>2, <2>3 DEF DescriptionInv
<1>9. CASE UNCHANGED vars
  BY <1>9 DEF vars, workspace, DescriptionInv
<1> QED BY <1>1, <1>2, <1>3, <1>4, <1>5, <1>6, <1>7, <1>8, <1>9 DEF Next, Walk

-----------------------------------------------------------------------------
(* What Collect returns.                                                   *)

LEMMA MissingStep ==
  Typed /\ Counted /\ DescriptionInv /\ MissingOnlyIfDropped /\ [Next]_vars
    => MissingOnlyIfDropped'
<1> SUFFICES ASSUME Typed, Counted, DescriptionInv, MissingOnlyIfDropped, [Next]_vars
             PROVE  MissingOnlyIfDropped'
  OBVIOUS
<1>1. CASE ReturnResult
  <2> DEFINE o == OrderByFullName(collectedObjectInfo)
             e == OrderByFullName(collectedEnumInfo)
             g == OrderByFullName(collectedClosedTypeGenericInfo)
             Infos == InfosOf(comp, alreadyCollected)
             Named(n) == n \in {d.fullName : d \in ElementsOf(o) \cup ElementsOf(g) \cup ElementsOf(e)}
  <2>1. /\ result' = [CollectedObjectInfo |-> o, collectedEnumInfo |-> e,
                      CollectedClosedTypeGenericInfo |-> g]
        /\ stack = << >> /\ comp' = comp
    BY <1>1 DEF ReturnResult
  <2>2. /\ collectedObjectInfo \in Seq(Infos) /\ collectedClosedTypeGenericInfo \in Seq(Infos)
        /\ collectedEnumInfo \in Seq(NamedEnums(comp))
        /\ \A i \in Infos : i.fullName \in Nat
        /\ \A i \in NamedEnums(comp) : i.fullName \in Nat
    BY DEF DescriptionInv, InfosOf, NamedEnums, ObjectInfos, EnumInfos
  <2> HIDE DEF Infos
  <2>3. /\ o \in Seq(Infos) /\ ElementsOf(o) = ElementsOf(collectedObjectInfo)
        /\ g \in Seq(Infos) /\ ElementsOf(g) = ElementsOf(collectedClosedTypeGenericInfo)
        /\ e \in Seq(NamedEnums(comp)) /\ ElementsOf(e) = ElementsOf(collectedEnumInfo)
    BY <2>2, OrderFacts
  <2> HIDE DEF o, g, e
  <2>4. ASSUME NEW i \in ElementsOf(o) \cup ElementsOf(g), NEW m \in ElementsOf(i.members)
        PROVE  \/ Named(m.type)
               \/ \E t \in Types : comp.fullName[t] = m.type /\ ~IsDescribed(comp, t)
    <3>1. /\ \A k \in DOMAIN o : o[k] \in Infos
          /\ \A k \in DOMAIN g : g[k] \in Infos
          /\ \A k \in DOMAIN e : e[k] \in NamedEnums(comp)
      BY <2>3, ElementOfSeq, LenProperties
    <3>2. i \in Infos
      BY <3>1 DEF ElementsOf
    <3>3. i.members \in Seq(MembersOf(comp, alreadyCollected))
      BY <3>2 DEF Infos, InfosOf
    <3>4. \A k \in DOMAIN i.members : i.members[k] \in MembersOf(comp, alreadyCollected)
      BY <3>3, ElementOfSeq, LenProperties
    <3>5. PICK t \in alreadyCollected : m.type = comp.fullName[t]
      BY <3>4 DEF ElementsOf, MembersOf
    <3>6. CASE ~IsDescribed(comp, t)
      BY <3>5, <3>6 DEF Typed, TypeOK
    <3>7. CASE IsDescribed(comp, t)
      <4>1. t \in TypeSet(collectedObjectInfo) \cup TypeSet(collectedEnumInfo)
                    \cup TypeSet(collectedClosedTypeGenericInfo)
        BY <1>1, <2>1, <3>7 DEF Counted, AllCounted, ReturnResult, TypeSet, DescribedTypes
      <4>2. PICK d \in ElementsOf(o) \cup ElementsOf(g) \cup ElementsOf(e) : d.type = t
        BY <2>3, <4>1 DEF TypeSet, ElementsOf
      <4>3. d.fullName = comp.fullName[d.type]
        BY <3>1 DEF ElementsOf, Infos, InfosOf, NamedEnums
      <4> QED BY <3>5, <4>2, <4>3
    <3> QED BY <3>6, <3>7
  <2>5. /\ ElementsOf(result'.CollectedObjectInfo) = ElementsOf(o)
        /\ ElementsOf(result'.CollectedClosedTypeGenericInfo) = ElementsOf(g)
        /\ ElementsOf(result'.collectedEnumInfo) = ElementsOf(e)
    BY <2>1
  <2> QED BY <2>1, <2>4, <2>5 DEF MissingOnlyIfDropped, ElementsOf, IsDescribed
<1>2. CASE UNCHANGED <<comp, result>>
  BY <1>2 DEF MissingOnlyIfDropped, ElementsOf
<1>3. [Next]_vars => ReturnResult \/ UNCHANGED <<comp, result>>
  BY ThrowEffect DEF Next, Walk, Collect, CollectTarget, CollectArgument, SkipMember,
                     CollectMember, FinishType, vars
<1> QED BY <1>1, <1>2, <1>3

(* A member of a description in the result of Collect names a type that    *)
(* the result describes too, or one that the collector drops: never a type *)
(* that the walk should have described and has not.                        *)
THEOREM NothingForgotten == Spec => []MissingOnlyIfDropped
<1>1. Init => DescriptionInv /\ MissingOnlyIfDropped
  <2> SUFFICES ASSUME Init PROVE DescriptionInv /\ MissingOnlyIfDropped
    OBVIOUS
  <2>1. /\ stack = << >> /\ collectedObjectInfo = << >> /\ collectedEnumInfo = << >>
        /\ collectedClosedTypeGenericInfo = << >> /\ result = None
    BY DEF Init
  <2> QED BY <2>1 DEF DescriptionInv, MissingOnlyIfDropped
<1>2. Init => Counted
  <2>1. Init => DescribedTypes = {}
    BY DEF Init, DescribedTypes
  <2> QED BY <2>1, FS_EmptySet DEF Init, Counted, AllCounted, TypeSet
<1>3. WalkInv => WalkOver
  BY DEF WalkInv
<1> QED
  BY <1>1, <1>2, <1>3, TypedInit, TypedStep, WalkInvInit, WalkInvStep, CountedStep,
     DescriptionStep, MissingStep, PTL DEF Spec
====
