--------------------------- MODULE MCTypeCollector ---------------------------
(***************************************************************************)
(* Small programs for TypeCollectorForAssembly: A is a class, B a generic  *)
(* type, C a class or an enum.  The types use one another, and themselves, *)
(* in every way two or three members allow, so that the programs have self *)
(* references, cycles, shared types, types reached through a type argument *)
(* only, hidden properties, static fields, equal names and no name.  Some  *)
(* hold an attribute that throws, on a type, an enum or a property, or use *)
(* a type that is missing; not all of these lead to it.                    *)
(***************************************************************************)
EXTENDS TypeCollectorForAssembly, TLC

CONSTANTS A, B, C, m, x, y  \* three types, a member name, two attributes

AtMostOne(S) == {<< >>} \cup {<<e>> : e \in S}

PropertyOf(t) ==
  [name |-> m, type |-> t, publicGet |-> TRUE, publicSet |-> FALSE, attributes |-> <<x>>]

\* A public property, a set-only one, one with private accessors.
SomeProperties ==
  {PropertyOf(t) : t \in {A, B, C}}
  \cup {[name |-> m, type |-> B, publicGet |-> FALSE, publicSet |-> s,
         attributes |-> << >>] : s \in BOOLEAN}

FieldOf(t) == [name |-> m, type |-> t, static |-> FALSE, initOnly |-> t = B]

\* Instance fields and a constant.
SomeFields ==
  {FieldOf(t) : t \in {A, C}}
  \cup {[name |-> m, type |-> B, static |-> TRUE, initOnly |-> TRUE]}

\* An enum C has a name of its own, a class C shares the name of A.
SomeNames(kindC) ==
  IF kindC = "enum" THEN A :> 2 @@ B :> 0 @@ C :> 1 ELSE A :> 1 @@ B :> 2 @@ C :> 1

Program(all, kindC, args, pA, pB, fA, fB, fC) ==
  [allTypes   |-> all,
   kind       |-> (A :> "object" @@ B :> "generic" @@ C :> kindC),
   arguments  |-> (A :> << >> @@ B :> args @@ C :> << >>),
   properties |-> (A :> pA @@ B :> pB @@ C :> << >>),
   fields     |-> (A :> fA @@ B :> fB @@ C :> fC),
   fullName   |-> SomeNames(kindC),
   attributes |-> (A :> <<x>> @@ B :> << >> @@ C :> << >>),
   missing    |-> {}]

\* Programs whose generic type is closed (Foo<C>), collected from A alone.
ClosedPrograms ==
  {Program(<<A>>, kindC, <<t>>, pA, pB, fA, fB, fC) :
     kindC \in {"object", "enum"}, t \in {A, B, C},
     pA \in AtMostOne(SomeProperties), pB \in AtMostOne(SomeProperties),
     fA \in AtMostOne(SomeFields), fB \in AtMostOne(SomeFields),
     fC \in AtMostOne({FieldOf(A)})}

\* Programs that declare every type: the generic type is a definition (Foo<>).
OpenPrograms ==
  {Program(all, kindC, << >>, pA, << >>, fA, fB, fC) :
     all \in {<<A, B, C>>, <<C, B, A>>}, kindC \in {"object", "enum"},
     pA \in AtMostOne(SomeProperties), fA \in AtMostOne(SomeFields),
     fB \in AtMostOne(SomeFields), fC \in AtMostOne({FieldOf(B)})}

\* The attribute y throws: on a property, a public one or one that is skipped,
\* or on C.  C may be missing and be the type of a member, of a constant too.
Thrower(t, publicGet) ==
  [name |-> m, type |-> t, publicGet |-> publicGet, publicSet |-> FALSE, attributes |-> <<x, y>>]
Hidden(t) == [Thrower(t, FALSE) EXCEPT !.attributes = << >>]
Constant(t) == [FieldOf(t) EXCEPT !.static = TRUE]

ThrowingPrograms ==
  {[Program(all, kindC, <<t>>, pA, pB, << >>, fB, fC) EXCEPT !.attributes[C] = hasC] :
     all \in {<<A>>, <<A, C>>}, kindC \in {"object", "enum"}, t \in {A, C},
     pA \in {<<PropertyOf(B)>>} \cup AtMostOne({Thrower(A, TRUE), Thrower(C, FALSE)}),
     pB \in AtMostOne({Thrower(C, TRUE), Thrower(C, FALSE)}),
     fB \in AtMostOne({FieldOf(C)}), fC \in AtMostOne({FieldOf(A)}),
     hasC \in AtMostOne({x, y})}

MissingPrograms ==
  {[Program(<<A>>, "object", <<A>>, pA, pB, fA, fB, << >>) EXCEPT !.missing = {C}] :
     pA \in AtMostOne({PropertyOf(B), Hidden(C)}), pB \in AtMostOne({PropertyOf(C), PropertyOf(A)}),
     fA \in AtMostOne({FieldOf(B), Constant(C)}), fB \in AtMostOne({FieldOf(A), FieldOf(C)})}

MCAssemblies == ClosedPrograms \cup OpenPrograms \cup ThrowingPrograms \cup MissingPrograms
=============================================================================
