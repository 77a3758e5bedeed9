-------------------- MODULE MCTypeCollectorForCompilation --------------------
(***************************************************************************)
(* Small compilations: A is a public class of the source, in two parts or  *)
(* one; B is generic, of the source or a library; C is a class or an enum, *)
(* alone, nested in A or derived from it; D is a type the collector drops, *)
(* each for another reason, or an enum of a library.  Attributes that      *)
(* cannot be converted are on a type that is described, on one that is     *)
(* dropped but the type of a property, or on both.                         *)
(***************************************************************************)
EXTENDS TypeCollectorForCompilation, TLC

CONSTANTS A, B, C, D, m

AtMostOne(S) == {<< >>} \cup {<<e>> : e \in S}

Property(t) == [name |-> m, type |-> t, indexer |-> FALSE, static |-> FALSE,
                publicGet |-> TRUE, publicSet |-> FALSE]
Field(t) == [name |-> m, type |-> t, implicit |-> FALSE, static |-> FALSE,
             public |-> TRUE, readOnly |-> FALSE]

\* Members that are listed, and one of each kind that is not; one of those has a
\* type that nothing else need lead to, whose attributes are converted all the same.
SomeProperties ==
  {Property(t) : t \in Types}
  \cup {[Property(C) EXCEPT !.indexer = TRUE], [Property(C) EXCEPT !.static = TRUE],
        [Property(C) EXCEPT !.publicGet = FALSE], [Property(D) EXCEPT !.publicGet = FALSE],
        [Property(C) EXCEPT !.publicGet = FALSE, !.publicSet = TRUE]}
SomeFields ==
  {Field(t) : t \in Types \ {A}}
  \cup {[Field(C) EXCEPT !.implicit = TRUE], [Field(B) EXCEPT !.public = FALSE]}

\* Shape, accessibility and container of D.
SomeDs ==
  {<<"source", FALSE, None>>, <<"source", TRUE, C>>, <<"segment", TRUE, None>>,
   <<"metadata", TRUE, None>>, <<"unnamed", FALSE, None>>, <<"error", FALSE, None>>,
   <<"enum", TRUE, None>>}

Program(declared, kindC, publicC, containerC, baseC, d, args, pA, fA, pB, fC, arrays) ==
  [declared   |-> declared,
   shape      |-> (A :> "source" @@ B :> "generic" @@ C :> kindC @@ D :> d[1]),
   public     |-> (A :> TRUE @@ B :> TRUE @@ C :> publicC @@ D :> d[2]),
   container  |-> (A :> None @@ B :> None @@ C :> containerC @@ D :> d[3]),
   base       |-> (A :> None @@ B :> None @@ C :> baseC @@ D :> None),
   arguments  |-> (A :> << >> @@ B :> args @@ C :> << >> @@ D :> << >>),
   properties |-> (A :> pA @@ B :> pB @@ C :> << >> @@ D :> << >>),
   fields     |-> (A :> fA @@ B :> << >> @@ C :> fC @@ D :> << >>),
   fullName   |-> (A :> 3 @@ B :> 2 @@ C :> 1 @@ D :> 4),
   attributes |-> (A :> 1 @@ B :> 0 @@ C :> 0 @@ D :> 0),
   arrays     |-> arrays]

\* Every shape of D and every pair of members of A.
Shallow ==
  {Program(<<A, C, A>>, kindC, TRUE, None, None, d, <<D>>, pA, fA, << >>, << >>, arrays) :
     kindC \in {"source", "enum"}, d \in SomeDs,
     pA \in AtMostOne(SomeProperties), fA \in AtMostOne(SomeFields),
     arrays \in {{}, {C}, {D}}}

\* Cycles, inherited members, nested and internal classes.
Deep ==
  {Program(declared, "source", publicC, containerC, baseC, d, <<t>>, <<Property(B)>>,
           << >>, pB, fC, arrays) :
     declared \in {<<A>>, <<C, A>>}, publicC \in BOOLEAN,
     containerC \in {None, A}, baseC \in {None, A},
     d \in {<<"source", TRUE, C>>, <<"metadata", TRUE, None>>}, t \in Types,
     pB \in AtMostOne({Property(t) : t \in Types}), fC \in AtMostOne({Field(B), Field(D)}),
     arrays \in {{}, {B, D}}}

\* An error type has no attributes.
MCCompilations ==
  {c \in Shallow \cup Deep : c.shape[D] = "error" => D \notin c.arrays}
=============================================================================
