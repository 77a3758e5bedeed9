--------------------------- MODULE MCStadAnalyzer ---------------------------
(***************************************************************************)
(* Small collector results for StadAnalyzer.  Types are numbered in the    *)
(* order of their names: a data set Game (1) and a second one Shop (5), a  *)
(* class Hero (2), a collection of values Table (3, a closed generic type) *)
(* and an enum Element (4), which is no ObjectSerializationInfo.  Their    *)
(* members range over all ways to refer to one another.                    *)
(***************************************************************************)
EXTENDS StadAnalyzer

Game == 1
Hero == 2
Table == 3
Element == 4
Shop == 5

Attribute(namespace, name) == [namespace |-> namespace, name |-> name]
DataSetDefinition == Attribute("Stad.Annotation", "DataSetDefinition")
IgnoreMemberAttribute == Attribute("Stad.Annotation", "IgnoreMemberAttribute")
RangeAttribute == Attribute("Stad.Annotation", "RangeAttribute")
OwnRangeAttribute == Attribute("", "RangeAttribute")
JsonFormatter == Attribute("Utf8Json", "JsonFormatterAttribute")
Nullable == Attribute("System", "NullableAttribute")
WithoutClass == Attribute("", "")

Info(type, attributes, members) ==
  [fullName |-> type, attributes |-> attributes, members |-> members]
Member(type, attributes) ==
  [type |-> type, name |-> "m", isProperty |-> TRUE, isField |-> FALSE,
   attributes |-> attributes]

UpTo(n, S) == UNION {[1..k -> S] : k \in 0..n}

MembersOfType(types, attributes) == [i \in DOMAIN types |-> Member(types[i], attributes)]

Result(game, shop, hero, table, heroAttributes, memberAttributes) ==
  [CollectedObjectInfo |->
     <<Info(Game, <<DataSetDefinition>>, MembersOfType(game, << >>)),
       Info(Hero, heroAttributes, MembersOfType(hero, memberAttributes)),
       Info(Shop, <<Nullable, DataSetDefinition>>, MembersOfType(shop, Unset))>>,
   CollectedClosedTypeGenericInfo |->
     <<Info(Table, << >>, MembersOfType(table, Unset))>>]

\* What refers to what.
Shapes ==
  {Result(game, shop, hero, table, << >>, << >>) :
     game \in UpTo(2, {Hero, Table, Element}), shop \in UpTo(1, {Hero, Table}),
     hero \in UpTo(2, {Hero, Table, Element}), table \in UpTo(1, {Hero, Table, Element, Shop})}

\* What carries which attribute.
Attributed ==
  {Result(game, <<Hero>>, hero, << >>, heroAttributes, memberAttributes) :
     game \in {<<Hero>>, <<Table, Hero>>}, hero \in {<<Table>>, <<Element>>},
     heroAttributes \in UpTo(2, {IgnoreMemberAttribute, RangeAttribute, JsonFormatter, Nullable}),
     memberAttributes \in {Unset} \cup UpTo(2, {RangeAttribute, OwnRangeAttribute, Nullable, WithoutClass})}

\* A member of the data set that is to be ignored.
IgnoredMember ==
  {[CollectedObjectInfo |->
      <<Info(Game, <<DataSetDefinition>>, <<Member(Hero, <<IgnoreMemberAttribute>>)>>),
        Info(Hero, << >>, MembersOfType(hero, << >>))>>,
    CollectedClosedTypeGenericInfo |-> << >>] : hero \in UpTo(2, {Element})}

MCResults == Shapes \cup Attributed
MCResultsIgnored == IgnoredMember
MCKeyValueCollections == {Table}
=============================================================================
