----------------------- MODULE MCRegistryFromAssemblies -----------------------
(***************************************************************************)
(* Small programs for RegistryFromAssemblies: a data set Game; a generic   *)
(* type Table, a collection of values; a class Hero; Element, a class, an  *)
(* enum or a second data set, that may have the name of Hero.  Open is the *)
(* open generic collection that comes with Stad; the types of its members  *)
(* have no name.                                                           *)
(***************************************************************************)
EXTENDS RegistryFromAssemblies, TLC

CONSTANTS Game, Table, Hero, Element, Open, m

\* The annotations of Stad have a namespace, so they are not handled on a type or
\* property that a model is made for.
Attribute(namespace, name) == [namespace |-> namespace, name |-> name]
DataSetDefinition == Attribute("Stad.Annotation", "DataSetDefinition")
IgnoreMemberAttribute == Attribute("Stad.Annotation", "IgnoreMemberAttribute")
Serializable == Attribute("System", "SerializableAttribute")
OwnAttribute == Attribute("", "RangeAttribute")
Display == Attribute("System", "DisplayAttribute")

\* The getter of DisplayAttribute.Order throws where it was not set.
MCThrowing == {Display}
MCAttributes == {DataSetDefinition, IgnoreMemberAttribute, Serializable, OwnAttribute, Display}

\* Table is named second.
MCKeyValueCollections == {2}

PropertyOf(type, attributes) ==
  [name |-> m, type |-> type, publicGet |-> TRUE, publicSet |-> FALSE, attributes |-> attributes]
HiddenOf(type) == [PropertyOf(type, << >>) EXCEPT !.publicGet = FALSE]
FieldOf(type) == [name |-> m, type |-> type, static |-> FALSE, initOnly |-> FALSE]

AtMostOne(S) == {<< >>} \cup {<<e>> : e \in S}
AtMostTwo(S) == AtMostOne(S) \cup {<<e, f>> : e, f \in S}

ProgramOf(all, kind, nameOfElement, argument, game, hero, table, element, heroHas, elementHas) ==
  [allTypes   |-> all,
   kind       |-> (Game :> "object" @@ Table :> "generic" @@ Hero :> "object" @@ Element :> kind
                   @@ Open :> "generic"),
   arguments  |-> [[t \in Types |-> << >>] EXCEPT ![Table] = <<argument>>],
   properties |-> (Game :> [i \in DOMAIN game |-> PropertyOf(game[i], <<Serializable>>)]
                   @@ Table :> << >> @@ Hero :> hero @@ Element :> << >>
                   @@ Open :> <<PropertyOf(Element, << >>), PropertyOf(Table, << >>)>>),
   fields     |-> [[t \in Types |-> << >>] EXCEPT ![Table] = [i \in DOMAIN table |-> FieldOf(table[i])],
                                                  ![Element] = [i \in DOMAIN element |-> FieldOf(element[i])]],
   fullName   |-> (Game :> 3 @@ Table :> 2 @@ Hero :> 4 @@ Element :> nameOfElement
                   @@ Open :> 5),
   attributes |-> (Game :> <<Serializable, DataSetDefinition>> @@ Table :> << >>
                   @@ Hero :> heroHas @@ Element :> elementHas @@ Open :> << >>),
   missing    |-> {}]

\* What uses what.
Shapes ==
  {ProgramOf(<<Game>>, kind, name, argument, game, hero, table, element, << >>, elementHas) :
     kind \in {"object", "enum"}, name \in {1, 4}, argument \in {Hero, Element},
     game \in AtMostTwo({Table, Hero, Element}),
     hero \in AtMostOne({PropertyOf(Table, << >>), PropertyOf(Element, <<Serializable>>),
                         HiddenOf(Hero)}),
     table \in AtMostOne({Hero, Element}), element \in AtMostOne({Game, Hero}),
     elementHas \in {<<Serializable>>}}

\* What carries which attribute; all types are declared.
Attributed ==
  {ProgramOf(<<Element, Hero, Game>>, kind, 1, Hero, <<Hero>>, hero, << >>, element, heroHas, elementHas) :
     kind \in {"object", "enum"},
     hero \in {<<PropertyOf(Element, attributes)>> :
                 attributes \in AtMostOne({OwnAttribute, IgnoreMemberAttribute})},
     element \in AtMostOne({Hero, Table}),
     heroHas \in AtMostOne({IgnoreMemberAttribute, Serializable}),
     elementHas \in AtMostOne({DataSetDefinition, OwnAttribute})}

\* Element is a second data set.
TwoDataSets ==
  {ProgramOf(<<Element, Game>>, "object", 1, Hero, game, hero, table, element, << >>,
             <<DataSetDefinition>>) :
     game \in AtMostTwo({Table, Hero}), hero \in AtMostOne({PropertyOf(Table, << >>)}),
     table \in AtMostOne({Hero}), element \in AtMostTwo({Table, Hero})}

\* Open is declared: Element is its parameter and Table a type of that, both
\* without a name, which data sets may lead to or not.
WithOpen ==
  {[ProgramOf(all, "object", 0, Element, <<t>>, hero, table, << >>, << >>, << >>)
      EXCEPT !.fullName[Table] = 0] :
     all \in {<<Game, Open>>, <<Open, Game>>, <<Element, Open, Game, Hero>>},
     t \in {Hero, Table},
     hero \in AtMostOne({PropertyOf(Hero, << >>), PropertyOf(Element, << >>),
                         PropertyOf(Game, <<OwnAttribute>>)}),
     table \in AtMostOne({Element, Hero})}

\* Display is somewhere, or Table is missing, where a data set leads or not.
Undescribable ==
  {[ProgramOf(<<Game, Hero, Element>>, kind, 1, Hero, game, hero, << >>, << >>, heroHas, elementHas)
      EXCEPT !.missing = missing] :
     kind \in {"object", "enum"}, game \in AtMostOne({Hero, Element}),
     hero \in AtMostOne({PropertyOf(Element, <<Display>>), PropertyOf(Table, << >>), HiddenOf(Table)}),
     heroHas \in AtMostOne({Display}), elementHas \in AtMostOne({Display, OwnAttribute}),
     missing \in {{}, {Table}}}

MCAssemblies == Shapes \cup Attributed \cup TwoDataSets \cup WithOpen \cup Undescribable
=============================================================================
