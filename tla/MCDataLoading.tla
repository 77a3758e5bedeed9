---------------------------- MODULE MCDataLoading ----------------------------
(***************************************************************************)
(* DataLoading with two items, a number for a member of type object and an *)
(* object for a member of any other kind, files that are rewritten, cut    *)
(* short, held open or missing, manifests without items, and one manifest  *)
(* that names a MessagePack file.                                          *)
(***************************************************************************)
EXTENDS DataLoading

CONSTANTS n1, n2, t1, t2

MCMaxLoads == [t \in Threads |-> 1]

MCTexts == {<<"digit">>, <<"digit", "digit">>, <<"open", "close">>, <<"open">>}

FileOf(n, text) == [name |-> n, version |-> 0, text |-> text]

Item(n, encoding) == [name |-> n, encoding |-> encoding]

\* Two Json files, for every kind of the second member.
SomeWorlds ==
  {[member |-> [n \in Names |-> IF n = n1 THEN "object" ELSE kind], manifest |-> "items",
    items |-> <<Item(n1, "Json"), Item(n2, "Json")>>,
    edits |-> [n \in Names |-> IF n = edited THEN 1 ELSE 0], held |-> {},
    files |-> [n \in Names |-> IF n = n1 THEN FileOf(n, <<"digit", "digit">>)
                               ELSE FileOf(n, <<"open", "close">>)]] : kind \in MemberKinds,
                                                         edited \in Names}

AWorld == CHOOSE w \in SomeWorlds : w.member[n2] = "class" /\ w.edits[n1] = 1

\* No items to be had; a file held open now and then; no file for an item; no
\* formatter for an item.
BrokenWorlds ==
  {[AWorld EXCEPT !.manifest = manifest] : manifest \in {"missing", "unreadable", "noItems"}}
  \cup
  {[AWorld EXCEPT !.held = {n2}],
   [AWorld EXCEPT !.files = [@ EXCEPT ![n2] = NoFile]],
   [AWorld EXCEPT !.items = <<Item(n1, "Json"), Item(n2, "MessagePack")>>]}

MCWorlds == SomeWorlds \cup BrokenWorlds
=============================================================================
