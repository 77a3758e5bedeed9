-------------------------- MODULE MCSourceSelection --------------------------
(***************************************************************************)
(* Two folders.  An assembly is in both of them, of one build or of two;   *)
(* the first folder also has another dll.  The viewer itself runs on a     *)
(* build of that assembly, or has nothing in common with the folders.      *)
(***************************************************************************)
EXTENDS SourceSelection, TLC

CONSTANTS f1, f2, p1, p2, p3, n1, n2, good

MCFolderOf == p1 :> f1 @@ p2 :> f1 @@ p3 :> f2
MCNameOf == p1 :> n1 @@ p2 :> n2 @@ p3 :> n1
MCOwn == {n1 :> None @@ n2 :> None, n1 :> good @@ n2 :> None}
=============================================================================
