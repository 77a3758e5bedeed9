---------------------------- MODULE TypeClosure ----------------------------
(***************************************************************************)
(* What a type collector of Stad.Analysis promises, whatever the order in  *)
(* which it walks a program: the types it knows when it returns are the    *)
(* types reachable from its roots, and nothing else.  A step discovers one *)
(* more type; a collection may only return when nothing is left to         *)
(* discover.  It may fail, over a type it knows or is about to discover.   *)
(***************************************************************************)
EXTENDS Integers

CONSTANT Types          \* the types of the program and of its libraries

VARIABLES
  roots,                \* the types the collection starts from
  uses,                 \* uses[t]: the types the description of t mentions
  known,                \* the types discovered by the current collection
  phase                 \* "idle", "walking", "returned" or "threw"

vars == <<roots, uses, known, phase>>

\* A set of types that holds the roots and, with a type, what that type uses.
IsClosed(S) ==
  /\ roots \subseteq S
  /\ \A t \in S : uses[t] \subseteq S

\* The smallest closed set of types.
Reachable == {t \in Types : \A S \in SUBSET Types : IsClosed(S) => t \in S}

Init ==
  /\ roots \in SUBSET Types
  /\ uses \in [Types -> SUBSET Types]
  /\ known = {}
  /\ phase = "idle"

\* A (new) collection starts from an empty workspace.
Start ==
  /\ phase # "walking"
  /\ phase' = "walking"
  /\ known' = {}
  /\ UNCHANGED <<roots, uses>>

Frontier == (roots \cup UNION {uses[t] : t \in known}) \ known

Discover ==
  /\ phase = "walking"
  /\ \E t \in Frontier : known' = known \cup {t}
  /\ UNCHANGED <<roots, uses, phase>>

Return ==
  /\ phase = "walking"
  /\ IsClosed(known)
  /\ phase' = "returned"
  /\ UNCHANGED <<roots, uses, known>>

Fail ==
  /\ phase = "walking"
  /\ known' = known \/ \E t \in Frontier : known' = known \cup {t}
  /\ phase' = "threw"
  /\ UNCHANGED <<roots, uses>>

Next == Start \/ Discover \/ Return \/ Fail

Spec == Init /\ [][Next]_vars

\* A collection that has returned knows exactly the reachable types.
ReturnsReachable == phase = "returned" => known = Reachable
=============================================================================
