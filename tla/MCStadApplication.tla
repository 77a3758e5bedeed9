-------------------------- MODULE MCStadApplication --------------------------
(***************************************************************************)
(* StadApplication with the UI thread and another one, two views of the    *)
(* registry (each may subscribe late) and one of the data source.          *)
(***************************************************************************)
EXTENDS StadApplication

CONSTANTS v1, v2, v3

MCListens ==
  [v \in {v1, v2, v3} |-> IF v = v3 THEN "DataSource" ELSE "StadRegistry"]

MCMaxSets ==
  [p \in Properties |-> IF p = "StadRegistry" THEN 2 ELSE 1]
=============================================================================
