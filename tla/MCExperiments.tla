--------------------------- MODULE MCExperiments ---------------------------
(* Three experiments: of two dags, then of each of them.                   *)
EXTENDS Experiments

CONSTANTS d1, d2

MCPlan == << <<d1, d2>>, <<d2>>, <<d1>> >>
=============================================================================
