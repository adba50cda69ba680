------------------------------- MODULE MCVan -------------------------------
(***************************************************************************)
(* Van with two sites in a zone each.                                      *)
(***************************************************************************)
EXTENDS Van

CONSTANTS a, b, W, E

\* b is reachable from both zones, its own included; a from the zone of b or not.
MCConfigs == [s \in Site |-> IF s = a THEN {{}, {E}} ELSE {{W, E}}]

MCPlace == [s \in Site |-> IF s = a THEN W ELSE E]

=============================================================================
