--------------------------- MODULE MCConfigStore ---------------------------
(***************************************************************************)
(* Two ports; a file for both, then one that takes the second out of use.    *)
(***************************************************************************)
EXTENDS ConfigStore

MCEnabled == [f \in 1..2 |-> IF f = 1 THEN {0, 1} ELSE {0}]
=============================================================================
