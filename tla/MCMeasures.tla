----------------------------- MODULE MCMeasures -----------------------------
(***************************************************************************)
(* Two links; a port with one device whose answers go to its own row, and    *)
(* one with two devices whose answers go elsewhere.                          *)
(***************************************************************************)
EXTENDS Measures

MCOrder == <<0, 1>>
MCDevNum == [p \in {0, 1} |-> IF p = 0 THEN 1 ELSE 2]
=============================================================================
