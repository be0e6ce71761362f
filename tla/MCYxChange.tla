----------------------------- MODULE MCYxChange -----------------------------
(***************************************************************************)
(* A device with two inputs on each of two ports.                            *)
(***************************************************************************)
EXTENDS YxChange

MCPortOf == [k \in 0..1 |-> IF k = 0 THEN 0 ELSE 4]
=============================================================================
