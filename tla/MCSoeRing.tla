----------------------------- MODULE MCSoeRing -----------------------------
(***************************************************************************)
(* A ring of three slots read through five, two links, and reports enough   *)
(* for two laps and a half.                                                 *)
(***************************************************************************)
EXTENDS SoeRing

MCLinks == {"a", "b"}
=============================================================================
