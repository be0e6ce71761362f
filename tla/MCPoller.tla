------------------------------ MODULE MCPoller ------------------------------
(***************************************************************************)
(* Two devices, a count of misses that wraps at 4.                           *)
(***************************************************************************)
EXTENDS Poller
=============================================================================
