------------------------------ MODULE MCRxRing ------------------------------
(***************************************************************************)
(* Port 0 and another one, answers of three bytes in buffers of five.        *)
(***************************************************************************)
EXTENDS RxRing

MCPorts == {0, 1}
=============================================================================
