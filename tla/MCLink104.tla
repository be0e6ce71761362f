----------------------------- MODULE MCLink104 -----------------------------
(***************************************************************************)
(* One link over a ring of two slots, a window of one frame and sequence    *)
(* numbers modulo 4: the window closes and is overrun by one frame, and the  *)
(* numbers wrap.  With two reports the cursor goes round the ring.  Of the   *)
(* commands, "control" is answered at once and "interrogate" with several    *)
(* frames; the others answer like one of these.                              *)
(***************************************************************************)
EXTENDS Link104

MCLinks == {"a"}
MCMe == "a"
MCAsdus == {"control", "interrogate"}
=============================================================================
